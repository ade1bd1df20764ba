# Formal verification of Dena

Dena is a learning platform: a Next.js application over PostgreSQL, with a
private media origin, a LiveKit media server, an SMS gateway and (one day) a
payment gateway around it. Its own logic is in `src/src/server`; the routes
under `src/src/app/api` parse a request, find the caller and call it. This
directory holds TLA+ models of that logic, the TLC configurations that check
them and proofs for TLAPS. File names below are relative to `src/src/server`
unless they start with `src/`.

    tlc -workers 2 -config MediaPipeline_uploads.cfg MCMediaPipeline   # a run
    tlapm MediaPipelineProofs.tla                                      # the proofs

Contents: 1 inventory, 2 what is modelled and how it corresponds to the code,
3 runs, 4 fairness, 5 proofs, 6 what the checks found, 7 what is left out,
8 plan.

## 1. Inventory

All state is in PostgreSQL; a server process keeps nothing between requests.
Concurrency is between transactions of different requests (read committed, with
`FOR UPDATE` / `FOR SHARE` / `SKIP LOCKED` where the code asks for it), between
a handler's transactions and the outside calls it makes in the middle, and
between the application and three independent workers: the media processor, the
cleanup trigger and the quota worker.

| Component | State (`src/src/db/schema.ts`) | Operations | Talks to |
|---|---|---|---|
| Quarantined media ingest (`media/ingest.ts`) | `mediaIngests`, `privateMediaAssets` | reserve, receive the bytes, complete with an attestation | origin (PUT, GET, HEAD), processing queue, course and its supervision |
| Processing queue (`media/processing-queue.ts`) | `mediaProcessingJobs` | claim a lease, fail, dead-letter | worker callbacks, ingest |
| Cleanup (`media/cleanup.ts`) | `mediaCleanupJobs` | sweep, claim, DELETE, finish | origin, ingest |
| Multipart control (`media/multipart-control.ts`) | `mediaMultipartPlans` | reserve, grant, cancel, expire | quota shared with ingest |
| Multipart driver (`media/multipart.ts`, `media/storage-adapter.ts`) | object store | create, sign, complete, abort | object store |
| Service catalogue, orders, payment (`institute/services.ts`, `student/service-orders.ts`, `institute/service-orders.ts`, `finance/*`) | `instituteServiceCatalog`, `instituteServiceOrders`, `financialJournals` with entries, `serviceTimeLedger` | create and update a service, order, cancel, consent, capture | gateway events |
| Service calls (`institute/service-calls.ts`, `institute/livekit-usage.ts`, `institute/service-call-usage.ts`) | `instituteServiceCalls`, `serviceCallMediaEvents`, `serviceTimeLedger` | book, start, cancel, end, token, presence event, sweep, usage report, follow-up | LiveKit, quota worker |
| Exams (`assessments/exam-management.ts`) | `assessmentExams`, their questions, attempts, answers | create, publish, cancel, start, save, submit, close when overdue | question bank, enrolment |
| Question bank (`institute/question-bank.ts`, `admin/question-bank.ts`) | `assessmentQuestionBankQuestions` | create, update, list | exams, which copy from it |
| Assessments and practice (`assessments/learning-assessment.ts`, `student/course-practice.ts`) | questions, reviews, tries, lesson reviews, answers | write, review, start, submit, acknowledge a lesson, answer | enrolment, publication, connection pool |
| Course authority (`courses/workflow.ts`, `independent-educators/*`, publication route) | `courses`, `supervisionGrants`, affiliations | create, request, approve, revoke, transfer, withdraw, publish | media, exercises, enrolment |
| Collaborations (`provider/collaborations.ts`) | `providerInstituteCollaborations` | request, withdraw, two decisions | memberships |
| Enrolment and catalogue (`student/enroll.ts`, `student/entitlement.ts`, `student/course-catalog.ts`) | `courseEnrollments` | enrol, cancel, entitlement | everything a student does |
| Private playback and progress (`student/private-media.ts`, `student/video-progress.ts`) | completions, private notes | stream, complete, note | media, enrolment |
| Course team (`course-team/*`, `institute/course-team.ts`) | assignments, conversations, messages, requests, sessions | assign, end, write, reply, ask, decide, hold | enrolment |
| Support (`support/*`) | tickets, messages, notifications, attachments | open, reply, update, read, upload, scan | private origin, scanner |
| Sign-in and phone change (`auth/phone.ts`, `student/phone-change.ts`) | send budgets, challenges, users | reserve a send, send, verify, move | SMS gateway, Better Auth |
| Memberships, role applications (`access/*`) | `memberships`, applications | onboard, apply, review | every component |
| Organisations (`organization/*`) | roster, API keys | add, import, remove, create, rotate, revoke | accounts |
| Tutor (`ai-tutor/*`, `student/ai-tutor-profile.ts`, its routes) | permission events, transcripts, topics, video feedback | permit, revoke, save a transcript, ask, practise, clear | exams, enrolment |
| HTTP routes (`src/src/app/api`) | none | 171 methods: checks, session, role, reads, transactions | every component |
| Dashboards, audit, pages, deployment | rows of their own or none | queries, rendering, scripts | – |

What is hard:

* **Media.** Four actors act on one upload (the handler, up to five leases of
  workers, the sweep, up to five leases of the cleaner), none of them holding a
  lock while it talks to the origin. A PUT can outlive its handler and a DELETE
  can overtake a PUT. The code's answer is a lease token checked under the row
  lock, a second look at course and supervision at commit, and a *fence*: a
  DELETE counts only when the origin says that it will refuse the key for ever.
* **Calls.** The paid resource is time, measured by events of a server outside
  that arrive late, repeated and out of order. The code recomputes the seconds
  from every stored event, bills a call once, and closes the room from two
  places (the webhook and a sweep every second), neither of which is atomic with
  what people do in the room.
* **Orders.** Money is booked by an event that may be repeated, used for two
  orders or arrive while the order is cancelled, the catalogue changed or
  consent withheld, and every transaction locks only the rows it names.

* **Exams and exercises.** A student works in several windows; deadlines pass
  between two statements; the bank changes under a published exam; the entitlement
  is checked on one connection and the answer written on another.
* **Authority.** A course changes hands when an affiliation is revoked, while it is
  being created, published and enrolled in; assignments, keys and memberships end
  between the check and the write; two people decide one row.
* **Identity.** The number of an account moves, its derived e-mail does not; SMS
  answers come late and take a challenge with them.
* **Tutor.** Whether an exam is being sat, whether a video may be quoted and what is
  remembered of a student are read and written by separate statements.

What makes each component correct is what its properties say (section 3); where the
code can go wrong is listed line by line under `hazards` in `PROJECT.json`.

## 2. The models

### MediaPipeline (with UploadOutcome as its abstract specification)

One course and a set of client request ids; an id names an upload or a
multipart plan. `ingest`, `plan`, `job`, `cleanup` and `asset` are the rows;
`transfer`, `call` and `cleaner` say where the handlers are between two
transactions; `puts`, `object`, `fenced` and `output` are the origin.

| Action | Code |
|---|---|
| `Reserve`, `ReservePlan`, `CancelPlan` | `reserveIngest`, the reservation and cancellation of `multipart-control.ts` |
| `BeginUpload`, `ReceiveBody`, `PutFails`, `RecordQuarantined`, `RecordFails`, `RejectFailedIngest`, `UploadCrashes` | `receiveQuarantinedUpload`: its first transaction, its body and PUT, its second transaction, its `finally`, and a process that dies at any of these points |
| `ClaimJobs`, `FailProcessingJob` | the claim route (`deadLetterExpiredLeases`, `leaseProcessingJobs`) and the fail route |
| `Preflight`, `VerifyOriginBytes`, `CompleteAttestedIngest`, `AbandonCall` | `completeAttestedIngest`: the reads before the private I/O, the I/O, the final transaction, every other way out |
| `EnqueueCleanupCandidates`, `ClaimCleanupJobs`, `DeleteQuarantined`, `FinishCleanupJob` | the cleanup run |
| `OriginStores`, `ScannerDelivers`, `CourseChanges`, `Publish` | the origin, the worker's output, supervision and publication |
| `Ages`, `JobDeadline`, `CleanupDeadline` | the instants the rows wait for |

Abstractions. *Time* is a flag per row: the code only asks whether an instant
(lease end, next attempt, one hour, 24 hours) has passed; the flag may be set at
any moment, so every ordering of deadlines and steps is included.
*Lease tokens* are random UUIDs, one per lease, and every lease increments
`attempts`: the attempt number identifies the token. *Bytes* are there or not; a
digest or signature that does not fit is the choice to give up. A *crash* loses
the handler and leaves its row. `rejectedAt` keeps the order of rejections
because the sweep sorts by it.

`UploadOutcome` is the promise without queues, leases or clocks: open, then
published with its bytes kept, or discarded and perhaps later declared erased,
from when on no byte is stored for it again.

### ServiceCalls

The calls of one paid order, with the second as the unit of time (the precision
of the events). Every transaction of the code takes the order row `FOR UPDATE`
first, therefore each is one action. `room`, `open` and `sent` are the media
server; `recorded`, `connected` and `consumed` are the stored events, the column
`connected_seconds` and the seconds of the consume entry (`Consumption`, how many they
are, is the sum that is billed); `closing` holds the requests to close
a room that are on their way. Two history variables measure the world: `talk`, the
seconds the student and a member of staff really were in the first room together, and
`overtime`, the seconds of a call in which something was late (an event not stored, a
call the sweep should have closed, a room still open though its call has ended).

| Action | Code |
|---|---|
| `Schedule`, `Start`, `Cancel`, `End` | the four life-cycle functions of `institute/service-calls.ts` |
| `IssueToken` | the join access of `institute/service-calls.ts` and `institute/livekit.ts` |
| `RecordPresenceEvent`, `RepeatPresenceEvent` | the webhook, first and repeated delivery |
| `EnforceQuota` | one call of the sweep `enforceLiveKitServiceCallQuotas` |
| `RecordUsage` | the second usage boundary, `institute/service-call-usage.ts` |
| `Join`, `Leave`, `RoomExpires`, `CloseRoom`, `CloseFails` | the media server |
| `MembershipChanges`, `Tick` | administration, time |

The code sorts events of one second by the media server's id, which is random. `Ranks`
gives a new event any place among the events its person already has in this second;
events of different people in one second need no order, as no time passes between
them. Two flags name what a run takes for granted. `Prompt`: events, sweeps and closing
requests take less than a second. `JoinAfterEnd`: whether somebody uses a token they
hold after the call has ended.

### ServiceOrders (with Checkout as its abstract specification)

Students, idempotency keys, services and gateway events of one institute. Two
transactions read rows early and write late, and are two actions each with the
locks held between them (`placing`, `capturing`); a transaction that needs a
locked row waits, which is what `StudentFree`, `ServiceFree` and `OrderFree`
say. The others write what they have just read under the lock and are one
action. The membership row of a student is locked, the staff's is not.

| Action | Code |
|---|---|
| `CreateInstituteService`, `UpdateInstituteService` | `institute/services.ts` |
| `ReadForOrder`, `InsertOrder`, `AbandonOrder` | `createStudentServiceOrder`, its reads and its insert |
| `CancelStudentServiceOrder`, `ConfirmGuardianConsent` | `student/service-orders.ts`, `institute/service-orders.ts` |
| `ReadForCapture`, `BookPayment`, `RepeatPayment`, `AbandonCapture` | `captureInstituteServiceOrderPayment` with `postCaptureJournal` and `grantPurchasedQuota` |
| `StudentChanges`, `StaffChanges` | administration |

Amounts are integers: a price in toman is ten times as many rials, of which a
tenth is Dena's (`Split`); the columns are wide enough for every price the input
schema admits, so no overflow is modelled. An event whose amount differs from the
order's is refused before anything is written and left out. `Checkout` is the
promise: an order is placed once, then paid with a payment of its own or
cancelled, and stays so.

### Exams

One exam, its students and the question bank it was copied from. Starting holds the
row of the exam, saving and closing hold the row of the attempt; each is two actions
with the lock between (`sittings`). Three variables say who may act: staff,
supervision, memberships and enrolments change at any step at which no transaction
holds them.

| Action | Code |
|---|---|
| `CreateInstituteQuestion`, `UpdateInstituteQuestion`, `CreateDenaQuestion`, `UpdateDenaQuestion` | both question banks |
| `CreateInstituteExam`, `CreateDenaExam`, `PublishExam`, `CancelExam` | creation with `saveQuestions`, `changeExamStatus` |
| `StartStudentExam`, `FinishStart` | `startStudentExam`, before and after its locks: resume, close the overdue attempt, begin a new one |
| `GetStudentExamAttempt`, `SaveStudentExamAnswers`, `SubmitStudentExamAttempt` | their reads under the lock, with the turn to closing when the deadline has passed |
| `WriteAnswers`, `FinalizeStudentExamAttempt`, `AbandonSitting` | the writes, and every way out without one |

Abstractions. An answer is an option or nothing. Reports only read.

### Learning

The practice question and one assessment of a course, reviewed before publication,
and the tries of its students. A request of a student is three steps: it takes a
connection and locks the enrolment (`Enter`), asks on a *second* connection whether
course and supervision admit the student (`HasStudentEntitlement`), writes and
commits. The pool of connections is part of the state. What matters of a submission
is which of the drawn questions it gets right.

| Action | Code |
|---|---|
| `ReadForExercise`, `CreateProviderPractice`, `CreateIndependentEducatorPractice`, `CreateCourseLearningAssessment`, `AbandonExercise` | the owner's transactions, which share the course row |
| `DecideInstitutePractice`, `DecideIndependentEducatorInstitutePractice`, `DecideInstituteLearningAssessment` | the reviewers |
| `PublishCourse` | the publication route, as far as exercises are concerned |
| `StartStudentLearningAssessment`, `SubmitStudentLearningAssessment`, `AcknowledgeLessonReview`, `SubmitStudentPractice`, `EndWithoutEffect` | the students' transactions after their check |
| `EnrollFreeCourse`, `CancelEnrolment` | `student/enroll.ts`, the cancel route |

### CourseAuthority

Courses of a provider, of an independent educator affiliated with the institute,
and of the institute. `affiliation` is the status of the educator's latest
affiliation with this institute. Creating, publishing and enrolling hold the
affiliation row from their check to their end, revoking holds it until the courses
are transferred: `open` keeps what each such transaction holds.

| Action | Code |
|---|---|
| `CreateEducatorAffiliation`, `WithdrawEducatorAffiliation`, `DecideEducatorAffiliation`, `BeginRevoke`, `RevokeEducatorAffiliation` | `independent-educators/affiliations.ts`; the last one transfers the educator's courses, with their grants, to the institute |
| `CreateSupervisedCourse`, `DecideCourseSupervision` | `courses/workflow.ts` |
| `BeginCourse`, `CreateIndependentEducatorCourse` | `independent-educators/course-workflow.ts` |
| `PublishProviderCourse`, `BeginPublish`, `PublishIndependentEducatorCourse` | both publication routes |
| `BeginEnrol`, `EnrollFreeCourse`, `CancelCourse` | `student/enroll.ts`, the cancel route |
| `Abandon`, `VideoBecomesReady`, `MembershipChanges` | a refusal after locks, the media pipeline, administration |

### CourseTeam, Collaborations

`CourseTeam` is the team of one course and one student: `writes` are messages,
replies and requests that hold assignment and enrolment; `decisions` are those of a
supporter, which read both before their transaction and lock only the request.
`Collaborations` is every row of one provider and one institute; its steps are one
transaction each.

| Action | Code |
|---|---|
| `AssignInstituteCourseTeamMember`, `DeactivateInstituteCourseTeamMember`, `SetInstituteCourseTeamSessionRequestPolicy` | `institute/course-team.ts` |
| `BeginMessage`, `SendStudentCourseMessage`, `BeginReply`, `SendCourseTeamReply`, `BeginAsk`, `CreateStudentProblemSolvingRequest`, `AbandonWrite` | conversations and the student's request |
| `BeginDecision`, `Checks`, `DecideSupporterProblemRequest`, `DecideSupporterSession`, `AbandonDecision` | `course-team/problem-solving.ts` |
| `CreateProviderCollaboration`, `WithdrawProviderCollaboration`, `DecideInstituteCollaboration`, `DecideDenaCollaboration` | `provider/collaborations.ts` |

### Accounts, PhoneChange

`Accounts` has the rows a number leads to: the account with the e-mail derived from
its first number, the student membership, a role application, the roster of an
organisation and its keys; a call with a key finds the key before its transaction
and checks it in it (`AuthenticateOrganizationApiKey`, `CreateByKey`). `PhoneChange`
is the budgets of sends, the one challenge of an account and the requests between
their four steps.

| Action | Code |
|---|---|
| `VerifyNumber`, `Onboard`, `MoveNumber` | first sign-in, the onboarding route, the end of a change of number |
| `CreateByHand`, `AuthenticateOrganizationApiKey`, `CreateByKey`, `ApiCallEnds`, `DeleteOrganizationStudent` | `organization/students.ts`, the keyed route |
| `CreateOrganizationApiKey`, `RevokeOrganizationApiKey` | `organization/api-keys.ts` |
| `ApplyForRole`, `ReviewRoleApplication` | the application route, `access/review-role-application.ts` |
| `SendSignInCode`, `RequestStudentPhoneChange`, `ReserveForNumber`, `StoreChallenge`, `SmsAcknowledged`, `SmsFails`, `RequestDies`, `VerifyStudentPhoneChange` | `auth/phone.ts`, `student/phone-change.ts` |

Assumed: a code is not used twice and a guess is wrong; a request that still runs when
the clock moves by one cooldown has died (its gateway call is cut off long before).

### SupportTickets, SupportAttachments

A ticket with its two deadlines, and the attachments of one ticket between
reservation, store, quarantine and scan. A date is the number of *working* minutes before
it and the second of its minute; the minute stands still outside working hours, while the
second may be any. `After` adds whole working minutes and keeps the second, as the walk
of `addIranBusinessMinutes` does; `TimeLeft` counts the complete minutes between two
dates, as `iranBusinessMinutesBetween` does, and loses the last, incomplete one. A
handler reads one clock. `ran` and `resumed` are history variables: the working minutes
that ran against the last promise, and how often its deadline was paused and went on.

| Action | Code |
|---|---|
| `CreateTechnicalSupportTicket`, `ReplyBySupport`, `ReplyByRequester`, `UpdateTechnicalSupportTicketByOperator`, `MarkTechnicalSupportNotificationRead` | `support/tickets.ts`, each with its notification |
| `CountAttachments`, `ReserveAttachment`, `PutAttachment`, `QuarantineAttachment`, `UploadAnswers`, `UploadFails`, `UploadDies` | `uploadSupportAttachment` from its lock to its answer |
| `ScanAttachment`, `RecordSupportAttachmentScan` | the scanner, and its report |

### TutorContent, TutorProfile

`TutorContent` is the permission events of the videos of a course and their stored
transcripts; an event is dated by the start of its transaction, which may wait for
the row. `TutorProfile` is one student: requests that check the entitlement, then
look for an exam, then read what they answer from, and write last.

| Action | Code |
|---|---|
| `StartDecision`, `Decide` | the permission route, with replays |
| `LockTranscript`, `SaveTranscript`, `RollBackTranscript` | the transcript route |
| `PostQuestion`, `CheckExam`, `RetrieveStudentVideoTranscript`, `AnswerFromSeedCorpus`, `NothingFound`, `AnswerQuestion` | the tutor route |
| `PostPractice`, `Grade`, `AnswerPractice`, `PostVideoFeedback`, `RecordVideoFeedback` | its practice and feedback routes |
| `PostLessonFeedback`, `RecordLessonFeedback`, `PostCoursePractice`, `RecordCoursePractice`, `ClearTopics`, `ClearVideoFeedback` | `student/ai-tutor-profile.ts` from its routes |

Left out: the number of questions of a topic and its dates, ranking and wording.

### RouteSteps, StudentRoutes, TeachingRoutes, OfficeRoutes, Requests

Every method of every route file is one definition: the sequence of its checks,
sessions, roles, reads and transactions in the order of the code, with the statuses
each refuses with and the facts about the caller it relies on (a session, a
membership, the role, an enrolment or assignment, a worker's token, a key).
`RouteSteps` names the kinds of steps; `Requests` runs one request through one route
while others sign the caller out, suspend the membership, cancel the enrolment or
revoke the key (`CallerChanges`). `Pass`, `Refuse`, `Fail`, `Commit`,
`CommitNothing` and `Done` are what a step can do.

What a route asks about and does not lock may be gone when it commits. Where that is
so, the route is in one of the named sets of `Requests`, each with its reason:
`LocksPlaceOnly` (the enrolment is locked, the membership only read again),
`LocksNothing` (read again, nothing locked), `WritesOwnRows` (nobody else's rows are
touched), `NotesTransfers`, `CountsCalls`. `WritesUnderAuthority` says that there are
no others. Success statuses are not told apart, a session is not looked at again
after it was read, and the tokens of the deployment do not change.

### MCStudents, MCAccess, MCServices

The components above share no variables. A run over several of them lets a behaviour
choose one (`chosen`) and leaves the others where they start; a property of a component
is then checked over exactly its own behaviours. `MCStudents` holds `Exams`,
`Learning`, the two support modules and `Requests`; `MCAccess` holds `CourseAuthority`, `CourseTeam`,
`Collaborations`, `Accounts`, `PhoneChange` and the two tutor modules; `MCServices` holds
`ServiceOrders` and `ServiceCalls`, of which `MCServiceCalls` has further instances.

## 3. Runs

| Run | Instance | Shows |
|---|---|---|
| `media_uploads` | two ids, two callbacks, two leases per queue, quota and batch of one | types; `ReadyIsProcessed`, `DoneIsFenced`, `QuarantineIsBacked`, `SharedQuota`, `PublicationIsSafe`; that the pipeline implements `UploadOutcome` |
| `media_ends` | two ids with a place each, one attempt per job, a batch of one, fairness | `UploadsResolve` when two uploads are rejected and the sweep takes one |
| `media_sweep_starvation` | two ids, a sweep of one row | **violation** of `RejectedIsQueued` |
| `calls_one` | one call, a member of staff who may be suspended, grant 1, time 2, three moves, a second usage report, fairness | types, `ExactUnlessTied`, `BilledOnceAfterEnd`, and a used-up call stops (`UsedUpCallStops`) |
| `calls_cap` | one call without `Prompt` | **violation** of `ConsumptionWithinGrant` |
| `calls_after` | one call, `Prompt`, joining after the end | **violation** of `NoTalkWithoutBalance` |
| `services` | orders: one student, two keys, one service, two events, prices 1 and 2, minutes 0 and 5; calls: two calls, grant 2, time 4, `Prompt`, no joining after the end | `BooksMatchOrders`, `QuotaIsPaidFor`, `OnePendingOrder`, `ConsentBeforePayment`, `OrderedAsOffered`, and that buying implements `Checkout`; `ConsumptionWithinGrant`, `OneOpenCall` |
| `students` | one student, two questions, two attempts, a clock of three; one pupil with two requests on three connections, two questions, two lessons, two tries; one ticket over two working days, at full and half minutes; two uploads for one place; one request on each of the 171 routes | `AttemptsAreSound`, `ClosedIsFrozen`, `ExercisesAreSound`, `AnswersStand`, `SupportKeepsItsWord`, `WritesUnderAuthority`, `AnswersAreHonest` |
| `learning_pool` | two pupils, two requests, two connections, fairness | **violation** of `RequestsAreAnswered` |
| `access` | three people and two courses with two open transactions; one supporter, one counselor, two windows; three people with up to two parties and two requests; two accounts, two numbers, one key; two numbers over three cooldowns; one video, two request ids, three deliveries; one topic, one film, two requests | `CourseHasItsOwner`, `AccessFollowsAuthority`, `SessionsMatchRequests`, `WritesWhileAssigned`, `ApprovedByThree`, `RosterIsAuthorized`, `AcknowledgedCodeStands`, `PermissionsHold`, `ProfileIsTheStudents`, `NoHelpInExam` |
| `team_after` | one supporter, one request, one window | **violation** of `DecidesWhileAssigned` |
| `accounts_number` | two accounts, two numbers | **violation** of `NewNumberOpensAccount` |

Why the bounds are enough for the questions asked.

* *Uploads* meet only in the quota, in the batches and in the sweep's order: two
  suffice. Two *leases* are the least with one that ran out and its successor; the
  second meets the limit, so both branches of a retry occur. A quota of one lets its
  boundary be met; `media_ends` has two places, so that two uploads are in the queues and
  the sweep at once, and pays for it with one attempt per job: a job that fails is dead. Two *callbacks* are the
  least that compete. *Batches* of one row are the least that can leave a row out.
* *Seconds*: two or three suffice for a grant to be used up, overrun and used by a
  second call; `MaxMoves` bounds how often people come and go (the student, a member of
  staff, and one of them again).
* *Orders*: two keys are the least for a second pending order, two events for one
  event against another, two prices for a change of price in between.
* *Exams*: the clock (`Horizon`) runs past the end; a second attempt starts while the
  first is overdue, is closed by its start, and meets `Limit`. A paper of two
  questions has a right, a wrong and an open answer at once. Students share nothing of
  an attempt, so one suffices.
* *Learning*: two requests are the least that overlap, and with two connections the
  least that wait for each other; `students` gives a third so that nothing but the
  locks is asked; `MaxTries` two is the least with a try earned by another.
* *Authority*: two courses are the least of which a revocation transfers one and meets the
  other's request id; two open transactions (`MaxOpen`) the least that race. The
  learner is the educator, whose role is that of a student: one membership then says
  whether both stand.
* *Team, collaborations, accounts*: two windows, two requests, two accounts for one
  number. Three people with at most two parties each (`MaxParties`) can hold every
  combination that matters to three hands; `MaxMessages` is one because a
  conversation only begins once.
* *Phone*: a cooldown is one unit; a window of three and two sends let a budget fill,
  cool down and start anew; three codes (`LastCode`, `LastMinute`) let a late failure
  meet a later request.
* *Support*: the promises in use are 480 and 1440 working minutes. A step of the clock is
  479 minutes or none, at the full or the half minute (`Steps`, `Seconds`): two steps and
  a minute lost to a conversion meet the end of a promise of 480 from both sides, and
  `MaxPauses` two lets losses add up. The limit of attachments is scaled to one.
* *Tutor*: three deliveries are a grant, a revocation and a repetition. `MaxCount`
  stands for the 10000 at which a count stops.

No run has a state constraint; every bound is a guard of the action that would pass
it. Deadlock is checked for media; the other instances really stop when
their time, codes or ids are used up. Symmetry is used for ids, calls, keys, events,
questions, options and courses, never in a run with a liveness property.

The `Fault` definitions in the modules are the mutants: each is what a plausible
mistake would make of the definition below it, and makes the property it is paired
with in `PROJECT.json` fail.

## 4. Fairness

`MediaPipeline` (`UploadsResolve`): time passes (a lease runs out, an hour ends), and
both queues and the sweep are polled for ever, which is what the worker's claim route
and the cleanup trigger are for. Claims sort by the instant a row waits for and a
failure moves a row back, so every claimable row is in a batch some day: weak
fairness per row. Nothing is assumed of uploaders, workers, scanner or origin.
A rejected upload is promised an end only while fewer than `BatchLimit` others come
before it in the sweep (`RejectedBefore`): the sweep selects rows it has queued before,
so the others may wait for ever, as `media_sweep_starvation` shows.
The property speaks of *reserved* rows: a row left in *uploading* by a crash stays
there, which the code accepts (nothing sweeps that status) and which the quota keeps
counting.

`ServiceCalls` (`UsedUpCallStops`): the worker (`src/scripts/livekit-quota-worker.mjs`)
calls the sweep every second for ever (weak fairness of `EnforceQuota`), and the media
server does not refuse every close it is asked for (strong fairness of `CloseRoom`,
as each failure withdraws the request until the next sweep). Webhook deliveries are
*not* assumed to arrive: the property begins when all events are stored, and asks that no
person has two of them in one second, since the sweep may take somebody who is there
for absent when such events are sorted by their random ids.

`Learning` (`RequestsAreAnswered`): a query that waits for a connection gets one if one
is free again and again (strong fairness of `HasStudentEntitlement`: the pool serves in
turn), and what is authorised answers. With this a request still need not end.

## 5. Proofs

The constants are arbitrary (finite where the code's rows are), with the named
assumptions of the modules: positive limits (one of them the sends of a window, three
in `auth/phone.ts`), natural numbers, a student who is not staff, positive prices, films
that are not topics. TLC found each inductive invariant to hold first. Each proof has
one lemma per action or group of actions with one effect, a step lemma that combines
them, and theorems that follow by `PTL`. One theorem has a hypothesis of its own; it is
named below.

* `MediaPipelineProofs`: `IInv` is the conjunction of `TypeOK` with what ties handlers,
  rows and origin together: a handler that works owns an *uploading* row, and bytes
  exist only after it sent them (`TransferInv`); the job row exists from quarantine on
  and is open exactly while the upload is quarantined (`JobInv`); a quarantined or
  ready upload has its bytes, a fenced one is rejected (`OriginInv`); assets are the
  ready uploads, their job done and their output there (`AssetInv`); a verified
  callback has seen the output (`CallInv`); a cleanup row implies rejection, an
  acknowledged DELETE a fence (`CleanupInv`). Without them the invariants of the runs
  are not inductive: that a ready upload is never fenced, for instance, needs that
  cleanup runs exist for rejected uploads only, and that a quarantined upload is not
  one of them. From it `TypeCorrect`, `ServesProcessedOnly`, `CleanupIsSafe`,
  `ErasureIsFenced`, `ProcessingIsBacked`, the step properties
  `AuthorizedAtPublication`, `ReadyAndRejectedAreFinal`, `HolderPublishes`,
  `LeasesAreExclusive` and their conjunction `PublicationsAreSafe`, `QuotaIsShared`
  (with cardinalities of finite sets) and `PipelineKeepsPromise`, the refinement of
  `UploadOutcome`.
* `ServiceCallsProofs`: `IInv` adds to the types that the sent events are finitely
  many, that billed calls are ended and that one call is open. From it
  `CallsTypeCorrect`, `OneCallAtATime`, `BillIsFinal`.
  `TalkInv` adds what ties the room to the events: no event is of a later second than
  now (`EventsInOrder`), there is a latest second (`LastKnown`), `connected` is what the
  stored events share (`StoredIsCounted`); and, of a call in which nobody has two events
  in one second, who is in the room is what each person's latest event says
  (`RoomIsEvents`) and what was really talked is what all sent events share up to now or
  to the end (`TalkIsShared`). From it `StoredSecondsAreExact` (`ExactUnlessTied`), for
  any ids, delays and order of delivery. The condition cannot go (section 6).
  `LateInv` splits the seconds a call may be billed for (`Billable`) into those of its
  `overtime` and the others (`Fair`). A second that passed since an unstored event is
  overtime (`LateIsOvertime`), the room of a call stands open from its first event to its
  end and the call was started (`RoomsAreOpen`, `CallsWereStarted`), a bill lies between
  the fair seconds and those with the overtime (`Bills`). In a second in which nothing is
  late at most one call gains a fair second, and the worker has compared its stored
  seconds with the balance: so the fair seconds of all calls stay within the grant
  (`FairWithinGrant`, with cardinalities), hence the bills within the grant and the
  overtime. From it `GrantIsExceededByDelayOnly` (`OverrunIsLate`), whatever is late or
  lost, whoever is suspended and whoever rejoins. An event the webhook refuses for ever
  keeps its call late until the end is stored. The hypothesis is `Reports = {}`: no second
  usage provider. `recordInstituteServiceCallUsage` has no caller but its test
  (`src/tests/e2e/institute-service-orders-db.spec.ts`).
* `ServiceOrdersProofs`: `IInv` adds what an open transaction still knows (the rows it
  read are as it read them, because it holds their locks; a second pending order
  cannot be inserted while a first is being placed) and the shape of each journal.
  From it `OrdersTypeCorrect`, `BooksAreExact`, `QuotaIsGrantedOnce`,
  `OneUndecidedOrder`, `ConsentComesFirst`, `OffersAreCurrent` and `CheckoutIsKept`,
  the refinement of `Checkout`.
* `AssessmentProofs`, exams: `AttemptsInv` (every attempt but the last is closed,
  deadlines lie in the schedule, a closed attempt has the score of its stored answers,
  a cancelled exam has none) needs `SittingsInv`: a save or a close that is under way
  is the only one of its attempt, that attempt is still running, and a close has read
  the answers that are stored; a start in progress finds the exam published. From it
  `ExamsAreFair` and `ClosedAttemptsStay`.
* `AssessmentProofs`, exercises: an open request's enrolment is active because it is
  locked (`RequestsInv`), an owner's open transaction keeps the course a draft
  (`DraftInv`), each try is graded by its answers and each but the last one is earned
  (`TriesInv`), and the open requests are finitely many and within the pool
  (`PoolInv`). From it `ExercisesStaySound` and `StudentAnswersStand`.
* `CourseProofs`, authority: `OpenInv` says what a transaction that holds the
  affiliation knows (it still stands; one that creates or revokes holds it alone; a
  student who enrols is one and the course exists), `GrantInv` that every course has
  its grant. From it `CoursesHaveOwners` and `AccessIsAuthorized`.
* `CourseProofs`, team: a write in progress holds an assignment and an enrolment in
  force (`WritesHold`); two checked decisions never concern one request
  (`DecisionsHold`). From it `SessionsAgree` and `StoredWhileAssigned`.
* `CourseProofs`, collaborations: one live row (`OneLive`, with cardinalities) and
  different hands, so far as decided (`HandsDiffer`). From it `ThreeHands`.
* `AccountAndTutorProofs`, accounts: the types are inductive, and with them that every
  row of a roster was added by somebody with authority: `AccountsTypeCorrect`,
  `RosterIsUnderAuthority`.
  Phone: the account's budget lets one request pass per step of the clock, so at most
  one is between its reservation and its answer (`OneRequest`), and the challenge it
  may take away is its own (`CodeIsOwn`). From them `PhoneTypeCorrect` and
  `AcknowledgedStays`.
  Tutor content: `PermissionsHold` is inductive once its tables are functions and
  finitely many decisions were sent (`ContentRows`): `ContentTypeCorrect`,
  `TutorIsPermitted`. Tutor profile: a request that came in the running exam is not
  admitted and one that writes still has the consent it read (`ProfileRows`):
  `ProfileTypeCorrect`, `ProfileIsOwn`, `ExamsAreSatAlone`.
* `StudentsProofs`, support: a deadline lies between the promise less the working time
  that ran, and a minute before it per resumption. This is inductive with the types
  (`PromisesAreKept`), with one lemma for what a pause and a resumption lose
  (`ResumingKeepsPromise`). Attachments: an upload that has counted holds the ticket alone
  and found room (`CountStands`), each upload under way has its row
  (`UploadsHaveRows`), a file has at most one verdict, and none before it is stored
  (`VerdictsAgree`): `FilesStayFewAndClean`.
  Routes: the proof has two parts. Every route of the table is `Disciplined`: each
  commit holds what was asked about the caller before it, no refusal follows a commit,
  and the caller is identified before the database is asked, with the exceptions that
  the sets of `Requests` name (`MayLose`, `RefusesAfterWriting`, `OpenToAll`). This is
  shown route by route, in lemmas for groups of the table (`PlainStudentRoutes`,
  `TeachingRoutes`, ..., combined in `RoutesAreDisciplined`). For any table with this
  discipline a request that wrote has a commit behind it, and the caller's facts it
  locked stand (`RequestsIInv`): `RequestsTypeCorrect`, `WritesHaveAuthority`,
  `RefusalsAreHonest`.
* `AccessProofs` and the end of `StudentsProofs`, the compositions: a component that
  was not chosen stutters, so the composition implements each part
  (`AccessImplementsParts`, `StudentsImplementParts`) and inherits what is proved of
  it (`AccessTypeCorrect`, `AccessIsSafe`, `StudentsTypeCorrect`, `SupportKeepsWord`,
  `StudentsAreSafe`).

Every invariant and every action property of a passing run is thereby stated by a
theorem, but for `ConsumptionWithinGrant`, which is model-checked within the world of
`services`. `OverrunIsLate` is proved and no run checks it: where nothing is late it is
`ConsumptionWithinGrant`, where something is, `calls_cap` shows that no less can be said.
Also only model-checked: the two liveness properties `UploadsResolve` and
`UsedUpCallStops` (fairness and `ENABLED` are beyond the prover), and the violations,
which are counterexamples and not theorems.

## 6. What the checks found

* `media_sweep_starvation`: the sweep selects the oldest rejected uploads up to its
  limit *including those it queued before* (`media/cleanup.ts:74`). As soon as a
  batch of rejected uploads exists, a younger one is never queued and its bytes
  stay. `UploadsResolve` therefore promises an end to the first of a batch only.
* `calls_cap`: the consume entry is all the connected seconds of the call; nothing
  limits it to what the order has left, so a late event or a failing close takes the
  ledger below zero. Under `Prompt` the bound holds (`services`); without it
  the excess is at most the time something was late (`GrantIsExceededByDelayOnly`).
* `calls_after`: after the end of a call nobody watches its room; the join tokens
  open it again for up to an hour, and one consume entry per call means that the
  time is not billed.
* `learning_pool`: a request of a student asks the pool for a second connection inside
  its transaction (`assessments/learning-assessment.ts:110` and six other places); as
  many requests as the pool is large wait for each other for ever.
* `team_after`: a supporter's assignment is read before the transaction of a decision
  and not again (`course-team/problem-solving.ts:127`); a supporter whose assignment
  has ended meanwhile still decides.
* `accounts_number`: a change of number leaves the e-mail derived from the old one
  (`student/phone-change.ts:131`), which is unique; the old number opens no account.

`PROJECT.json` quotes the documents that say otherwise.

Seen while modelling, and stated by no property:

* Calls: an event delivered after *room_finished* changes `connected_seconds` while the
  consume entry stays (`institute/livekit-usage.ts:192`); events of one second are
  sorted by LiveKit's random id (`:26`), so that somebody who joins and leaves within a
  second counts, half of the time, as present until their next event, and somebody who
  leaves and comes back as absent: the seconds billed are then not those shared, which
  `ExactUnlessTied` has to leave out; the sweep stops at the first room that cannot be
  closed (`:247`); a suspended member with a valid token joins and is not counted
  (`:153`); a room that finishes within the second of its start has an end before its
  start and the row check refuses it (`src/src/db/schema.ts:2232`).
* Orders: money captured for an order the student has cancelled meanwhile is refused
  and nothing refunds it (`finance/service-order-payments.ts:60`).
* Support: the row of an upload that died counts against the limit for ever, and a lost
  answer of the commit marks a stored file failed (`support/attachments.ts:221`); an operator who is
  the requester replies as support; a reply is dated by the start of its transaction,
  an update by the clock of the process.
* Courses: a transferred course keeps its request id, whose unique index can stand in
  the way of a revocation; two calls with one key wait for each other on its row; rows
  are locked in opposite orders at `independent-educators/course-workflow.ts:35` and
  `course-publication.ts:28` or `affiliations.ts:246`; an institute cannot decide about
  a transferred course although decision 0004 says that it may manage it
  (`courses/workflow.ts:158`).
* Exercises: an assessment still pending at publication is never reviewed; an author
  whose provider membership is suspended may review their own question
  (`student/course-practice.ts:472`).
* Team: a cancelled session leaves its request scheduled; a session can be scheduled
  while the enrolment is being cancelled; the date of a conversation's last message can
  go back.
* Exams: an attempt past its deadline is closed only when its student comes back
  (`assessments/exam-management.ts:534`); until then reports show it running.
* Tutor: permission events are dated by the start of their transaction; a row check
  compares the clocks of application and database (`src/src/db/schema.ts:664`); a
  question admitted before an exam started is answered during it; once a count is full
  right answers are still added; lesson and practice feedback of the course is not
  held back in an exam.
* Organisations: an import adds rows one by one and answers 207.

## 7. Not modelled

Wording, ranking and formatting, success statuses, audit entries, the follow-up note of
a call, grants of multipart parts and the storage driver that nothing calls yet, the
creation of payment intents, byte ranges of videos, reports, dashboards, pages,
deployment and evaluation scripts. Several institutes or orders (rows of different ones
share no lock, except the sweep's visit to several orders). The sign-in library, whose
outcome is `VerifyNumber`. Database failures other than a lost transaction; PostgreSQL
itself is taken to do what read committed with row locks promises, and a deadlock it
detects is a transaction that failed. Components without a module are listed with the
reason in `PROJECT.json`.

## 8. Plan

Done, in this order: `MediaPipeline`, `ServiceCalls`, `ServiceOrders` (what a student
watches, the time they paid for, the money); `Exams`, `Learning`; `CourseAuthority`,
`CourseTeam`, `Collaborations`; `Accounts`, `PhoneChange`; support; tutor; the routes.
All with proofs.

Next:

1. Several orders under one sweep in `ServiceCalls`, and `ServiceCalls` composed with the
   grant of `ServiceOrders`.
2. `CourseAuthority` composed with the `approved` input of `MediaPipeline` and with the
   exercises of `Learning`.
3. The storage driver of multipart uploads, once the server calls it.
