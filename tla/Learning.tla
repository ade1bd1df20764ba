------------------------------- MODULE Learning --------------------------------
(***************************************************************************)
(* The exercises of one course: its single practice question, and one of   *)
(* its learning assessments with the attempts of each student, the review  *)
(* of missed lessons between two attempts, and the connections requests    *)
(* hold while they ask on another one whether the student is entitled.     *)
(*                                                                         *)
(* A student's request is three steps.  It enters: takes a connection and  *)
(* locks the enrolment.  It is authorized: a second connection reads,      *)
(* without a lock, whether course and supervision admit the student.  Then *)
(* it writes and commits.  What matters of an answer is whether it is      *)
(* right, so a request for an assessment names the questions it gets right.*)
(***************************************************************************)
EXTENDS Naturals, Sequences, FiniteSets

CONSTANTS
    Pupils,
    Requests,   \* requests that may be open at a time
    PoolSize,   \* connections of the process
    Items,      \* questions of the assessment
    Lessons,
    MaxTries    \* bound on the attempts of a student

ASSUME PoolAssumption == PoolSize \in Nat /\ MaxTries \in Nat
ASSUME BankAssumption == IsFiniteSet(Items)

Reviewed == {"pending", "approved", "rejected"}

NoExercise == [status |-> "none"]
Practice == [status : Reviewed]
Assessment == [status : Reviewed, lesson : [Items -> Lessons],
               count : Nat \ {0}, required : Nat \ {0}]

Try == [drawn : SUBSET Items, status : {"in_progress", "submitted"},
        outcome : {"none", "needs_review", "completed"},
        missed : SUBSET Items, read : SUBSET Lessons]

Idle == [step |-> "idle"]
Request == [step : {"entered", "entitled"}, pupil : Pupils]

VARIABLES
    owner,      \* of the course: "provider" or "educator"
    authority,  \* approved grant, active approver and owner
    published,
    enrolment,  \* of each student: "none", "active" or "cancelled"
    authoring,  \* open transactions of the owner: they share the course row
    practice, assessment,
    practiced,  \* answer of each student to the practice question
    tries,      \* attempts of each student
    request

learningVars == <<owner, authority, published, enrolment, authoring, practice,
                  assessment, practiced, tries, request>>
course == <<owner, authority, published>>
exercises == <<practice, assessment>>

LearningInit ==
    /\ owner \in {"provider", "educator"}
    /\ authority = TRUE /\ published = FALSE
    /\ enrolment = [s \in Pupils |-> "none"]
    /\ authoring = {}
    /\ practice = NoExercise /\ assessment = NoExercise
    /\ practiced = [s \in Pupils |-> "none"]
    /\ tries = [s \in Pupils |-> <<>>]
    /\ request = [r \in Requests |-> Idle]

(***************************************************************************)
(* Rows and connections in use.                                            *)
(***************************************************************************)
\* Fault: the row of the course is read without a lock.
CourseUnlocked == TRUE

CourseFree == authoring = {}

\* Fault: the enrolment is read without a lock.
EnrolmentUnlocked(s) == TRUE

EnrolmentFree(s) ==
    \A r \in Requests : request[r] # Idle => request[r].pupil # s

ConnectionFree ==
    Cardinality({r \in Requests : request[r] # Idle}) < PoolSize

(***************************************************************************)
(* The owner writes exercises while the course is a draft.                 *)
(***************************************************************************)
ReadForExercise(kind) ==
    /\ ~published /\ authority
    /\ authoring' = authoring \cup {kind}
    /\ UNCHANGED <<course, enrolment, exercises, practiced, tries, request>>

\* The row of the course is the key: a second question is refused.
CreatePractice ==
    /\ "practice" \in authoring
    /\ practice' = IF practice = NoExercise THEN [status |-> "pending"] ELSE practice
    /\ authoring' = authoring \ {"practice"}
    /\ UNCHANGED <<course, enrolment, assessment, practiced, tries, request>>

CreateProviderPractice == owner = "provider" /\ CreatePractice
CreateIndependentEducatorPractice == owner = "educator" /\ CreatePractice

CreateCourseLearningAssessment(lesson, count, required) ==
    /\ "assessment" \in authoring
    /\ assessment = NoExercise
    /\ required <= count /\ count <= Cardinality(Items)
    /\ assessment' = [status |-> "pending", lesson |-> lesson, count |-> count,
                      required |-> required]
    /\ authoring' = authoring \ {"assessment"}
    /\ UNCHANGED <<course, enrolment, practice, practiced, tries, request>>

AbandonExercise(kind) ==
    /\ kind \in authoring
    /\ authoring' = authoring \ {kind}
    /\ UNCHANGED <<course, enrolment, exercises, practiced, tries, request>>

\* One decision of an institute reviewer who is not the owner, on a draft course.
DecidePractice(status) ==
    /\ ~published /\ authority
    /\ practice.status = "pending"
    /\ practice' = [practice EXCEPT !.status = status]
    /\ UNCHANGED <<course, enrolment, authoring, assessment, practiced, tries, request>>

DecideInstitutePractice(status) == owner = "provider" /\ DecidePractice(status)
DecideIndependentEducatorInstitutePractice(status) ==
    owner = "educator" /\ DecidePractice(status)

DecideInstituteLearningAssessment(status) ==
    /\ ~published /\ authority
    /\ assessment.status = "pending"
    /\ assessment' = [assessment EXCEPT !.status = status]
    /\ UNCHANGED <<course, enrolment, authoring, practice, practiced, tries, request>>

\* A practice question that waits for its review blocks publication.
PublishCourse ==
    /\ authority /\ CourseFree
    /\ practice.status # "pending"
    /\ published' = TRUE
    /\ UNCHANGED <<owner, authority, enrolment, authoring, exercises, practiced, tries,
                  request>>

(***************************************************************************)
(* Requests of students.                                                   *)
(***************************************************************************)
\* A cancelled enrolment is never revived.
EnrollFreeCourse(s) ==
    /\ published /\ authority
    /\ enrolment[s] = "none"
    /\ enrolment' = [enrolment EXCEPT ![s] = "active"]
    /\ UNCHANGED <<course, authoring, exercises, practiced, tries, request>>

CancelEnrolment(s) ==
    /\ enrolment[s] = "active" /\ EnrolmentFree(s)
    /\ enrolment' = [enrolment EXCEPT ![s] = "cancelled"]
    /\ UNCHANGED <<course, authoring, exercises, practiced, tries, request>>

Enter(r, s) ==
    /\ request[r] = Idle /\ ConnectionFree
    /\ enrolment[s] = "active"
    /\ request' = [request EXCEPT ![r] = [step |-> "entered", pupil |-> s]]
    /\ UNCHANGED <<course, enrolment, authoring, exercises, practiced, tries>>

\* Needs a second connection, for as long as its one query takes.
HasStudentEntitlement(r) ==
    /\ request[r].step = "entered" /\ ConnectionFree
    /\ request' = [request EXCEPT ![r] =
           IF published /\ authority THEN [@ EXCEPT !.step = "entitled"] ELSE Idle]
    /\ UNCHANGED <<course, enrolment, authoring, exercises, practiced, tries>>

Entitled(r) == request[r].step = "entitled"

\* Fault: reading one missed lesson is enough.
SomeLessonRead(t) == t.missed = {} \/ t.read # {}

LessonsOf(missed) == {assessment.lesson[q] : q \in missed}

AllLessonsRead(t) == LessonsOf(t.missed) \subseteq t.read

Latest(s) == tries[s][Len(tries[s])]

\* A running attempt is resumed and a completed one ends the assessment; after
\* any other the missed lessons must have been reviewed.
MayTry(s) ==
    tries[s] # <<>> => /\ Latest(s).outcome = "needs_review"
                       /\ AllLessonsRead(Latest(s))

Finish(r) == request' = [request EXCEPT ![r] = Idle]

StartStudentLearningAssessment(r, drawn) ==
    LET s == request[r].pupil IN
    /\ Entitled(r)
    /\ assessment.status = "approved" /\ Cardinality(drawn) = assessment.count
    /\ MayTry(s) /\ Len(tries[s]) < MaxTries
    /\ tries' = [tries EXCEPT ![s] = Append(@,
           [drawn |-> drawn, status |-> "in_progress", outcome |-> "none",
            missed |-> {}, read |-> {}])]
    /\ Finish(r)
    /\ UNCHANGED <<course, enrolment, authoring, exercises, practiced>>

\* Fault: an attempt that was submitted before is graded again.
Gradable(t) == TRUE

Running(t) == t.status = "in_progress"

Graded(t, right) ==
    [t EXCEPT !.status = "submitted", !.missed = t.drawn \ right,
              !.outcome = IF Cardinality(t.drawn \cap right) >= assessment.required
                          THEN "completed" ELSE "needs_review"]

SubmitStudentLearningAssessment(r, n, right) ==
    LET s == request[r].pupil IN
    /\ Entitled(r)
    /\ Running(tries[s][n])
    /\ tries' = [tries EXCEPT ![s][n] = Graded(@, right)]
    /\ Finish(r)
    /\ UNCHANGED <<course, enrolment, authoring, exercises, practiced>>

AcknowledgeLessonReview(r, n, l) ==
    LET s == request[r].pupil IN
    /\ Entitled(r)
    /\ tries[s][n].outcome = "needs_review"
    /\ l \in LessonsOf(tries[s][n].missed)
    /\ tries' = [tries EXCEPT ![s][n].read = @ \cup {l}]
    /\ Finish(r)
    /\ UNCHANGED <<course, enrolment, authoring, exercises, practiced>>

\* A second answer of a student is ignored and the first one returned.
SubmitStudentPractice(r, answer) ==
    LET s == request[r].pupil IN
    /\ Entitled(r)
    /\ practice.status = "approved"
    /\ practiced' = [practiced EXCEPT ![s] = IF @ = "none" THEN answer ELSE @]
    /\ Finish(r)
    /\ UNCHANGED <<course, enrolment, authoring, exercises, tries>>

\* A replay, a refusal or an error: nothing is written.
EndWithoutEffect(r) ==
    /\ Entitled(r)
    /\ Finish(r)
    /\ UNCHANGED <<course, enrolment, authoring, exercises, practiced, tries>>

\* The owner's transactions hold the grant and the memberships they have read.
SupervisionChanges ==
    /\ CourseFree
    /\ authority' = ~authority
    /\ UNCHANGED <<owner, published, enrolment, authoring, exercises, practiced, tries,
                  request>>

Respond(r) ==
    \/ \E drawn \in SUBSET Items : StartStudentLearningAssessment(r, drawn)
    \/ \E n \in 1..Len(tries[request[r].pupil]) :
          \/ \E right \in SUBSET Items : SubmitStudentLearningAssessment(r, n, right)
          \/ \E l \in Lessons : AcknowledgeLessonReview(r, n, l)
    \/ \E answer \in {"right", "wrong"} : SubmitStudentPractice(r, answer)
    \/ EndWithoutEffect(r)

LearningNext ==
    \/ \E kind \in {"practice", "assessment"} :
          ReadForExercise(kind) \/ AbandonExercise(kind)
    \/ CreateProviderPractice \/ CreateIndependentEducatorPractice
    \/ \E lesson \in [Items -> Lessons], count, required \in 1..Cardinality(Items) :
          CreateCourseLearningAssessment(lesson, count, required)
    \/ \E status \in {"approved", "rejected"} :
          \/ DecideInstitutePractice(status)
          \/ DecideIndependentEducatorInstitutePractice(status)
          \/ DecideInstituteLearningAssessment(status)
    \/ PublishCourse
    \/ \E s \in Pupils : EnrollFreeCourse(s) \/ CancelEnrolment(s)
    \/ \E r \in Requests :
          \/ \E s \in Pupils : Enter(r, s)
          \/ HasStudentEntitlement(r)
          \/ request[r] # Idle /\ Respond(r)
    \/ SupervisionChanges

LearningSpec == LearningInit /\ [][LearningNext]_learningVars

(***************************************************************************)
(* A query waits in line for a free connection, and what is authorized     *)
(* answers.                                                                *)
(***************************************************************************)
LearningFairSpec ==
    /\ LearningSpec
    /\ \A r \in Requests :
          /\ SF_learningVars(HasStudentEntitlement(r))
          /\ WF_learningVars(EndWithoutEffect(r))
------------------------------------------------------------------------------
(***************************************************************************)
(* Properties.                                                             *)
(***************************************************************************)
\* Every row is of its table, and no more connections are used than exist.
LearningTypeOK ==
    /\ owner \in {"provider", "educator"}
    /\ authority \in BOOLEAN /\ published \in BOOLEAN
    /\ enrolment \in [Pupils -> {"none", "active", "cancelled"}]
    /\ authoring \subseteq {"practice", "assessment"}
    /\ practice \in Practice \cup {NoExercise}
    /\ assessment \in Assessment \cup {NoExercise}
    /\ practiced \in [Pupils -> {"none", "right", "wrong"}]
    /\ tries \in [Pupils -> Seq(Try)]
    /\ request \in [Requests -> Request \cup {Idle}]
    /\ Cardinality({r \in Requests : request[r] # Idle}) <= PoolSize

\* A student tries again only after failing, with every lesson of the questions
\* missed reviewed, and a try that passed is the last.
TriesAreEarned ==
    \A s \in Pupils : \A n \in 1..Len(tries[s]) :
        LET t == tries[s][n] IN
        /\ Cardinality(t.drawn) = assessment.count
        /\ t.outcome = "completed" <=>
               /\ t.status = "submitted"
               /\ Cardinality(t.drawn \ t.missed) >= assessment.required
        /\ n < Len(tries[s]) =>
               t.outcome = "needs_review" /\ LessonsOf(t.missed) \subseteq t.read

\* The first result is the result: a submitted try is not graded again and an
\* answer to the practice question is not replaced, however often they are sent.
FirstResultStands ==
    [][\A s \in Pupils :
          /\ practiced[s] # "none" => practiced'[s] = practiced[s]
          /\ \A n \in 1..Len(tries[s]) :
                tries[s][n].status = "submitted" =>
                    tries'[s][n] = [tries[s][n] EXCEPT !.read = tries'[s][n].read]
      ]_learningVars

\* Once a student has cancelled the enrolment, nothing more of theirs is recorded,
\* not even from a request that had been authorized before.
NoAnswerAfterCancel ==
    [][\A s \in Pupils :
          enrolment[s] = "cancelled" => tries'[s] = tries[s]
                                        /\ practiced'[s] = practiced[s]]_learningVars

\* No student meets an exercise nobody has reviewed: whatever was written while the
\* course was being published, its practice question is decided, and an undecided
\* assessment has no try.
ExercisesAreReviewed ==
    /\ published => practice.status # "pending"
    /\ \A s \in Pupils : tries[s] # <<>> => assessment.status = "approved"

\* What is tried was reviewed before, and what is tried again was earned.
ExercisesAreSound == TriesAreEarned /\ ExercisesAreReviewed

\* What a student has answered stands: it is not graded twice, and nothing is added
\* once the enrolment is cancelled.
AnswersStand == FirstResultStands /\ NoAnswerAfterCancel

\* A request of a student ends.
RequestsAreAnswered ==
    \A r \in Requests : request[r] # Idle ~> request[r] = Idle
================================================================================
