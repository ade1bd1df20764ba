--------------------------------- MODULE Exams ---------------------------------
(***************************************************************************)
(* One exam of an institute or of Dena: its paper is copied from the       *)
(* question bank, it is published before it opens, and students sit it in  *)
(* numbered attempts, each with a deadline of its own.                     *)
(*                                                                         *)
(* A start holds the row of the exam from its check to its insert; saving  *)
(* and closing an attempt hold the row of the attempt.  Each of them is    *)
(* two actions with the lock between.  A transaction that needs a locked   *)
(* row waits, and one that fails changes nothing.                          *)
(***************************************************************************)
EXTENDS Integers, Sequences, FiniteSets

CONSTANTS
    Students,
    Questions,
    Options,
    Opens, Closes, Duration, Limit,
    Horizon     \* bound on the clock

ASSUME ScheduleAssumption ==
    /\ {Opens, Closes, Duration, Limit, Horizon} \subseteq Nat
    /\ Opens < Closes /\ Duration > 0 /\ Limit > 0

Nothing == "nothing"
ASSUME OptionsAssumption == Nothing \notin Options /\ IsFiniteSet(Questions)

\* A paper and a sheet give an option, or nothing, for each question.
Sheet == [Questions -> Options \cup {Nothing}]
Blank == [q \in Questions |-> Nothing]

NoScore == -1
Attempt == [status : {"in_progress", "submitted", "expired"}, deadline : Nat,
            answers : Sheet, score : Nat \cup {NoScore}]

Sitting == [student : Students, op : {"start"}]
           \cup [student : Students, op : {"save"}, n : Nat \ {0}, given : Sheet]
           \cup [student : Students, op : {"close"}, n : Nat \ {0},
                 status : {"submitted", "expired"}, read : Sheet]

VARIABLES
    now,
    planned,    \* planned by an institute for a course, or else Dena's own
    staffed,    \* an active member of the institute, or administrator
    supervised, \* the course has an approved grant
    learners,   \* students with an active membership
    enrolled,   \* students with an active enrolment in the course
    bank,       \* key of the question bank
    exam,       \* status of the exam and key of its paper
    attempts,   \* attempts of each student in order of their number
    sittings    \* open transactions of students

examPeople == <<planned, staffed, supervised, learners, enrolled>>
examVars == <<now, examPeople, bank, exam, attempts, sittings>>

ExamsInit ==
    /\ now = 0
    /\ planned \in BOOLEAN
    /\ staffed = TRUE /\ supervised = TRUE
    /\ learners = Students
    /\ enrolled = Students
    /\ bank = Blank
    /\ exam = [status |-> "none", paper |-> Blank]
    /\ attempts = [s \in Students |-> <<>>]
    /\ sittings = {}

(***************************************************************************)
(* Rows in use.                                                            *)
(***************************************************************************)
ExamFree == \A r \in sittings : r.op # "start"

\* Fault: the row of the attempt is read without a lock.
AttemptUnlocked(s, n) == TRUE

AttemptFree(s, n) ==
    \A r \in sittings : r.student = s /\ r.op # "start" => r.n # n

\* The memberships and enrolments a student's transactions have read are locked.
StudentIdle(s) == \A r \in sittings : r.student # s

Eligible(s) == s \in learners /\ (planned => s \in enrolled)

(***************************************************************************)
(* Question bank and exam.  An institute works on the course it supervises *)
(* under an approved grant, an administrator on Dena's own bank.           *)
(***************************************************************************)
ByInstitute == planned /\ staffed /\ supervised
ByAdministrator == ~planned /\ staffed

SaveQuestion(q, o) ==
    /\ bank' = [bank EXCEPT ![q] = o]
    /\ UNCHANGED <<now, examPeople, exam, attempts, sittings>>

CreateInstituteQuestion(q, o) == ByInstitute /\ bank[q] = Nothing /\ SaveQuestion(q, o)
UpdateInstituteQuestion(q, o) == ByInstitute /\ bank[q] # Nothing /\ SaveQuestion(q, o)
CreateDenaQuestion(q, o) == ByAdministrator /\ bank[q] = Nothing /\ SaveQuestion(q, o)
UpdateDenaQuestion(q, o) == ByAdministrator /\ bank[q] # Nothing /\ SaveQuestion(q, o)

\* The chosen questions are copied with the key of this moment.
SaveQuestions(selected) ==
    /\ exam.status = "none"
    /\ \A q \in selected : bank[q] # Nothing
    /\ exam' = [status |-> "draft",
                paper |-> [q \in Questions |-> IF q \in selected THEN bank[q]
                                               ELSE Nothing]]
    /\ UNCHANGED <<now, examPeople, bank, attempts, sittings>>

CreateInstituteExam(selected) == ByInstitute /\ SaveQuestions(selected)
CreateDenaExam(selected) == ByAdministrator /\ SaveQuestions(selected)

PublishExam ==
    /\ staffed /\ ExamFree
    /\ exam.status = "draft" /\ now < Opens
    /\ exam' = [exam EXCEPT !.status = "published"]
    /\ UNCHANGED <<now, examPeople, bank, attempts, sittings>>

Cancellable ==
    \/ exam.status = "draft"
    \/ exam.status = "published" /\ now < Opens

CancelExam ==
    /\ staffed /\ ExamFree
    /\ Cancellable
    /\ exam' = [exam EXCEPT !.status = "cancelled"]
    /\ UNCHANGED <<now, examPeople, bank, attempts, sittings>>

(***************************************************************************)
(* Attempts.                                                               *)
(***************************************************************************)
\* Fault: an attempt is scored against the bank of the day.
ScoreByBank(answers) ==
    Cardinality({q \in Questions : answers[q] # Nothing /\ answers[q] = bank[q]})

\* Fault: a wrong answer costs a point.
ScoreWithPenalty(answers) ==
    Cardinality({q \in Questions : answers[q] # Nothing /\ answers[q] = exam.paper[q]})
    - Cardinality({q \in Questions : answers[q] # Nothing /\ answers[q] # exam.paper[q]})

\* Every question counts one point.
ScoreExamAnswerRows(answers) ==
    Cardinality({q \in Questions : answers[q] # Nothing
                                   /\ answers[q] = exam.paper[q]})

InProgress(s, n) == n \in 1..Len(attempts[s]) /\ attempts[s][n].status = "in_progress"
Overdue(s, n) == InProgress(s, n) /\ attempts[s][n].deadline <= now

\* Fault: an overdue attempt stays as it is when the next one starts.
LeaveOpen(s, n, status, answers) == attempts[s]

Finalized(s, n, status, answers) ==
    [attempts[s] EXCEPT ![n].status = status,
                        ![n].score = ScoreExamAnswerRows(answers)]

StartStudentExam(s) ==
    /\ exam.status = "published" /\ ExamFree
    /\ Eligible(s)
    /\ sittings' = sittings \cup {[student |-> s, op |-> "start"]}
    /\ UNCHANGED <<now, examPeople, bank, exam, attempts>>

NewAttempt ==
    [status |-> "in_progress", score |-> NoScore, answers |-> Blank,
     deadline |-> IF now + Duration < Closes THEN now + Duration ELSE Closes]

MayBegin(s) == Opens <= now /\ now < Closes /\ Len(attempts[s]) < Limit

\* All attempts of the student are locked here.  A latest attempt that is still
\* running is resumed, an overdue one is closed, then a new one may begin.
FinishStart(r) ==
    LET s == r.student
        n == Len(attempts[s])
        kept == IF Overdue(s, n)
                THEN Finalized(s, n, "expired", attempts[s][n].answers)
                ELSE attempts[s]
    IN
    /\ r.op = "start"
    /\ \A m \in 1..n : AttemptFree(s, m)
    /\ sittings' = sittings \ {r}
    /\ attempts' = [attempts EXCEPT ![s] =
           IF MayBegin(s) /\ (InProgress(s, n) => Overdue(s, n))
           THEN Append(kept, NewAttempt) ELSE kept]
    /\ UNCHANGED <<now, examPeople, bank, exam>>

OpenClose(s, n, status) ==
    sittings' = sittings \cup {[student |-> s, op |-> "close", n |-> n,
                                status |-> status,
                                read |-> attempts[s][n].answers]}

GetStudentExamAttempt(s, n) ==
    /\ Eligible(s) /\ AttemptFree(s, n)
    /\ Overdue(s, n)
    /\ OpenClose(s, n, "expired")
    /\ UNCHANGED <<now, examPeople, bank, exam, attempts>>

SaveStudentExamAnswers(s, n, given) ==
    /\ Eligible(s) /\ AttemptFree(s, n)
    /\ InProgress(s, n)
    /\ IF Overdue(s, n) THEN OpenClose(s, n, "expired")
       ELSE /\ \A q \in Questions : given[q] # Nothing => exam.paper[q] # Nothing
            /\ sittings' = sittings \cup {[student |-> s, op |-> "save", n |-> n,
                                           given |-> given]}
    /\ UNCHANGED <<now, examPeople, bank, exam, attempts>>

SubmitStudentExamAttempt(s, n) ==
    /\ Eligible(s) /\ AttemptFree(s, n)
    /\ InProgress(s, n)
    /\ OpenClose(s, n, IF Overdue(s, n) THEN "expired" ELSE "submitted")
    /\ UNCHANGED <<now, examPeople, bank, exam, attempts>>

\* Only the questions of the request are written.
WriteAnswers(r) ==
    /\ r.op = "save"
    /\ attempts' = [attempts EXCEPT ![r.student][r.n].answers =
           [q \in Questions |-> IF r.given[q] # Nothing THEN r.given[q] ELSE @[q]]]
    /\ sittings' = sittings \ {r}
    /\ UNCHANGED <<now, examPeople, bank, exam>>

FinalizeStudentExamAttempt(r) ==
    /\ r.op = "close"
    /\ attempts' = [attempts EXCEPT ![r.student] =
           IF InProgress(r.student, r.n)
           THEN Finalized(r.student, r.n, r.status, r.read) ELSE @]
    /\ sittings' = sittings \ {r}
    /\ UNCHANGED <<now, examPeople, bank, exam>>

\* A refusal after the locks were taken, or a lost connection.
AbandonSitting(r) ==
    /\ sittings' = sittings \ {r}
    /\ UNCHANGED <<now, examPeople, bank, exam, attempts>>

(***************************************************************************)
(* Time and people.                                                        *)
(***************************************************************************)
ExamClockTicks ==
    /\ now < Horizon
    /\ now' = now + 1
    /\ UNCHANGED <<examPeople, bank, exam, attempts, sittings>>

ExamStaffChanges ==
    /\ \/ staffed' = ~staffed /\ UNCHANGED supervised
       \/ planned /\ supervised' = ~supervised /\ UNCHANGED staffed
    /\ UNCHANGED <<now, planned, learners, enrolled, bank, exam, attempts, sittings>>

LearnerChanges(s) ==
    /\ StudentIdle(s)
    /\ \/ /\ learners' = IF s \in learners THEN learners \ {s} ELSE learners \cup {s}
          /\ UNCHANGED enrolled
       \/ /\ planned /\ s \in enrolled
          /\ enrolled' = enrolled \ {s}
          /\ UNCHANGED learners
    /\ UNCHANGED <<now, planned, staffed, supervised, bank, exam, attempts, sittings>>

ExamsNext ==
    \/ \E q \in Questions, o \in Options :
          \/ CreateInstituteQuestion(q, o) \/ UpdateInstituteQuestion(q, o)
          \/ CreateDenaQuestion(q, o) \/ UpdateDenaQuestion(q, o)
    \/ \E selected \in (SUBSET Questions) \ {{}} :
          CreateInstituteExam(selected) \/ CreateDenaExam(selected)
    \/ PublishExam \/ CancelExam
    \/ \E s \in Students :
          \/ StartStudentExam(s)
          \/ \E n \in 1..Len(attempts[s]) :
                \/ GetStudentExamAttempt(s, n) \/ SubmitStudentExamAttempt(s, n)
                \/ \E given \in Sheet \ {Blank} : SaveStudentExamAnswers(s, n, given)
    \/ \E r \in sittings :
          \/ FinishStart(r) \/ WriteAnswers(r) \/ FinalizeStudentExamAttempt(r)
          \/ AbandonSitting(r)
    \/ ExamClockTicks \/ ExamStaffChanges
    \/ \E s \in Students : LearnerChanges(s)

ExamsSpec == ExamsInit /\ [][ExamsNext]_examVars
------------------------------------------------------------------------------
(***************************************************************************)
(* Properties.                                                             *)
(***************************************************************************)
\* Every row is of its table, and only a closed attempt has a score.
ExamsTypeOK ==
    /\ now \in Nat
    /\ planned \in BOOLEAN
    /\ staffed \in BOOLEAN /\ supervised \in BOOLEAN
    /\ learners \subseteq Students
    /\ enrolled \subseteq Students
    /\ bank \in Sheet
    /\ exam \in [status : {"none", "draft", "published", "cancelled"}, paper : Sheet]
    /\ attempts \in [Students -> Seq(Attempt)]
    /\ sittings \subseteq Sitting

\* The result of an attempt is the number of its stored answers that are right by
\* the paper the exam was created with, whatever the bank says now and whichever
\* request closed it.
ScoreMatchesAnswers ==
    \A s \in Students : \A n \in 1..Len(attempts[s]) :
        LET a == attempts[s][n] IN
        a.score = IF a.status = "in_progress" THEN NoScore
                  ELSE Cardinality({q \in Questions :
                           a.answers[q] # Nothing /\ a.answers[q] = exam.paper[q]})

\* A student has no more attempts than allowed, each inside the schedule, only the
\* last may be running, and an exam that is cancelled was never sat.
AttemptsInOrder ==
    \A s \in Students :
        /\ exam.status = "cancelled" => attempts[s] = <<>>
        /\ Len(attempts[s]) <= Limit
        /\ \A n \in 1..Len(attempts[s]) :
              /\ attempts[s][n].status = "in_progress" => n = Len(attempts[s])
              /\ Opens < attempts[s][n].deadline
              /\ attempts[s][n].deadline <= Closes

\* Both of what an exam owes its students: attempts by its rules, results by its
\* paper, whoever starts, answers, submits or times out at the same time.
AttemptsAreSound == ScoreMatchesAnswers /\ AttemptsInOrder

\* A closed attempt, answers and result, never changes again.
ClosedIsFrozen ==
    [][\A s \in Students : \A n \in 1..Len(attempts[s]) :
          attempts[s][n].status # "in_progress" =>
              attempts'[s][n] = attempts[s][n]]_examVars
================================================================================
