--------------------------- MODULE AssessmentProofs ----------------------------
(***************************************************************************)
(* Proofs about what students are examined and exercised in: Exams and     *)
(* Learning, for any students, questions, schedule, requests and tries.    *)
(***************************************************************************)
EXTENDS Exams, Learning, FiniteSetTheorems, SequenceTheorems, TLAPS

--------------------------------------------------------------------------------
(***************************************************************************)
(* Exams, for any students, questions, options and schedule.               *)
(***************************************************************************)
\* The right answers of a sheet by a paper.
RightAnswers(paper, answers) ==
    Cardinality({q \in Questions : answers[q] # Nothing /\ answers[q] = paper[q]})

\* An attempt lies in the schedule, and has its result exactly once it is closed.
Sound(a) ==
    /\ Opens < a.deadline /\ a.deadline <= Closes
    /\ a.score = IF a.status = "in_progress" THEN NoScore ELSE RightAnswers(exam.paper, a.answers)

\* Attempts exist only of a published exam that has opened, and only the last runs.
AttemptsInv ==
    \A s \in Students :
        /\ attempts[s] # <<>> => exam.status = "published" /\ Opens <= now
        /\ Len(attempts[s]) <= Limit
        /\ \A n \in 1..Len(attempts[s]) :
              /\ Sound(attempts[s][n])
              /\ attempts[s][n].status = "in_progress" => n = Len(attempts[s])

\* A start has the exam published; a transaction that saves or closes has a running
\* attempt to itself, and knows its answers.
SittingsInv ==
    \A r \in sittings :
        /\ r.op = "start" => exam.status = "published"
        /\ r.op \in {"save", "close"} =>
              /\ InProgress(r.student, r.n)
              /\ \A u \in sittings :
                    u.op # "start" /\ u.student = r.student /\ u.n = r.n => u = r
        /\ r.op = "close" => r.read = attempts[r.student][r.n].answers

\* A step leaves closed attempts alone.
Frozen ==
    \A s \in Students : \A n \in 1..Len(attempts[s]) :
        attempts[s][n].status # "in_progress" => attempts'[s][n] = attempts[s][n]

ExamsIInv == ExamsTypeOK /\ AttemptsInv /\ SittingsInv

LEMMA SittingTypes ==
    ASSUME ExamsIInv, NEW r \in sittings
    PROVE  /\ r.student \in Students /\ r.op \in {"start", "save", "close"}
           /\ r.op \in {"save", "close"} => r.n \in Nat \ {0}
           /\ r.op = "save" => r.given \in Sheet
           /\ r.op = "close" => r.status \in {"submitted", "expired"} /\ r.read \in Sheet
BY DEF ExamsIInv, ExamsTypeOK, Sitting

LEMMA ScoreType ==
    ASSUME NEW answers
    PROVE  /\ ScoreExamAnswerRows(answers) = RightAnswers(exam.paper, answers)
           /\ ScoreExamAnswerRows(answers) \in Nat
<1> DEFINE right == {q \in Questions : answers[q] # Nothing /\ answers[q] = exam.paper[q]}
<1>1. IsFiniteSet(right)
    BY OptionsAssumption, FS_Subset
<1>2. Cardinality(right) \in Nat
    BY <1>1, FS_CardinalityType
<1> QED
    BY <1>2 DEF ScoreExamAnswerRows, RightAnswers

LEMMA ExamsInitEstablishes == ExamsInit => ExamsIInv
<1> SUFFICES ASSUME ExamsInit PROVE ExamsIInv
    OBVIOUS
<1>1. Blank \in Sheet
    BY DEF Blank, Sheet
<1>2. ExamsTypeOK
    BY <1>1 DEF ExamsInit, ExamsTypeOK
<1>3. \A s \in Students : attempts[s] = <<>> /\ Len(attempts[s]) = 0
    BY DEF ExamsInit
<1>4. AttemptsInv /\ SittingsInv
    BY <1>3, ScheduleAssumption DEF ExamsInit, AttemptsInv, SittingsInv
<1> QED
    BY <1>2, <1>4 DEF ExamsIInv

(***************************************************************************)
(* Attempts.                                                               *)
(***************************************************************************)
LEMMA AttemptTypes ==
    ASSUME ExamsIInv, NEW s \in Students, NEW n \in 1..Len(attempts[s])
    PROVE  attempts[s] \in Seq(Attempt) /\ n \in Nat /\ attempts[s][n] \in Attempt
BY DEF ExamsIInv, ExamsTypeOK

\* Closing an attempt with its own answers.
LEMMA Finalizing ==
    ASSUME ExamsIInv, NEW s \in Students, NEW n \in Nat, InProgress(s, n),
           NEW status \in {"submitted", "expired"}
    PROVE  LET a == [attempts[s][n] EXCEPT !.status = status,
                         !.score = ScoreExamAnswerRows(attempts[s][n].answers)] IN
           /\ Finalized(s, n, status, attempts[s][n].answers) = [attempts[s] EXCEPT ![n] = a]
           /\ a \in Attempt /\ Sound(a) /\ a.status # "in_progress"
<1> DEFINE b == attempts[s][n]
           a == [b EXCEPT !.status = status, !.score = ScoreExamAnswerRows(b.answers)]
<1>1. n \in 1..Len(attempts[s]) /\ b \in Attempt /\ attempts[s] \in Seq(Attempt)
    BY AttemptTypes DEF InProgress
<1>2. ScoreExamAnswerRows(b.answers) \in Nat
          /\ ScoreExamAnswerRows(b.answers) = RightAnswers(exam.paper, b.answers)
    BY ScoreType
<1>3. /\ a \in Attempt /\ a.status = status /\ a.answers = b.answers
      /\ a.deadline = b.deadline /\ a.score = RightAnswers(exam.paper, b.answers)
    BY <1>1, <1>2 DEF Attempt
<1>4. Sound(b)
    BY <1>1 DEF ExamsIInv, AttemptsInv
<1>5. Sound(a)
    BY <1>3, <1>4 DEF Sound
<1>6. Finalized(s, n, status, b.answers) = [attempts[s] EXCEPT ![n] = a]
    BY <1>1 DEF Finalized, Attempt
<1> QED
    BY <1>3, <1>5, <1>6

\* A running attempt is rewritten while its transaction has it to itself.
LEMMA RewriteAttempt ==
    ASSUME ExamsIInv, NEW r \in sittings, r.op \in {"save", "close"},
           NEW a \in Attempt, Sound(a),
           attempts' = [attempts EXCEPT ![r.student] = [attempts[r.student] EXCEPT ![r.n] = a]],
           sittings' = sittings \ {r}, UNCHANGED <<now, examPeople, bank, exam>>
    PROVE  /\ ExamsIInv'
           /\ Frozen
<1> DEFINE s == r.student
           n == r.n
           seq == [attempts[s] EXCEPT ![n] = a]
<1>1. s \in Students /\ n \in Nat /\ InProgress(s, n)
    BY SittingTypes DEF ExamsIInv, SittingsInv
<1>2. n \in 1..Len(attempts[s]) /\ attempts[s] \in Seq(Attempt)
    BY <1>1, AttemptTypes DEF InProgress
<1>3. /\ seq \in Seq(Attempt) /\ Len(seq) = Len(attempts[s])
      /\ \A m \in 1..Len(seq) : seq[m] = IF m = n THEN a ELSE attempts[s][m]
    BY <1>2, ExceptSeq
<1>4. attempts[s] # <<>> /\ seq # <<>>
    BY <1>2, <1>3
<1>5. attempts' = [attempts EXCEPT ![s] = seq]
    OBVIOUS
<1> HIDE DEF seq
<1>6. \A u \in Students : attempts'[u] = IF u = s THEN seq ELSE attempts[u]
    BY <1>5 DEF ExamsIInv, ExamsTypeOK
<1>7. ExamsTypeOK'
    BY <1>1, <1>3, <1>5 DEF ExamsIInv, ExamsTypeOK, examPeople
<1>8. n = Len(attempts[s])
    BY <1>1 DEF InProgress, ExamsIInv, AttemptsInv
<1>9. AttemptsInv'
    <2> SUFFICES ASSUME NEW u \in Students
                 PROVE  /\ attempts'[u] # <<>> => exam.status = "published" /\ Opens <= now
                        /\ Len(attempts'[u]) <= Limit
                        /\ \A m \in 1..Len(attempts'[u]) :
                              /\ Sound(attempts'[u][m])
                              /\ attempts'[u][m].status = "in_progress" => m = Len(attempts'[u])
        BY DEF AttemptsInv, Sound
    <2>1. CASE u = s
        BY <1>3, <1>4, <1>6, <1>8, <2>1 DEF ExamsIInv, AttemptsInv
    <2>2. CASE u # s
        BY <1>6, <2>2 DEF ExamsIInv, AttemptsInv
    <2> QED
        BY <2>1, <2>2
<1>10. SittingsInv'
    <2> SUFFICES ASSUME NEW v \in sittings \ {r}
                 PROVE  /\ v.op = "start" => exam.status = "published"
                        /\ v.op \in {"save", "close"} =>
                              /\ InProgress(v.student, v.n)'
                              /\ \A u \in sittings :
                                    u.op # "start" /\ u.student = v.student /\ u.n = v.n => u = v
                        /\ v.op = "close" => v.read = attempts'[v.student][v.n].answers
        BY DEF SittingsInv
    <2>1. v.op = "start" => exam.status = "published"
        BY DEF ExamsIInv, SittingsInv
    <2>2. ASSUME v.op \in {"save", "close"}
          PROVE  /\ v.student # s \/ v.n # n
                 /\ v.student \in Students /\ v.n \in 1..Len(attempts[v.student])
        BY <2>2, SittingTypes DEF ExamsIInv, SittingsInv, InProgress
    <2>3. ASSUME v.op \in {"save", "close"}
          PROVE  /\ Len(attempts'[v.student]) = Len(attempts[v.student])
                 /\ attempts'[v.student][v.n] = attempts[v.student][v.n]
        BY <1>3, <1>6, <2>2, <2>3
    <2> QED
        BY <2>1, <2>3 DEF ExamsIInv, SittingsInv, InProgress
<1>11. Frozen
    BY <1>1, <1>3, <1>6 DEF InProgress, Frozen
<1> QED
    BY <1>7, <1>9, <1>10, <1>11 DEF ExamsIInv

LEMMA WriteKeeps ==
    ASSUME ExamsIInv, NEW r \in sittings, WriteAnswers(r)
    PROVE  ExamsIInv' /\ Frozen
<1> DEFINE b == attempts[r.student][r.n]
           answers == [q \in Questions |-> IF r.given[q] # Nothing THEN r.given[q]
                                           ELSE b.answers[q]]
           a == [b EXCEPT !.answers = answers]
<1>1. r.op = "save" /\ r.given \in Sheet /\ r.student \in Students /\ r.n \in Nat \ {0}
    BY SittingTypes DEF WriteAnswers
<1>2. r.n \in 1..Len(attempts[r.student]) /\ b.status = "in_progress"
    BY <1>1 DEF ExamsIInv, SittingsInv, InProgress
<1>3. b \in Attempt /\ attempts[r.student] \in Seq(Attempt)
    BY <1>1, <1>2, AttemptTypes
<1>4. answers \in Sheet
    BY <1>1, <1>3 DEF Sheet, Attempt
<1>5. /\ a \in Attempt /\ a.status = b.status /\ a.deadline = b.deadline
      /\ a.score = b.score
    BY <1>3, <1>4 DEF Attempt
<1>6. Sound(a)
    BY <1>1, <1>2, <1>5 DEF ExamsIInv, AttemptsInv, Sound
<1>7. attempts' = [attempts EXCEPT ![r.student] = [attempts[r.student] EXCEPT ![r.n] = a]]
    BY <1>1, <1>2, <1>3 DEF WriteAnswers, ExamsIInv, ExamsTypeOK, Attempt
<1>8. sittings' = sittings \ {r} /\ UNCHANGED <<now, examPeople, bank, exam>>
    BY DEF WriteAnswers
<1> HIDE DEF a
<1> QED
    BY <1>1, <1>5, <1>6, <1>7, <1>8, RewriteAttempt

LEMMA CloseKeeps ==
    ASSUME ExamsIInv, NEW r \in sittings, FinalizeStudentExamAttempt(r)
    PROVE  ExamsIInv' /\ Frozen
<1> DEFINE b == attempts[r.student][r.n]
           a == [b EXCEPT !.status = r.status, !.score = ScoreExamAnswerRows(b.answers)]
<1>1. /\ r.op = "close" /\ r.status \in {"submitted", "expired"}
      /\ r.student \in Students /\ r.n \in Nat
    BY SittingTypes DEF FinalizeStudentExamAttempt
<1>2. InProgress(r.student, r.n) /\ r.read = b.answers
    BY <1>1 DEF ExamsIInv, SittingsInv
<1>3. /\ Finalized(r.student, r.n, r.status, b.answers)
             = [attempts[r.student] EXCEPT ![r.n] = a]
      /\ a \in Attempt /\ Sound(a)
    BY <1>1, <1>2, Finalizing
<1> HIDE DEF a
<1>4. attempts' = [attempts EXCEPT ![r.student] = [attempts[r.student] EXCEPT ![r.n] = a]]
    BY <1>2, <1>3 DEF FinalizeStudentExamAttempt
<1>5. sittings' = sittings \ {r} /\ UNCHANGED <<now, examPeople, bank, exam>>
    BY DEF FinalizeStudentExamAttempt
<1> QED
    BY <1>1, <1>3, <1>4, <1>5, RewriteAttempt

\* A start closes the last attempt if it is overdue, and may append another.
LEMMA StartKeeps ==
    ASSUME ExamsIInv, NEW r \in sittings, FinishStart(r)
    PROVE  ExamsIInv' /\ Frozen
<1> DEFINE s == r.student
           n == Len(attempts[s])
           kept == IF Overdue(s, n) THEN Finalized(s, n, "expired", attempts[s][n].answers)
                   ELSE attempts[s]
           begins == MayBegin(s) /\ (InProgress(s, n) => Overdue(s, n))
           seq == IF begins THEN Append(kept, NewAttempt) ELSE kept
<1>1. /\ r.op = "start" /\ s \in Students /\ exam.status = "published"
      /\ attempts[s] \in Seq(Attempt) /\ n \in Nat
    BY SittingTypes DEF FinishStart, ExamsIInv, SittingsInv, ExamsTypeOK
<1>2. /\ \A m \in 1..n : AttemptFree(s, m)
      /\ attempts' = [attempts EXCEPT ![s] = seq]
      /\ sittings' = sittings \ {r} /\ UNCHANGED <<now, examPeople, bank, exam>>
    BY DEF FinishStart
<1>3. /\ kept \in Seq(Attempt) /\ Len(kept) = n
      /\ \A m \in 1..n :
            /\ Sound(kept[m])
            /\ attempts[s][m].status # "in_progress" => kept[m] = attempts[s][m]
            /\ kept[m].status = "in_progress" => m = n /\ InProgress(s, n) /\ ~Overdue(s, n)
    <2>1. CASE Overdue(s, n)
        <3> DEFINE a == [attempts[s][n] EXCEPT !.status = "expired",
                             !.score = ScoreExamAnswerRows(attempts[s][n].answers)]
        <3>1. InProgress(s, n)
            BY <2>1 DEF Overdue
        <3>2. kept = [attempts[s] EXCEPT ![n] = a] /\ a \in Attempt /\ Sound(a)
                  /\ a.status # "in_progress"
            BY <1>1, <2>1, <3>1, Finalizing
        <3> HIDE DEF a, kept
        <3>3. n \in 1..n /\ attempts[s][n].status = "in_progress"
            BY <3>1 DEF InProgress
        <3>4. /\ kept \in Seq(Attempt) /\ Len(kept) = n
              /\ \A m \in 1..n : kept[m] = IF m = n THEN a ELSE attempts[s][m]
            BY <1>1, <3>2, <3>3, ExceptSeq
        <3> QED
            BY <1>1, <3>2, <3>3, <3>4 DEF ExamsIInv, AttemptsInv
    <2>2. CASE ~Overdue(s, n)
        BY <1>1, <2>2 DEF ExamsIInv, AttemptsInv, InProgress
    <2> QED
        BY <2>1, <2>2
<1>4. begins => n < Limit /\ Opens <= now /\ now < Closes
    BY DEF MayBegin
<1>5. begins => NewAttempt \in Attempt /\ Sound(NewAttempt)
                /\ NewAttempt.status = "in_progress"
    BY <1>4, ScheduleAssumption DEF NewAttempt, Attempt, Sound, Blank, Sheet, ExamsIInv,
                                    ExamsTypeOK
<1> HIDE DEF kept, begins
<1>6. /\ seq \in Seq(Attempt)
      /\ Len(seq) = IF begins THEN n + 1 ELSE n
      /\ \A m \in 1..n : seq[m] = kept[m]
      /\ begins => seq[n + 1] = NewAttempt
    <2>1. CASE begins
        BY <1>1, <1>3, <1>5, <2>1, AppendProperties
    <2>2. CASE ~begins
        BY <1>1, <1>3, <2>2
    <2> QED
        BY <2>1, <2>2
<1> HIDE DEF seq
<1>7. \A u \in Students : attempts'[u] = IF u = s THEN seq ELSE attempts[u]
    BY <1>1, <1>2 DEF ExamsIInv, ExamsTypeOK
<1>8. ExamsTypeOK'
    BY <1>1, <1>2, <1>6 DEF ExamsIInv, ExamsTypeOK, examPeople
<1>9. AttemptsInv'
    <2> SUFFICES ASSUME NEW u \in Students
                 PROVE  /\ attempts'[u] # <<>> => exam.status = "published" /\ Opens <= now
                        /\ Len(attempts'[u]) <= Limit
                        /\ \A m \in 1..Len(attempts'[u]) :
                              /\ Sound(attempts'[u][m])
                              /\ attempts'[u][m].status = "in_progress" => m = Len(attempts'[u])
        BY <1>2 DEF AttemptsInv, Sound
    <2>1. CASE u # s
        BY <1>7, <2>1 DEF ExamsIInv, AttemptsInv
    <2>2. CASE u = s
        <3>1. attempts'[u] = seq
            BY <1>7, <2>2
        <3>2. seq # <<>> => Opens <= now
            <4>1. CASE begins
                BY <1>4, <4>1
            <4>2. CASE ~begins
                <5>1. seq # <<>> => attempts[s] # <<>>
                    BY <1>1, <1>6, <4>2
                <5> QED
                    BY <1>1, <5>1 DEF ExamsIInv, AttemptsInv
            <4> QED
                BY <4>1, <4>2
        <3>3. Len(seq) <= Limit
            BY <1>1, <1>4, <1>6, ScheduleAssumption DEF ExamsIInv, AttemptsInv
        <3>4. ASSUME NEW m \in 1..Len(seq)
              PROVE  Sound(seq[m]) /\ (seq[m].status = "in_progress" => m = Len(seq))
            <4>1. CASE m \in 1..n
                <5>1. seq[m] = kept[m] /\ Sound(kept[m])
                    BY <1>3, <1>6, <4>1
                <5>2. kept[m].status = "in_progress" => m = n /\ ~begins
                    BY <1>3, <4>1 DEF begins
                <5> QED
                    BY <1>6, <5>1, <5>2
            <4>2. CASE m \notin 1..n
                <5>1. begins /\ m = n + 1
                    BY <1>1, <1>6, <3>4, <4>2
                <5> QED
                    BY <1>5, <1>6, <5>1
            <4> QED
                BY <4>1, <4>2
        <3> QED
            BY <1>1, <3>1, <3>2, <3>3, <3>4
    <2> QED
        BY <2>1, <2>2
<1>10. SittingsInv'
    <2> SUFFICES ASSUME NEW v \in sittings \ {r}
                 PROVE  /\ v.op = "start" => exam.status = "published"
                        /\ v.op \in {"save", "close"} =>
                              /\ InProgress(v.student, v.n)'
                              /\ \A u \in sittings :
                                    u.op # "start" /\ u.student = v.student /\ u.n = v.n => u = v
                        /\ v.op = "close" => v.read = attempts'[v.student][v.n].answers
        BY <1>2 DEF SittingsInv
    <2>1. ASSUME v.op \in {"save", "close"}
          PROVE  v.student \in Students \ {s}
        BY <1>2, <2>1, SittingTypes DEF AttemptFree, ExamsIInv, SittingsInv, InProgress
    <2>2. ASSUME v.op \in {"save", "close"}
          PROVE  attempts'[v.student] = attempts[v.student]
        BY <1>7, <2>1, <2>2
    <2> QED
        BY <1>1, <2>2 DEF ExamsIInv, SittingsInv, InProgress
<1>11. Frozen
    BY <1>3, <1>6, <1>7 DEF Frozen
<1> QED
    BY <1>8, <1>9, <1>10, <1>11 DEF ExamsIInv

(***************************************************************************)
(* Transactions begin and end.                                             *)
(***************************************************************************)
LEMMA OpenKeeps ==
    ASSUME ExamsIInv, NEW r \in Sitting, sittings' = sittings \cup {r},
           UNCHANGED <<now, examPeople, bank, exam, attempts>>,
           r.op = "start" => exam.status = "published",
           r.op \in {"save", "close"} => InProgress(r.student, r.n)
                                         /\ AttemptFree(r.student, r.n),
           r.op = "close" => r.read = attempts[r.student][r.n].answers
    PROVE  ExamsIInv' /\ Frozen
<1>1. ExamsTypeOK'
    BY DEF ExamsIInv, ExamsTypeOK, examPeople
<1>2. AttemptsInv' /\ Frozen
    BY DEF ExamsIInv, AttemptsInv, Sound, Frozen
<1>3. SittingsInv'
    <2>1. r.op \in {"start", "save", "close"}
        BY DEF Sitting
    <2>2. \A v \in sittings : v.op \in {"start", "save", "close"}
        BY SittingTypes
    <2> QED
        BY <2>1, <2>2 DEF ExamsIInv, SittingsInv, InProgress, AttemptFree
<1> QED
    BY <1>1, <1>2, <1>3 DEF ExamsIInv

LEMMA SittingsKeep ==
    ASSUME ExamsIInv, NEW s \in Students, NEW n \in 1..Len(attempts[s]), NEW given \in Sheet,
           \/ StartStudentExam(s) \/ GetStudentExamAttempt(s, n)
           \/ SaveStudentExamAnswers(s, n, given) \/ SubmitStudentExamAttempt(s, n)
    PROVE  ExamsIInv' /\ Frozen
<1>0. n \in Nat \ {0} /\ attempts[s][n].answers \in Sheet
    BY AttemptTypes DEF Attempt
<1>1. ASSUME NEW status \in {"submitted", "expired"}, OpenClose(s, n, status),
             InProgress(s, n), AttemptFree(s, n),
             UNCHANGED <<now, examPeople, bank, exam, attempts>>
      PROVE  ExamsIInv' /\ Frozen
    <2> DEFINE r == [student |-> s, op |-> "close", n |-> n, status |-> status,
                     read |-> attempts[s][n].answers]
    <2>1. /\ r \in Sitting /\ r.op = "close" /\ r.student = s /\ r.n = n
          /\ r.read = attempts[s][n].answers
        BY <1>0 DEF Sitting
    <2>2. sittings' = sittings \cup {r}
        BY <1>1 DEF OpenClose
    <2> HIDE DEF r
    <2> QED
        BY <1>1, <2>1, <2>2, OpenKeeps
<1>2. CASE StartStudentExam(s)
    <2> DEFINE r == [student |-> s, op |-> "start"]
    <2>1. r \in Sitting /\ r.op = "start"
        BY DEF Sitting
    <2>2. sittings' = sittings \cup {r} /\ exam.status = "published"
              /\ UNCHANGED <<now, examPeople, bank, exam, attempts>>
        BY <1>2 DEF StartStudentExam
    <2> HIDE DEF r
    <2> QED
        BY <2>1, <2>2, OpenKeeps
<1>3. CASE GetStudentExamAttempt(s, n)
    BY <1>1, <1>3 DEF GetStudentExamAttempt, Overdue
<1>4. CASE SaveStudentExamAnswers(s, n, given)
    <2>1. CASE Overdue(s, n)
        BY <1>1, <1>4, <2>1 DEF SaveStudentExamAnswers
    <2>2. CASE ~Overdue(s, n)
        <3> DEFINE r == [student |-> s, op |-> "save", n |-> n, given |-> given]
        <3>1. r \in Sitting /\ r.op = "save" /\ r.student = s /\ r.n = n
            BY <1>0 DEF Sitting
        <3>2. /\ sittings' = sittings \cup {r} /\ InProgress(s, n) /\ AttemptFree(s, n)
              /\ UNCHANGED <<now, examPeople, bank, exam, attempts>>
            BY <1>4, <2>2 DEF SaveStudentExamAnswers
        <3> HIDE DEF r
        <3> QED
            BY <3>1, <3>2, OpenKeeps
    <2> QED
        BY <2>1, <2>2
<1>5. CASE SubmitStudentExamAttempt(s, n)
    BY <1>1, <1>5 DEF SubmitStudentExamAttempt
<1> QED
    BY <1>2, <1>3, <1>4, <1>5

\* A student who starts need not have an attempt yet.
LEMMA FirstStartKeeps ==
    ASSUME ExamsIInv, NEW s \in Students, StartStudentExam(s)
    PROVE  ExamsIInv' /\ Frozen
<1> DEFINE r == [student |-> s, op |-> "start"]
<1>1. r \in Sitting /\ r.op = "start"
    BY DEF Sitting
<1>2. sittings' = sittings \cup {r} /\ exam.status = "published"
          /\ UNCHANGED <<now, examPeople, bank, exam, attempts>>
    BY DEF StartStudentExam
<1> HIDE DEF r
<1> QED
    BY <1>1, <1>2, OpenKeeps

LEMMA AbandonSittingKeeps ==
    ASSUME ExamsIInv, NEW r \in sittings, AbandonSitting(r)
    PROVE  ExamsIInv' /\ Frozen
<1>1. sittings' = sittings \ {r} /\ UNCHANGED <<now, examPeople, bank, exam, attempts>>
    BY DEF AbandonSitting
<1>2. ExamsTypeOK'
    BY <1>1 DEF ExamsIInv, ExamsTypeOK, examPeople
<1>3. AttemptsInv' /\ SittingsInv' /\ Frozen
    BY <1>1 DEF ExamsIInv, AttemptsInv, SittingsInv, Sound, InProgress, Frozen
<1> QED
    BY <1>2, <1>3 DEF ExamsIInv

(***************************************************************************)
(* The exam, the bank, time and people.                                    *)
(***************************************************************************)
\* An exam changes only while nobody sits it.
LEMMA ExamKeeps ==
    ASSUME ExamsIInv,
           exam' \in [status : {"none", "draft", "published", "cancelled"}, paper : Sheet],
           exam.status # "published" \/ now < Opens, ExamFree,
           UNCHANGED <<now, examPeople, bank, attempts, sittings>>
    PROVE  ExamsIInv' /\ Frozen
<1>1. now \in Nat /\ Opens \in Nat
    BY ScheduleAssumption DEF ExamsIInv, ExamsTypeOK
<1>2. \A s \in Students : attempts[s] = <<>> /\ Len(attempts[s]) = 0
    BY <1>1 DEF ExamsIInv, AttemptsInv
<1>3. sittings = {}
    BY <1>2, SittingTypes DEF ExamFree, ExamsIInv, SittingsInv, InProgress
<1>4. ExamsTypeOK'
    BY DEF ExamsIInv, ExamsTypeOK, examPeople
<1>5. AttemptsInv' /\ Frozen
    BY <1>2, ScheduleAssumption DEF AttemptsInv, Frozen
<1>6. SittingsInv'
    BY <1>3 DEF SittingsInv
<1> QED
    BY <1>4, <1>5, <1>6 DEF ExamsIInv

LEMMA StaffKeeps ==
    ASSUME ExamsIInv,
           \/ \E selected \in (SUBSET Questions) \ {{}} :
                 CreateInstituteExam(selected) \/ CreateDenaExam(selected)
           \/ PublishExam \/ CancelExam
    PROVE  ExamsIInv' /\ Frozen
<1>1. exam \in [status : {"none", "draft", "published", "cancelled"}, paper : Sheet]
          /\ bank \in Sheet
    BY DEF ExamsIInv, ExamsTypeOK
<1>2. ASSUME NEW selected \in SUBSET Questions, SaveQuestions(selected)
      PROVE  ExamsIInv' /\ Frozen
    <2>1. /\ exam.status = "none" /\ UNCHANGED <<now, examPeople, bank, attempts, sittings>>
          /\ exam' = [status |-> "draft",
                      paper |-> [q \in Questions |-> IF q \in selected THEN bank[q]
                                                     ELSE Nothing]]
        BY <1>2 DEF SaveQuestions
    <2>2. exam' \in [status : {"none", "draft", "published", "cancelled"}, paper : Sheet]
        BY <1>1, <2>1 DEF Sheet
    <2>3. ExamFree
        BY <2>1 DEF ExamsIInv, SittingsInv, ExamFree
    <2> QED
        BY <2>1, <2>2, <2>3, ExamKeeps
<1>3. CASE PublishExam
    <2>1. exam' \in [status : {"none", "draft", "published", "cancelled"}, paper : Sheet]
        BY <1>1, <1>3 DEF PublishExam
    <2> QED
        BY <1>3, <2>1, ExamKeeps DEF PublishExam
<1>4. CASE CancelExam
    <2>1. exam' \in [status : {"none", "draft", "published", "cancelled"}, paper : Sheet]
        BY <1>1, <1>4 DEF CancelExam
    <2> QED
        BY <1>4, <2>1, ExamKeeps DEF CancelExam, Cancellable
<1> QED
    BY <1>2, <1>3, <1>4 DEF CreateInstituteExam, CreateDenaExam

LEMMA ExamSurroundingsKeep ==
    ASSUME ExamsIInv, UNCHANGED <<exam, attempts, sittings>>,
           now' \in Nat, now <= now', planned' \in BOOLEAN,
           staffed' \in BOOLEAN, supervised' \in BOOLEAN,
           learners' \subseteq Students, enrolled' \subseteq Students, bank' \in Sheet
    PROVE  ExamsIInv' /\ Frozen
<1>1. ExamsTypeOK'
    BY DEF ExamsIInv, ExamsTypeOK
<1>2. now \in Nat /\ Opens \in Nat
    BY ScheduleAssumption DEF ExamsIInv, ExamsTypeOK
<1>3. AttemptsInv' /\ Frozen
    BY <1>2 DEF ExamsIInv, AttemptsInv, Sound, Frozen
<1>4. SittingsInv'
    BY DEF ExamsIInv, SittingsInv, InProgress
<1> QED
    BY <1>1, <1>3, <1>4 DEF ExamsIInv

LEMMA BankKeeps ==
    ASSUME ExamsIInv, NEW q \in Questions, NEW o \in Options, SaveQuestion(q, o)
    PROVE  ExamsIInv' /\ Frozen
<1>1. bank' \in Sheet
    BY DEF SaveQuestion, ExamsIInv, ExamsTypeOK, Sheet
<1>2. UNCHANGED <<now, examPeople, exam, attempts, sittings>>
    BY DEF SaveQuestion
<1> QED
    BY <1>1, <1>2, ExamSurroundingsKeep DEF ExamsIInv, ExamsTypeOK, examPeople

LEMMA ClockAndPeopleKeep ==
    ASSUME ExamsIInv, ExamClockTicks \/ ExamStaffChanges \/ \E s \in Students : LearnerChanges(s)
    PROVE  ExamsIInv' /\ Frozen
<1>1. UNCHANGED <<bank, exam, attempts, sittings, planned>>
    BY DEF ExamClockTicks, ExamStaffChanges, LearnerChanges, examPeople
<1>2. now' \in Nat /\ now <= now'
    BY DEF ExamClockTicks, ExamStaffChanges, LearnerChanges, ExamsIInv, ExamsTypeOK
<1>3. /\ staffed' \in BOOLEAN /\ supervised' \in BOOLEAN
      /\ learners' \subseteq Students /\ enrolled' \subseteq Students
    BY DEF ExamClockTicks, ExamStaffChanges, LearnerChanges, examPeople, ExamsIInv, ExamsTypeOK
<1> QED
    BY <1>1, <1>2, <1>3, ExamSurroundingsKeep DEF ExamsIInv, ExamsTypeOK

LEMMA ExamsStepKeeps == ExamsIInv /\ [ExamsNext]_examVars => ExamsIInv' /\ Frozen
<1> SUFFICES ASSUME ExamsIInv, [ExamsNext]_examVars PROVE ExamsIInv' /\ Frozen
    OBVIOUS
<1>1. CASE UNCHANGED examVars
    <2>1. now \in Nat /\ UNCHANGED <<now, planned, staffed, supervised, learners, enrolled,
                                     bank, exam, attempts, sittings>>
        BY <1>1 DEF examVars, examPeople, ExamsIInv, ExamsTypeOK
    <2> QED
        BY <2>1, ExamSurroundingsKeep DEF ExamsIInv, ExamsTypeOK
<1>2. CASE ExamsNext
    <2>1. CASE \E q \in Questions, o \in Options :
                  \/ CreateInstituteQuestion(q, o) \/ UpdateInstituteQuestion(q, o)
                  \/ CreateDenaQuestion(q, o) \/ UpdateDenaQuestion(q, o)
        BY <2>1, BankKeeps DEF CreateInstituteQuestion, UpdateInstituteQuestion,
                               CreateDenaQuestion, UpdateDenaQuestion
    <2>2. CASE \/ \E selected \in (SUBSET Questions) \ {{}} :
                     CreateInstituteExam(selected) \/ CreateDenaExam(selected)
               \/ PublishExam \/ CancelExam
        BY <2>2, StaffKeeps
    <2>3. CASE \E s \in Students :
                  \/ StartStudentExam(s)
                  \/ \E n \in 1..Len(attempts[s]) :
                        \/ GetStudentExamAttempt(s, n) \/ SubmitStudentExamAttempt(s, n)
                        \/ \E given \in Sheet \ {Blank} : SaveStudentExamAnswers(s, n, given)
        <3>1. Blank \in Sheet
            BY DEF Blank, Sheet
        <3> QED
            BY <2>3, <3>1, FirstStartKeeps, SittingsKeep
    <2>4. CASE \E r \in sittings :
                  \/ FinishStart(r) \/ WriteAnswers(r) \/ FinalizeStudentExamAttempt(r)
                  \/ AbandonSitting(r)
        BY <2>4, StartKeeps, WriteKeeps, CloseKeeps, AbandonSittingKeeps
    <2>5. CASE ExamClockTicks \/ ExamStaffChanges \/ \E s \in Students : LearnerChanges(s)
        BY <2>5, ClockAndPeopleKeep
    <2> QED
        BY <1>2, <2>1, <2>2, <2>3, <2>4, <2>5 DEF ExamsNext
<1> QED
    BY <1>1, <1>2

LEMMA ExamsInductive == ExamsSpec => []ExamsIInv
BY ExamsInitEstablishes, ExamsStepKeeps, PTL DEF ExamsSpec

\* Whoever starts, saves, submits or finds an attempt overdue at the same time, and
\* whatever becomes of the question bank: attempts keep the rules of the exam, and
\* results count the stored answers that are right by its paper
\* (src/src/server/assessments/exam-management.ts).
THEOREM ExamsAreFair == ExamsSpec => []AttemptsAreSound
<1>1. ExamsIInv => AttemptsAreSound
    <2> SUFFICES ASSUME ExamsIInv PROVE ScoreMatchesAnswers /\ AttemptsInOrder
        BY DEF AttemptsAreSound
    <2>1. ScoreMatchesAnswers
        BY DEF ExamsIInv, AttemptsInv, Sound, RightAnswers, ScoreMatchesAnswers
    <2>2. AttemptsInOrder
        BY DEF ExamsIInv, AttemptsInv, Sound, AttemptsInOrder
    <2> QED
        BY <2>1, <2>2
<1> QED
    BY <1>1, ExamsInductive, PTL

\* What is closed stays as it is, answers and result, whichever request still runs.
THEOREM ClosedAttemptsStay == ExamsSpec => ClosedIsFrozen
<1>1. Frozen => [\A s \in Students : \A n \in 1..Len(attempts[s]) :
                    attempts[s][n].status # "in_progress" =>
                        attempts'[s][n] = attempts[s][n]]_examVars
    BY DEF Frozen
<1> QED
    BY <1>1, ExamsStepKeeps, ExamsInductive, PTL DEF ExamsSpec, ClosedIsFrozen

--------------------------------------------------------------------------------
(***************************************************************************)
(* Learning, for any number of students, requests, connections and tries.  *)
(*                                                                         *)
(* The argument: an open request holds the enrolment it found active, so   *)
(* no request outlives a cancellation; an owner's open transaction holds   *)
(* the course back from publication; and a try but the last one has been   *)
(* graded and its lessons read, so only the last one can be graded.        *)
(***************************************************************************)
Open == {r \in Requests : request[r] # Idle}

\* The type of the rows; PoolInv has the connections.
RowsOK ==
    /\ owner \in {"provider", "educator"}
    /\ authority \in BOOLEAN /\ published \in BOOLEAN
    /\ enrolment \in [Pupils -> {"none", "active", "cancelled"}]
    /\ authoring \subseteq {"practice", "assessment"}
    /\ practice \in Practice \cup {NoExercise}
    /\ assessment \in Assessment \cup {NoExercise}
    /\ practiced \in [Pupils -> {"none", "right", "wrong"}]
    /\ tries \in [Pupils -> Seq(Try)]

PoolInv ==
    /\ request \in [Requests -> Request \cup {Idle}]
    /\ IsFiniteSet(Open) /\ Cardinality(Open) <= PoolSize

\* An open request has locked the enrolment it found.
RequestsInv ==
    \A r \in Requests : request[r] # Idle => enrolment[request[r].pupil] = "active"

DraftInv ==
    /\ authoring # {} => ~published
    /\ published => practice.status # "pending"

\* A try t of assessment a that is graded by its answers, and one that was earned.
GradedWell(t, a) ==
    /\ Cardinality(t.drawn) = a.count
    /\ t.outcome = "completed" <=>
           /\ t.status = "submitted"
           /\ Cardinality(t.drawn \ t.missed) >= a.required
    /\ t.status = "in_progress" <=> t.outcome = "none"

Earned(t, a) ==
    t.outcome = "needs_review" /\ {a.lesson[q] : q \in t.missed} \subseteq t.read

TriesInv ==
    \A s \in Pupils : \A n \in 1..Len(tries[s]) :
        /\ assessment.status = "approved"
        /\ GradedWell(tries[s][n], assessment)
        /\ n < Len(tries[s]) => Earned(tries[s][n], assessment)

LearningIInv == RowsOK /\ PoolInv /\ RequestsInv /\ DraftInv /\ TriesInv

\* What a step may not do to answers, for every step.
Standing ==
    \A s \in Pupils :
        /\ practiced[s] # "none" => practiced'[s] = practiced[s]
        /\ \A n \in 1..Len(tries[s]) :
              tries[s][n].status = "submitted" =>
                  tries'[s][n] = [tries[s][n] EXCEPT !.read = tries'[s][n].read]
        /\ enrolment[s] = "cancelled" => tries'[s] = tries[s]
                                         /\ practiced'[s] = practiced[s]

Safe == LearningIInv' /\ Standing

LEMMA TryTypes ==
    ASSUME LearningIInv, NEW s \in Pupils, NEW n \in 1..Len(tries[s])
    PROVE  /\ tries[s] \in Seq(Try) /\ Len(tries[s]) \in Nat /\ n \in Nat
           /\ tries[s][n] \in Try
BY DEF LearningIInv, RowsOK

LEMMA OpenTypes ==
    ASSUME LearningIInv, NEW r \in Requests, request[r] # Idle
    PROVE  /\ request[r] \in Request /\ request[r].pupil \in Pupils
           /\ enrolment[request[r].pupil] = "active"
BY DEF LearningIInv, PoolInv, RequestsInv, Request

LEMMA LearningInitEstablishes == LearningInit => LearningIInv
<1> SUFFICES ASSUME LearningInit PROVE LearningIInv
    OBVIOUS
<1>1. RowsOK
    <2>1. /\ enrolment \in [Pupils -> {"none", "active", "cancelled"}]
          /\ practiced \in [Pupils -> {"none", "right", "wrong"}]
          /\ tries \in [Pupils -> Seq(Try)]
        BY DEF LearningInit
    <2>2. /\ authority \in BOOLEAN /\ published \in BOOLEAN
          /\ owner \in {"provider", "educator"} /\ authoring \subseteq {"practice", "assessment"}
          /\ practice = NoExercise /\ assessment = NoExercise
        BY DEF LearningInit
    <2> QED
        BY <2>1, <2>2 DEF RowsOK
<1>2. PoolInv
    <2>1. Open = {}
        BY DEF LearningInit, Open
    <2>2. IsFiniteSet({}) /\ Cardinality({}) = 0
        BY FS_EmptySet
    <2> QED
        BY <2>1, <2>2, PoolAssumption DEF LearningInit, PoolInv
<1>3. RequestsInv /\ TriesInv
    BY DEF LearningInit, RequestsInv, TriesInv
<1>4. DraftInv
    BY DEF LearningInit, DraftInv
<1> QED
    BY <1>1, <1>2, <1>3, <1>4 DEF LearningIInv

(***************************************************************************)
(* Connections.                                                            *)
(***************************************************************************)
LEMMA FinishKeeps ==
    ASSUME LearningIInv, NEW r \in Requests, Finish(r), UNCHANGED enrolment
    PROVE  PoolInv' /\ RequestsInv'
<1>1. request' = [request EXCEPT ![r] = Idle]
    BY DEF Finish
<1>2. request' \in [Requests -> Request \cup {Idle}]
    BY <1>1 DEF LearningIInv, PoolInv
<1>3. RequestsInv'
    BY <1>1, <1>2 DEF LearningIInv, PoolInv, RequestsInv
<1>4. Open' \subseteq Open
    BY <1>1 DEF Open, LearningIInv, PoolInv
<1>5. IsFiniteSet(Open') /\ Cardinality(Open') <= Cardinality(Open)
    BY <1>4, FS_Subset DEF LearningIInv, PoolInv
<1>6. Cardinality(Open) \in Nat /\ Cardinality(Open') \in Nat
    BY <1>5, FS_CardinalityType DEF LearningIInv, PoolInv
<1>7. Cardinality(Open') <= PoolSize
    BY <1>5, <1>6, PoolAssumption DEF LearningIInv, PoolInv
<1> QED
    BY <1>2, <1>3, <1>5, <1>7 DEF PoolInv

LEMMA ConnectionsKeep ==
    ASSUME LearningIInv, NEW r \in Requests,
           \/ \E s \in Pupils : Enter(r, s)
           \/ HasStudentEntitlement(r)
    PROVE  PoolInv' /\ RequestsInv'
<1>1. CASE \E s \in Pupils : Enter(r, s)
    <2>1. PICK s \in Pupils : Enter(r, s)
        BY <1>1
    <2> DEFINE q == [step |-> "entered", pupil |-> s]
    <2>2. q \in Request /\ q # Idle
        BY DEF Request, Idle
    <2>3. /\ request' = [request EXCEPT ![r] = q] /\ UNCHANGED enrolment
          /\ request[r] = Idle /\ enrolment[s] = "active" /\ Cardinality(Open) < PoolSize
        BY <2>1 DEF Enter, ConnectionFree, Open
    <2> HIDE DEF q
    <2>4. request' \in [Requests -> Request \cup {Idle}]
        BY <2>2, <2>3 DEF LearningIInv, PoolInv
    <2>5. Open' = Open \cup {r} /\ r \notin Open
        BY <2>2, <2>3 DEF Open, LearningIInv, PoolInv
    <2>6. IsFiniteSet(Open') /\ Cardinality(Open') = Cardinality(Open) + 1
        BY <2>5, FS_AddElement DEF LearningIInv, PoolInv
    <2>7. Cardinality(Open) \in Nat
        BY FS_CardinalityType DEF LearningIInv, PoolInv
    <2>8. PoolInv'
        BY <2>3, <2>4, <2>6, <2>7, PoolAssumption DEF PoolInv
    <2>9. q.pupil = s
        BY DEF q
    <2>10. RequestsInv'
        BY <2>3, <2>9 DEF LearningIInv, PoolInv, RequestsInv
    <2> QED
        BY <2>8, <2>10
<1>2. CASE HasStudentEntitlement(r)
    <2>1. request[r] \in Request /\ request[r] # Idle
        BY <1>2 DEF HasStudentEntitlement, LearningIInv, PoolInv, Idle
    <2>2. CASE request' = [request EXCEPT ![r] = Idle]
        BY <1>2, <2>2, FinishKeeps DEF Finish, HasStudentEntitlement
    <2>3. CASE request' = [request EXCEPT ![r] = [request[r] EXCEPT !.step = "entitled"]]
        <3> DEFINE q == [request[r] EXCEPT !.step = "entitled"]
        <3>1. q \in Request /\ q # Idle /\ q.pupil = request[r].pupil
            BY <2>1 DEF Request, Idle
        <3>2. request' = [request EXCEPT ![r] = q] /\ UNCHANGED enrolment
            BY <1>2, <2>3 DEF HasStudentEntitlement
        <3> HIDE DEF q
        <3>3. request' \in [Requests -> Request \cup {Idle}]
            BY <3>1, <3>2 DEF LearningIInv, PoolInv
        <3>4. Open' = Open
            BY <2>1, <3>1, <3>2 DEF Open, LearningIInv, PoolInv
        <3>5. PoolInv'
            BY <3>3, <3>4 DEF LearningIInv, PoolInv
        <3>6. RequestsInv'
            BY <2>1, <3>1, <3>2 DEF LearningIInv, PoolInv, RequestsInv
        <3> QED
            BY <3>5, <3>6
    <2> QED
        BY <1>2, <2>2, <2>3 DEF HasStudentEntitlement
<1> QED
    BY <1>1, <1>2

LEMMA UnchangedStand ==
    ASSUME LearningIInv, UNCHANGED <<tries, practiced>>
    PROVE  Standing
<1>1. ASSUME NEW s \in Pupils, NEW n \in 1..Len(tries[s])
      PROVE  tries'[s][n] = [tries[s][n] EXCEPT !.read = tries'[s][n].read]
    <2>1. tries[s][n] \in Try /\ tries'[s][n] = tries[s][n]
        BY <1>1, TryTypes
    <2> QED
        BY <2>1 DEF Try
<1> QED
    BY <1>1 DEF Standing

LEMMA RequestStarts ==
    ASSUME LearningIInv, NEW r \in Requests,
           \/ \E s \in Pupils : Enter(r, s)
           \/ HasStudentEntitlement(r)
    PROVE  Safe
<1>1. UNCHANGED <<owner, authority, published, enrolment, authoring, practice, assessment,
                  practiced, tries>>
    BY DEF Enter, HasStudentEntitlement, course, exercises
<1>2. RowsOK' /\ DraftInv'
    BY <1>1 DEF LearningIInv, RowsOK, DraftInv
<1>3. TriesInv'
    BY <1>1 DEF LearningIInv, TriesInv
<1> QED
    BY <1>1, <1>2, <1>3, ConnectionsKeep, UnchangedStand DEF Safe, LearningIInv

(***************************************************************************)
(* What a request writes before it ends.                                   *)
(***************************************************************************)
LEMMA RewriteTry ==
    ASSUME LearningIInv, NEW r \in Requests, request[r] # Idle, Finish(r),
           NEW s \in Pupils, s = request[r].pupil,
           NEW n \in 1..Len(tries[s]), NEW a \in Try,
           tries' = [tries EXCEPT ![s] = [tries[s] EXCEPT ![n] = a]],
           GradedWell(a, assessment), n < Len(tries[s]) => Earned(a, assessment),
           tries[s][n].status = "submitted" => a = [tries[s][n] EXCEPT !.read = a.read],
           UNCHANGED <<course, enrolment, authoring, exercises, practiced>>
    PROVE  Safe
<1>1. UNCHANGED <<owner, authority, published, enrolment, authoring, practice, assessment,
                  practiced>>
    BY DEF course, exercises
<1>2. tries[s] \in Seq(Try) /\ n \in 1..Len(tries[s]) /\ Len(tries[s]) \in Nat
    BY TryTypes
<1>3. tries' \in [Pupils -> Seq(Try)]
    BY <1>2 DEF LearningIInv, RowsOK
<1>4. RowsOK' /\ DraftInv'
    BY <1>1, <1>3 DEF LearningIInv, RowsOK, DraftInv
<1>5. ASSUME NEW t \in Pupils, NEW m \in 1..Len(tries'[t])
      PROVE  /\ m \in 1..Len(tries[t]) /\ Len(tries'[t]) = Len(tries[t])
             /\ tries'[t][m] = IF t = s /\ m = n THEN a ELSE tries[t][m]
    <2>1. tries'[t] = IF t = s THEN [tries[s] EXCEPT ![n] = a] ELSE tries[t]
        BY DEF LearningIInv, RowsOK
    <2> QED
        BY <2>1, <1>2, <1>5
<1>6. TriesInv'
    <2> SUFFICES ASSUME NEW t \in Pupils, NEW m \in 1..Len(tries'[t])
                 PROVE  /\ assessment.status = "approved"
                        /\ GradedWell(tries'[t][m], assessment)
                        /\ m < Len(tries'[t]) => Earned(tries'[t][m], assessment)
        BY <1>1 DEF TriesInv
    <2>1. /\ assessment.status = "approved" /\ GradedWell(tries[t][m], assessment)
          /\ m < Len(tries[t]) => Earned(tries[t][m], assessment)
        BY <1>5 DEF LearningIInv, TriesInv
    <2> QED
        BY <1>5, <2>1
<1>7. Standing
    <2>1. ASSUME NEW t \in Pupils, NEW m \in 1..Len(tries[t]), tries[t][m].status = "submitted"
          PROVE  tries'[t][m] = [tries[t][m] EXCEPT !.read = tries'[t][m].read]
        <3>1. tries'[t] = IF t = s THEN [tries[s] EXCEPT ![n] = a] ELSE tries[t]
            BY DEF LearningIInv, RowsOK
        <3>2. m \in 1..Len(tries'[t])
            BY <3>1, <1>2, <2>1
        <3>3. tries'[t][m] = IF t = s /\ m = n THEN a ELSE tries[t][m]
            BY <3>2, <1>5
        <3>4. tries[t][m] \in Try
            BY <2>1, TryTypes
        <3>5. CASE t = s /\ m = n
            BY <3>3, <3>5, <2>1
        <3>6. CASE ~(t = s /\ m = n)
            <4>1. tries'[t][m] = tries[t][m]
                BY <3>3, <3>6
            <4> QED
                BY <4>1, <3>4 DEF Try
        <3> QED
            BY <3>5, <3>6
    <2>2. ASSUME NEW t \in Pupils, enrolment[t] = "cancelled"
          PROVE  tries'[t] = tries[t]
        BY <2>2, OpenTypes DEF LearningIInv, RowsOK
    <2> QED
        BY <1>1, <2>1, <2>2 DEF Standing
<1> QED
    BY <1>1, <1>4, <1>6, <1>7, FinishKeeps DEF Safe, LearningIInv

LEMMA GradeKeeps ==
    ASSUME LearningIInv, NEW r \in Requests, request[r] # Idle,
           NEW n \in 1..Len(tries[request[r].pupil]), NEW right \in SUBSET Items,
           SubmitStudentLearningAssessment(r, n, right)
    PROVE  Safe
<1> DEFINE s == request[r].pupil
           t == tries[s][n]
           a == Graded(t, right)
<1>1. s \in Pupils
    BY OpenTypes
<1>2. t \in Try /\ tries[s] \in Seq(Try)
    BY <1>1, TryTypes
<1>3. /\ t.status = "in_progress" /\ Finish(r)
      /\ tries' = [tries EXCEPT ![s] = [tries[s] EXCEPT ![n] = a]]
      /\ UNCHANGED <<course, enrolment, authoring, exercises, practiced>>
    BY <1>1 DEF SubmitStudentLearningAssessment, Running, LearningIInv, RowsOK
<1>4. GradedWell(t, assessment) /\ ~(n < Len(tries[s]))
    BY <1>1, <1>3 DEF LearningIInv, TriesInv, GradedWell, Earned
<1>5. t.drawn \cap right = t.drawn \ (t.drawn \ right)
    OBVIOUS
<1>6. /\ a.drawn = t.drawn /\ a.status = "submitted" /\ a.missed = t.drawn \ right
      /\ a.outcome = IF Cardinality(t.drawn \cap right) >= assessment.required
                     THEN "completed" ELSE "needs_review"
      /\ a.read = t.read
    BY <1>2 DEF Graded, Try
<1>7. a \in Try
    BY <1>2 DEF Graded, Try
<1> HIDE DEF s, t, a
<1>8. GradedWell(a, assessment)
    BY <1>4, <1>5, <1>6 DEF GradedWell
<1> QED
    BY <1>1, <1>3, <1>4, <1>7, <1>8, RewriteTry DEF s, t

LEMMA ReviewKeeps ==
    ASSUME LearningIInv, NEW r \in Requests, request[r] # Idle,
           NEW n \in 1..Len(tries[request[r].pupil]), NEW l \in Lessons,
           AcknowledgeLessonReview(r, n, l)
    PROVE  Safe
<1> DEFINE s == request[r].pupil
           t == tries[s][n]
           a == [t EXCEPT !.read = t.read \cup {l}]
<1>1. s \in Pupils
    BY OpenTypes
<1>2. t \in Try /\ tries[s] \in Seq(Try)
    BY <1>1, TryTypes
<1>3. /\ Finish(r)
      /\ tries' = [tries EXCEPT ![s] = [tries[s] EXCEPT ![n] = a]]
      /\ UNCHANGED <<course, enrolment, authoring, exercises, practiced>>
    BY <1>1 DEF AcknowledgeLessonReview, LearningIInv, RowsOK
<1>4. GradedWell(t, assessment) /\ (n < Len(tries[s]) => Earned(t, assessment))
    BY <1>1 DEF LearningIInv, TriesInv
<1>5. /\ a \in Try /\ a = [t EXCEPT !.read = a.read]
      /\ a.drawn = t.drawn /\ a.status = t.status /\ a.missed = t.missed
      /\ a.outcome = t.outcome /\ a.read = t.read \cup {l}
    BY <1>2 DEF Try
<1> HIDE DEF s, t, a
<1>6. GradedWell(a, assessment) /\ (n < Len(tries[s]) => Earned(a, assessment))
    BY <1>4, <1>5 DEF GradedWell, Earned
<1> QED
    BY <1>1, <1>3, <1>5, <1>6, RewriteTry DEF s, t

LEMMA TryKeeps ==
    ASSUME LearningIInv, NEW r \in Requests, request[r] # Idle, NEW drawn \in SUBSET Items,
           StartStudentLearningAssessment(r, drawn)
    PROVE  Safe
<1> DEFINE s == request[r].pupil
           a == [drawn |-> drawn, status |-> "in_progress", outcome |-> "none",
                 missed |-> {}, read |-> {}]
<1>1. s \in Pupils /\ enrolment[s] = "active"
    BY OpenTypes
<1>2. tries[s] \in Seq(Try) /\ a \in Try
    BY <1>1 DEF LearningIInv, RowsOK, Try
<1>3. /\ tries' = [tries EXCEPT ![s] = Append(tries[s], a)]
      /\ assessment.status = "approved" /\ Cardinality(drawn) = assessment.count
      /\ MayTry(s) /\ Finish(r)
      /\ UNCHANGED <<owner, authority, published, enrolment, authoring, practice,
                     assessment, practiced>>
    BY <1>1 DEF StartStudentLearningAssessment, course, exercises, LearningIInv, RowsOK
<1>4. GradedWell(a, assessment)
    BY <1>3 DEF GradedWell
<1>5. tries[s] # <<>> => Earned(tries[s][Len(tries[s])], assessment)
    BY <1>3 DEF MayTry, Latest, AllLessonsRead, LessonsOf, Earned
<1> HIDE DEF s, a
<1>6. tries' \in [Pupils -> Seq(Try)]
    BY <1>1, <1>2, <1>3 DEF LearningIInv, RowsOK
<1>7. RowsOK' /\ DraftInv'
    BY <1>3, <1>6 DEF LearningIInv, RowsOK, DraftInv
<1>8. tries'[s] = Append(tries[s], a) /\ Len(tries[s]) \in Nat
    BY <1>1, <1>2, <1>3 DEF LearningIInv, RowsOK
<1>9. ASSUME NEW t \in Pupils, t # s
      PROVE  tries'[t] = tries[t]
    BY <1>3, <1>9 DEF LearningIInv, RowsOK
<1>10. TriesInv'
    <2> SUFFICES ASSUME NEW t \in Pupils, NEW m \in 1..Len(tries'[t])
                 PROVE  /\ assessment.status = "approved"
                        /\ GradedWell(tries'[t][m], assessment)
                        /\ m < Len(tries'[t]) => Earned(tries'[t][m], assessment)
        BY <1>3 DEF TriesInv
    <2>1. CASE t # s
        BY <1>9, <2>1 DEF LearningIInv, TriesInv
    <2>2. CASE t = s /\ m = Len(tries[s]) + 1
        BY <1>1, <1>2, <1>3, <1>4, <1>8, <2>2
    <2>3. CASE t = s /\ m # Len(tries[s]) + 1
        <3>1. m \in 1..Len(tries[s]) /\ tries'[s][m] = tries[s][m]
            BY <1>2, <1>8, <2>3
        <3>2. GradedWell(tries[s][m], assessment)
              /\ (m < Len(tries[s]) => Earned(tries[s][m], assessment))
            BY <1>1, <3>1 DEF LearningIInv, TriesInv
        <3>3. m = Len(tries[s]) => Earned(tries[s][m], assessment)
            BY <1>2, <1>5, <3>1
        <3> QED
            BY <1>3, <1>8, <2>3, <3>1, <3>2, <3>3
    <2> QED
        BY <2>1, <2>2, <2>3
<1>11. Standing
    <2>1. ASSUME NEW t \in Pupils, NEW m \in 1..Len(tries[t])
          PROVE  tries'[t][m] = [tries[t][m] EXCEPT !.read = tries'[t][m].read]
        <3>1. tries'[t][m] = tries[t][m]
            BY <1>2, <1>8, <1>9, <2>1
        <3>2. tries[t][m] \in Try
            BY <2>1, TryTypes
        <3> QED
            BY <3>1, <3>2 DEF Try
    <2> QED
        BY <1>1, <1>3, <1>9, <2>1 DEF Standing
<1> QED
    BY <1>3, <1>7, <1>10, <1>11, FinishKeeps DEF Safe, LearningIInv

LEMMA AnswerKeeps ==
    ASSUME LearningIInv, NEW r \in Requests, request[r] # Idle,
           \/ \E answer \in {"right", "wrong"} : SubmitStudentPractice(r, answer)
           \/ EndWithoutEffect(r)
    PROVE  Safe
<1>1. /\ UNCHANGED <<owner, authority, published, enrolment, authoring, practice,
                     assessment, tries>>
      /\ Finish(r)
    BY DEF SubmitStudentPractice, EndWithoutEffect, course, exercises
<1>2. request[r].pupil \in Pupils /\ enrolment[request[r].pupil] = "active"
    BY OpenTypes
<1>3. /\ practiced' \in [Pupils -> {"none", "right", "wrong"}]
      /\ \A s \in Pupils :
            practiced'[s] # practiced[s] => practiced[s] = "none" /\ s = request[r].pupil
    BY <1>2 DEF SubmitStudentPractice, EndWithoutEffect, LearningIInv, RowsOK
<1>4. RowsOK' /\ DraftInv'
    BY <1>1, <1>3 DEF LearningIInv, RowsOK, DraftInv
<1>5. TriesInv'
    BY <1>1 DEF LearningIInv, TriesInv
<1>6. ASSUME NEW s \in Pupils, NEW n \in 1..Len(tries[s])
      PROVE  tries'[s][n] = [tries[s][n] EXCEPT !.read = tries'[s][n].read]
    <2>1. tries[s][n] \in Try /\ tries'[s][n] = tries[s][n]
        BY <1>1, <1>6, TryTypes
    <2> QED
        BY <2>1 DEF Try
<1>7. Standing
    BY <1>1, <1>2, <1>3, <1>6 DEF Standing
<1> QED
    BY <1>1, <1>4, <1>5, <1>7, FinishKeeps DEF Safe, LearningIInv

(***************************************************************************)
(* The owner, the reviewer, and enrolments.                                *)
(***************************************************************************)
LEMMA CourseKeeps ==
    ASSUME LearningIInv, UNCHANGED <<tries, practiced, request, enrolment>>, RowsOK', DraftInv',
           assessment' = assessment \/ assessment.status # "approved"
    PROVE  Safe
<1>1. PoolInv' /\ RequestsInv'
    BY DEF LearningIInv, PoolInv, RequestsInv, Open
<1>2. TriesInv'
    BY DEF LearningIInv, TriesInv
<1> QED
    BY <1>1, <1>2, UnchangedStand DEF Safe, LearningIInv

LEMMA PracticeKeeps ==
    ASSUME LearningIInv,
           \/ CreateProviderPractice \/ CreateIndependentEducatorPractice
           \/ \E status \in {"approved", "rejected"} :
                 \/ DecideInstitutePractice(status)
                 \/ DecideIndependentEducatorInstitutePractice(status)
    PROVE  Safe
<1>1. UNCHANGED <<owner, authority, published, assessment, tries, practiced, request,
                  enrolment>>
    BY DEF CreateProviderPractice, CreateIndependentEducatorPractice, CreatePractice,
           DecideInstitutePractice, DecideIndependentEducatorInstitutePractice,
           DecidePractice, course
<1>2. /\ authoring' \subseteq authoring /\ ~published
      /\ practice' \in Practice \cup {NoExercise}
    <2>1. CASE CreatePractice
        <3>1. "practice" \in authoring /\ authoring' \subseteq authoring /\ UNCHANGED published
            BY <2>1 DEF CreatePractice, course
        <3>2. practice' = practice \/ practice' = [status |-> "pending"]
            BY <2>1 DEF CreatePractice
        <3> QED
            BY <3>1, <3>2 DEF LearningIInv, RowsOK, DraftInv, Practice, Reviewed
    <2>2. ASSUME NEW status \in {"approved", "rejected"}, DecidePractice(status)
          PROVE  authoring' = authoring /\ ~published /\ practice' \in Practice
        BY <2>2 DEF DecidePractice, LearningIInv, RowsOK, Practice, Reviewed, NoExercise
    <2> QED
        BY <2>1, <2>2
        DEF CreateProviderPractice, CreateIndependentEducatorPractice,
            DecideInstitutePractice, DecideIndependentEducatorInstitutePractice
<1> QED
    BY <1>1, <1>2, CourseKeeps DEF LearningIInv, RowsOK, DraftInv

LEMMA AssessmentKeeps ==
    ASSUME LearningIInv,
           \/ \E lesson \in [Items -> Lessons], count, required \in 1..Cardinality(Items) :
                 CreateCourseLearningAssessment(lesson, count, required)
           \/ \E status \in {"approved", "rejected"} :
                 DecideInstituteLearningAssessment(status)
    PROVE  Safe
<1>1. /\ UNCHANGED <<owner, authority, published, practice, tries, practiced, request,
                     enrolment>>
      /\ authoring' \subseteq authoring
    BY DEF CreateCourseLearningAssessment, DecideInstituteLearningAssessment, course
<1>2. assessment' \in Assessment /\ assessment.status # "approved"
    <2>1. Cardinality(Items) \in Nat
        BY BankAssumption, FS_CardinalityType
    <2>2. ASSUME NEW lesson \in [Items -> Lessons], NEW count \in 1..Cardinality(Items),
                 NEW required \in 1..Cardinality(Items),
                 CreateCourseLearningAssessment(lesson, count, required)
          PROVE  assessment' \in Assessment /\ assessment.status # "approved"
        BY <2>1, <2>2 DEF CreateCourseLearningAssessment, Assessment, Reviewed, NoExercise
    <2>3. ASSUME NEW status \in {"approved", "rejected"},
                 DecideInstituteLearningAssessment(status)
          PROVE  assessment' \in Assessment /\ assessment.status # "approved"
        <3>1. assessment.status = "pending" /\ assessment' = [assessment EXCEPT !.status = status]
            BY <2>3 DEF DecideInstituteLearningAssessment
        <3>2. assessment \in Assessment
            BY <3>1 DEF LearningIInv, RowsOK, NoExercise
        <3>3. status \in Reviewed
            BY <2>3 DEF Reviewed
        <3> QED
            BY <3>1, <3>2, <3>3 DEF Assessment
    <2> QED
        BY <2>2, <2>3
<1> QED
    BY <1>1, <1>2, CourseKeeps DEF LearningIInv, RowsOK, DraftInv

LEMMA OwnerKeeps ==
    ASSUME LearningIInv,
           \/ \E kind \in {"practice", "assessment"} :
                 ReadForExercise(kind) \/ AbandonExercise(kind)
           \/ PublishCourse
           \/ SupervisionChanges
    PROVE  Safe
<1>1. UNCHANGED <<owner, practice, assessment, tries, practiced, request, enrolment>>
    BY DEF ReadForExercise, AbandonExercise, PublishCourse, SupervisionChanges, course,
           exercises
<1>2. /\ authority' \in BOOLEAN /\ published' \in BOOLEAN
      /\ authoring' \subseteq {"practice", "assessment"}
    BY DEF ReadForExercise, AbandonExercise, PublishCourse, SupervisionChanges, course,
           exercises, LearningIInv, RowsOK
<1>3. DraftInv'
    BY DEF ReadForExercise, AbandonExercise, PublishCourse, SupervisionChanges, course,
           exercises, CourseFree, LearningIInv, DraftInv
<1> QED
    BY <1>1, <1>2, <1>3, CourseKeeps DEF LearningIInv, RowsOK

LEMMA LearningEnrolmentKeeps ==
    ASSUME LearningIInv, NEW s \in Pupils, EnrollFreeCourse(s) \/ CancelEnrolment(s)
    PROVE  Safe
<1>1. UNCHANGED <<owner, authority, published, authoring, practice, assessment, practiced,
                  tries, request>>
    BY DEF EnrollFreeCourse, CancelEnrolment, course, exercises
<1>2. enrolment' \in [Pupils -> {"none", "active", "cancelled"}]
    BY DEF EnrollFreeCourse, CancelEnrolment, LearningIInv, RowsOK
<1>3. RequestsInv'
    <2> SUFFICES ASSUME NEW r \in Requests, request[r] # Idle
                 PROVE  enrolment'[request[r].pupil] = "active"
        BY <1>1 DEF RequestsInv
    <2>1. request[r].pupil \in Pupils /\ enrolment[request[r].pupil] = "active"
        BY OpenTypes
    <2> QED
        BY <2>1 DEF EnrollFreeCourse, CancelEnrolment, EnrolmentFree, LearningIInv, RowsOK
<1>4. RowsOK' /\ PoolInv' /\ DraftInv' /\ TriesInv'
    BY <1>1, <1>2 DEF LearningIInv, RowsOK, PoolInv, Open, DraftInv, TriesInv
<1> QED
    BY <1>1, <1>3, <1>4, UnchangedStand DEF Safe, LearningIInv

LEMMA LearningStepKeeps == LearningIInv /\ [LearningNext]_learningVars => Safe
<1> SUFFICES ASSUME LearningIInv, [LearningNext]_learningVars PROVE Safe
    OBVIOUS
<1>1. CASE UNCHANGED learningVars
    <2>1. UNCHANGED <<owner, authority, published, enrolment, authoring, practice,
                      assessment, practiced, tries, request>>
        BY <1>1 DEF learningVars
    <2> QED
        BY <2>1, CourseKeeps DEF LearningIInv, RowsOK, DraftInv
<1>2. CASE LearningNext
    <2>1. CASE \/ \E kind \in {"practice", "assessment"} :
                     ReadForExercise(kind) \/ AbandonExercise(kind)
               \/ PublishCourse
               \/ SupervisionChanges
        BY <2>1, OwnerKeeps
    <2>2. CASE CreateProviderPractice \/ CreateIndependentEducatorPractice
        BY <2>2, PracticeKeeps
    <2>3. CASE \E lesson \in [Items -> Lessons], count, required \in 1..Cardinality(Items) :
                  CreateCourseLearningAssessment(lesson, count, required)
        BY <2>3, AssessmentKeeps
    <2>4. CASE \E status \in {"approved", "rejected"} :
                  \/ DecideInstitutePractice(status)
                  \/ DecideIndependentEducatorInstitutePractice(status)
                  \/ DecideInstituteLearningAssessment(status)
        BY <2>4, PracticeKeeps, AssessmentKeeps
    <2>5. CASE \E s \in Pupils : EnrollFreeCourse(s) \/ CancelEnrolment(s)
        BY <2>5, LearningEnrolmentKeeps
    <2>6. CASE \E r \in Requests :
                  \/ \E s \in Pupils : Enter(r, s)
                  \/ HasStudentEntitlement(r)
        BY <2>6, RequestStarts
    <2>7. CASE \E r \in Requests : request[r] # Idle /\ Respond(r)
        BY <2>7, TryKeeps, GradeKeeps, ReviewKeeps, AnswerKeeps DEF Respond
    <2> QED
        BY <1>2, <2>1, <2>2, <2>3, <2>4, <2>5, <2>6, <2>7 DEF LearningNext
<1> QED
    BY <1>1, <1>2

LEMMA LearningInductive == LearningSpec => []LearningIInv
<1>1. LearningIInv /\ [LearningNext]_learningVars => LearningIInv'
    BY LearningStepKeeps DEF Safe
<1> QED
    BY <1>1, LearningInitEstablishes, PTL DEF LearningSpec

\* However students repeat and overlap their requests, and whatever the owner writes
\* while the course is published: what is tried was reviewed before, and what is tried
\* again was earned (src/src/server/assessments/learning-assessment.ts).
THEOREM ExercisesStaySound == LearningSpec => []ExercisesAreSound
<1>1. LearningIInv => ExercisesAreSound
    <2> SUFFICES ASSUME LearningIInv PROVE TriesAreEarned /\ ExercisesAreReviewed
        BY DEF ExercisesAreSound
    <2>1. TriesAreEarned
        BY DEF LearningIInv, TriesInv, GradedWell, Earned, LessonsOf, TriesAreEarned
    <2>2. ASSUME NEW s \in Pupils, tries[s] # <<>>
          PROVE  assessment.status = "approved"
        <3>1. tries[s] \in Seq(Try)
            BY DEF LearningIInv, RowsOK
        <3>2. 1 \in 1..Len(tries[s])
            BY <2>2, <3>1
        <3> QED
            BY <3>2 DEF LearningIInv, TriesInv
    <2> QED
        BY <2>1, <2>2 DEF LearningIInv, DraftInv, ExercisesAreReviewed
<1> QED
    BY <1>1, LearningInductive, PTL

\* A result and an answer stand, and a cancelled enrolment adds nothing, for any number
\* of requests and connections (src/src/server/student/course-practice.ts:314).
THEOREM StudentAnswersStand == LearningSpec => AnswersStand
<1>1. Safe => [\A s \in Pupils :
                  /\ practiced[s] # "none" => practiced'[s] = practiced[s]
                  /\ \A n \in 1..Len(tries[s]) :
                        tries[s][n].status = "submitted" =>
                            tries'[s][n] = [tries[s][n] EXCEPT !.read = tries'[s][n].read]
              ]_learningVars
    BY DEF Safe, Standing
<1>2. Safe => [\A s \in Pupils :
                  enrolment[s] = "cancelled" => tries'[s] = tries[s]
                                                /\ practiced'[s] = practiced[s]]_learningVars
    BY DEF Safe, Standing
<1> QED
    BY <1>1, <1>2, LearningStepKeeps, LearningInductive, PTL
    DEF LearningSpec, AnswersStand, FirstResultStands, NoAnswerAfterCancel
================================================================================
