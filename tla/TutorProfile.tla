------------------------------ MODULE TutorProfile ------------------------------
(***************************************************************************)
(* What the tutor answers to one student of a course and what it remembers *)
(* of them: a row per topic the student agreed to keep, with the counters  *)
(* of their practice, and their feedback on videos.  A request reads the   *)
(* entitlement, then whether an exam attempt is in progress, then what it  *)
(* answers from, and writes last: statements of their own, between which   *)
(* the enrolment, an exam, the permission of a video and other requests of *)
(* the student move on.                                                    *)
(***************************************************************************)
EXTENDS Naturals

CONSTANTS
    Topics,    \* of the starter corpus; a transcript names one of them too
    Films,     \* videos of the course
    Asks,      \* requests of the student that may be open at a time
    MaxCount   \* 10000 in the code

ASSUME CountAssumption == MaxCount \in Nat \ {0}
ASSUME FilmAssumption == Films \cap (Topics \cup {"question", "practice"}) = {}

\* The number of questions and the dates of a row, which only order the page of the
\* student, are left out.
NoTopic == [lesson |-> "no row"]
TopicRow == [attempts : 0..MaxCount, correct : 0..MaxCount, guided : BOOLEAN,
             lesson : {"none", "understood", "needs_help"}]
NewTopic == [attempts |-> 0, correct |-> 0, guided |-> FALSE, lesson |-> "none"]

NoAsk == [step |-> "idle"]
\* "about" is what the request names: the tutor, its practice, or a video;
\* "overlong": the exam in progress when it came is still in progress
Ask == [step : {"entitled", "admitted"}, about : {"question", "practice"} \cup Films,
        overlong : BOOLEAN]
Found == [step : {"answering", "graded"}, overlong : BOOLEAN, topic : Topics,
          value : BOOLEAN]
Inserted == [step : {"inserted"}, topic : Topics,
             value : {"understood", "needs_help", "right", "wrong"}]
Clearing == [step : {"clearing"}]

VARIABLES
    mayLearn,  \* the enrolment and the authority of the course stand
    inExam,    \* an attempt of the student is in progress
    quotable,  \* videos with a transcript, a permission and a course in scope
    rows,      \* the student's topics
    marks,     \* the student's feedback on videos
    asks,
    agreed     \* history: what the student agreed to keep since the last clearing

profileVars == <<mayLearn, inExam, quotable, rows, marks, asks, agreed>>
surroundings == <<mayLearn, inExam, quotable>>

ProfileInit ==
    /\ mayLearn = TRUE /\ inExam = FALSE /\ quotable \in SUBSET Films
    /\ rows = [t \in Topics |-> NoTopic]
    /\ marks = [f \in Films |-> "none"]
    /\ asks = [a \in Asks |-> NoAsk]
    /\ agreed = {}

AskBecomes(a, ask) == asks' = [asks EXCEPT ![a] = ask]
LeastOf(m, n) == IF m <= n THEN m ELSE n
Agrees(thing) == agreed' = agreed \cup {thing}

(***************************************************************************)
(* A request to the tutor: entitlement, active exam, answer.               *)
(***************************************************************************)
PostTutor(a, about) ==
    /\ asks[a] = NoAsk /\ mayLearn
    /\ AskBecomes(a, [step |-> "entitled", about |-> about, overlong |-> inExam])
    /\ UNCHANGED <<surroundings, rows, marks, agreed>>

PostQuestion(a) == PostTutor(a, "question")
PostPractice(a) == PostTutor(a, "practice")

PostVideoFeedback(a, f) == f \in quotable /\ PostTutor(a, f)

\* Fault: the exam is not asked about.
NoOneSits == FALSE

ActiveAttempt == inExam

CheckExam(a) ==
    /\ asks[a].step = "entitled"
    /\ AskBecomes(a, IF ActiveAttempt THEN NoAsk ELSE [asks[a] EXCEPT !.step = "admitted"])
    /\ UNCHANGED <<surroundings, rows, marks, agreed>>

Answering(a, t, keep) ==
    AskBecomes(a, [step |-> "answering", overlong |-> asks[a].overlong,
                topic |-> t, value |-> keep])

Retrieve(a, t, keep) ==
    /\ asks[a].step = "admitted" /\ asks[a].about = "question"
    /\ Answering(a, t, keep)
    /\ IF keep THEN Agrees(t) ELSE UNCHANGED agreed
    /\ UNCHANGED <<surroundings, rows, marks>>

\* A passage of a video whose permission, scope and entitlement are read again.
RetrieveStudentVideoTranscript(a, t, keep) ==
    mayLearn /\ quotable # {} /\ Retrieve(a, t, keep)

\* No passage matches, a lesson of the starter corpus does.
AnswerFromSeedCorpus(a, t, keep) == Retrieve(a, t, keep)

\* No lesson matches the question, or its practice is not there.
NothingFound(a) ==
    /\ asks[a].step = "admitted" /\ asks[a].about \in {"question", "practice"}
    /\ AskBecomes(a, NoAsk)
    /\ UNCHANGED <<surroundings, rows, marks, agreed>>

RecordTopic(t) ==
    rows' = [rows EXCEPT ![t] = IF @ = NoTopic THEN NewTopic ELSE @]

AnswerQuestion(a) ==
    /\ asks[a].step = "answering"
    /\ IF asks[a].value THEN RecordTopic(asks[a].topic) ELSE UNCHANGED rows
    /\ AskBecomes(a, NoAsk)
    /\ UNCHANGED <<surroundings, marks, agreed>>

\* The practice of a topic with a row is graded: the one the request names, or the
\* latest.
Grade(a, t, correct) ==
    /\ asks[a].step = "admitted" /\ asks[a].about = "practice"
    /\ rows[t] # NoTopic
    /\ AskBecomes(a, [step |-> "graded", overlong |-> asks[a].overlong,
                   topic |-> t, value |-> correct])
    /\ UNCHANGED <<surroundings, rows, marks, agreed>>

CountOutcome(row, correct) ==
    [row EXCEPT !.attempts = LeastOf(@ + 1, MaxCount),
                !.correct = LeastOf(@ + (IF correct THEN 1 ELSE 0), MaxCount),
                !.guided = ~correct, !.lesson = "none"]

\* Fault: the outcome brings its row with it.
Upsert(t, correct) ==
    rows' = [rows EXCEPT ![t] = CountOutcome(IF @ = NoTopic THEN NewTopic ELSE @, correct)]

\* An UPDATE: a row that has gone is not counted.
RecordOutcome(t, correct) ==
    rows' = [rows EXCEPT ![t] = IF @ = NoTopic THEN @ ELSE CountOutcome(@, correct)]

AnswerPractice(a, remember) ==
    /\ asks[a].step = "graded"
    /\ IF remember THEN RecordOutcome(asks[a].topic, asks[a].value)
       ELSE UNCHANGED rows
    /\ AskBecomes(a, NoAsk)
    /\ UNCHANGED <<surroundings, marks, agreed>>

RecordVideoFeedback(a, mark) ==
    /\ asks[a].step = "admitted" /\ asks[a].about \in Films
    /\ marks' = [marks EXCEPT ![asks[a].about] = mark]
    /\ Agrees(asks[a].about) /\ AskBecomes(a, NoAsk)
    /\ UNCHANGED <<surroundings, rows>>

(***************************************************************************)
(* Feedback on a lesson, and an answer of the course's own practice whose  *)
(* result is to be kept: the row first, then its columns.                  *)
(***************************************************************************)
EnsureTopic(a, t, value) ==
    /\ asks[a] = NoAsk
    /\ RecordTopic(t)
    /\ AskBecomes(a, [step |-> "inserted", topic |-> t, value |-> value])
    /\ Agrees(t)
    /\ UNCHANGED <<surroundings, marks>>

PostLessonFeedback(a, t) ==
    \E value \in {"understood", "needs_help"} : EnsureTopic(a, t, value)

PostCoursePractice(a, t) ==
    mayLearn /\ \E value \in {"right", "wrong"} : EnsureTopic(a, t, value)

RecordLessonFeedback(a) ==
    /\ asks[a].step = "inserted" /\ asks[a].value \in {"understood", "needs_help"}
    /\ rows' = [rows EXCEPT ![asks[a].topic] =
          IF @ = NoTopic THEN @ ELSE [@ EXCEPT !.lesson = asks[a].value]]
    /\ AskBecomes(a, NoAsk)
    /\ UNCHANGED <<surroundings, marks, agreed>>

RecordCoursePractice(a) ==
    /\ asks[a].step = "inserted" /\ asks[a].value \in {"right", "wrong"}
    /\ RecordOutcome(asks[a].topic, asks[a].value = "right")
    /\ AskBecomes(a, NoAsk)
    /\ UNCHANGED <<surroundings, marks, agreed>>

(***************************************************************************)
(* The student clears what is remembered: topics, then feedback.           *)
(***************************************************************************)
ClearTopics(a) ==
    /\ asks[a] = NoAsk
    /\ rows' = [t \in Topics |-> NoTopic]
    /\ AskBecomes(a, [step |-> "clearing"])
    \* a question that is being answered brings its topic back
    /\ agreed' = (agreed \ Topics) \cup
          {asks[b].topic : b \in {c \in Asks : asks[c].step = "answering" /\ asks[c].value}}
    /\ UNCHANGED <<surroundings, marks>>

ClearVideoFeedback(a) ==
    /\ asks[a].step = "clearing"
    /\ marks' = [f \in Films |-> "none"]
    /\ AskBecomes(a, NoAsk) /\ agreed' = agreed \ Films
    /\ UNCHANGED <<surroundings, rows>>

(***************************************************************************)
(* What changes elsewhere.                                                 *)
(***************************************************************************)
EnrolmentChanges ==
    /\ mayLearn' = ~mayLearn
    /\ UNCHANGED <<inExam, quotable, rows, marks, asks, agreed>>

StartExam ==
    /\ ~inExam /\ inExam' = TRUE
    /\ UNCHANGED <<mayLearn, quotable, rows, marks, asks, agreed>>

\* Whoever asked during this exam no longer does.
FinishExam ==
    /\ inExam /\ inExam' = FALSE
    /\ asks' = [a \in Asks |->
          IF "overlong" \in DOMAIN asks[a] THEN [asks[a] EXCEPT !.overlong = FALSE]
          ELSE asks[a]]
    /\ UNCHANGED <<mayLearn, quotable, rows, marks, agreed>>

ContentChanges(films) ==
    /\ quotable' = films
    /\ UNCHANGED <<mayLearn, inExam, rows, marks, asks, agreed>>

ProfileNext ==
    \/ \E a \in Asks :
          \/ PostQuestion(a) \/ PostPractice(a)
          \/ \E f \in Films : PostVideoFeedback(a, f)
          \/ CheckExam(a) \/ NothingFound(a) \/ AnswerQuestion(a)
          \/ \E t \in Topics, b \in BOOLEAN :
                \/ RetrieveStudentVideoTranscript(a, t, b)
                \/ AnswerFromSeedCorpus(a, t, b) \/ Grade(a, t, b)
          \/ \E remember \in BOOLEAN : AnswerPractice(a, remember)
          \/ \E mark \in {"helped", "needs_guidance"} : RecordVideoFeedback(a, mark)
          \/ \E t \in Topics : PostLessonFeedback(a, t) \/ PostCoursePractice(a, t)
          \/ RecordLessonFeedback(a) \/ RecordCoursePractice(a)
          \/ ClearTopics(a) \/ ClearVideoFeedback(a)
    \/ EnrolmentChanges \/ StartExam \/ FinishExam
    \/ \E films \in SUBSET Films : ContentChanges(films)

ProfileSpec == ProfileInit /\ [][ProfileNext]_profileVars

ProfileTypeOK ==
    /\ mayLearn \in BOOLEAN /\ inExam \in BOOLEAN /\ quotable \subseteq Films
    /\ \A t \in Topics : rows[t] \in TopicRow \cup {NoTopic}
    /\ marks \in [Films -> {"none", "helped", "needs_guidance"}]
    /\ \A a \in Asks : asks[a] \in {NoAsk} \cup Ask \cup Found \cup Inserted \cup Clearing
    /\ agreed \subseteq Topics \cup Films

\* What is remembered of a student is what they agreed to, since they last cleared
\* it or in a request that was answering meanwhile, and adds up: no more right
\* answers than attempts, and after a wrong one fewer unless the count is full.
ProfileIsTheStudents ==
    /\ \A f \in Films : marks[f] # "none" => f \in agreed
    /\ \A t \in Topics : rows[t] # NoTopic =>
          /\ t \in agreed
          /\ rows[t].correct <= rows[t].attempts
          /\ rows[t].guided =>
                rows[t].correct < rows[t].attempts \/ rows[t].attempts = MaxCount

\* The tutor answers, grades and takes feedback in an exam only for a request that
\* came before it: never for one that came during the exam that still runs.
NoHelpInExam ==
    [][\A a \in Asks :
          asks[a].step \in {"admitted", "answering", "graded"} /\ asks'[a] = NoAsk
              => ~asks[a].overlong]_profileVars
================================================================================
