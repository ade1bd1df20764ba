------------------------------ MODULE CourseTeam ------------------------------
(***************************************************************************)
(* The team of one course and one of its students.  The institute assigns  *)
(* supporters and counselors and ends their assignments.  The student      *)
(* writes to a member, who replies; the student asks a supporter for a     *)
(* session, which the supporter reviews, schedules or declines.            *)
(*                                                                         *)
(* A message or a request holds the rows of the assignment and of the      *)
(* enrolment until it commits.  A supporter's decision reads both before   *)
(* its transaction and locks neither.                                      *)
(***************************************************************************)
EXTENDS Naturals, FiniteSets

CONSTANTS
    Supporters, Counselors, \* people the institute may assign
    Problems,               \* ids of the student's requests
    Windows,                \* windows in which a supporter may decide
    MaxMessages             \* bound on the messages of one conversation

ASSUME TeamAssumption == Supporters \cap Counselors = {} /\ MaxMessages \in Nat

Members == Supporters \cup Counselors

NoProblem == [status |-> "none"]
Problem == [status : {"submitted", "under_review", "scheduled", "declined"},
            supporter : Supporters]

\* A write that holds its rows, and a decision with what it has read so far.
TeamWrite == [op : {"message", "reply", "ask"}, member : Members]
TeamDecision ==
    [op : {"decide", "meet"}, member : Supporters, problem : Problems,
     window : Windows, checked : BOOLEAN]

VARIABLES
    assignment, \* status of each assignment, and whether it takes requests
    enrolment,  \* the student's enrolment: active or cancelled
    standing,   \* the rest of the entitlement: membership, publication, supervision
    messages,   \* number of messages in the conversation with each member
    problem,    \* the requests
    session,    \* status of the session of each request
    writes, decisions \* calls in progress

teamVars == <<assignment, enrolment, standing, messages, problem, session,
              writes, decisions>>

TeamInit ==
    /\ assignment = [m \in Members |-> [status |-> "none", enabled |-> FALSE]]
    /\ enrolment = "active"
    /\ standing = TRUE
    /\ messages = [m \in Members |-> 0]
    /\ problem = [q \in Problems |-> NoProblem]
    /\ session = [q \in Problems |-> "none"]
    /\ writes = {} /\ decisions = {}

Assigned(m) == assignment[m].status = "active"

Entitled == enrolment = "active" /\ standing

\* Fault: a message leaves the assignment unlocked.
AssignmentUnlocked(m) == TRUE

\* Nobody shares the row of the assignment.
AssignmentFree(m) == \A t \in writes : t.member # m

\* Fault: a decision leaves the request unlocked.
ProblemUnlocked(q) == TRUE

\* No decision holds the row of the request.
ProblemFree(q) == \A t \in decisions : ~(t.op = "decide" /\ t.problem = q /\ t.checked)

(***************************************************************************)
(* The institute.                                                          *)
(***************************************************************************)
AssignInstituteCourseTeamMember(m) ==
    /\ ~Assigned(m) /\ AssignmentFree(m)
    /\ assignment' = [assignment EXCEPT ![m] = [status |-> "active", enabled |-> FALSE]]
    /\ UNCHANGED <<enrolment, standing, messages, problem, session, writes, decisions>>

DeactivateInstituteCourseTeamMember(m) ==
    /\ Assigned(m) /\ AssignmentFree(m)
    /\ assignment' = [assignment EXCEPT ![m] = [status |-> "inactive", enabled |-> FALSE]]
    /\ UNCHANGED <<enrolment, standing, messages, problem, session, writes, decisions>>

SetInstituteCourseTeamSessionRequestPolicy(m, enabled) ==
    /\ Assigned(m) /\ m \in Supporters /\ AssignmentFree(m)
    /\ assignment' = [assignment EXCEPT ![m].enabled = enabled]
    /\ UNCHANGED <<enrolment, standing, messages, problem, session, writes, decisions>>

(***************************************************************************)
(* Conversations.                                                          *)
(***************************************************************************)
Begins(t) ==
    /\ Assigned(t.member) /\ Entitled
    /\ writes' = writes \cup {t}
    /\ UNCHANGED <<assignment, enrolment, standing, messages, problem, session, decisions>>

BeginMessage(m) == Begins([op |-> "message", member |-> m])

\* The conversation exists once the student has written.
BeginReply(m) == messages[m] > 0 /\ Begins([op |-> "reply", member |-> m])

Says(t) ==
    /\ messages[t.member] < MaxMessages
    /\ messages' = [messages EXCEPT ![t.member] = @ + 1]
    /\ writes' = writes \ {t}
    /\ UNCHANGED <<assignment, enrolment, standing, problem, session, decisions>>

SendStudentCourseMessage(t) == t.op = "message" /\ Says(t)

SendCourseTeamReply(t) == t.op = "reply" /\ Says(t)

(***************************************************************************)
(* Problem-solving sessions.                                               *)
(***************************************************************************)
BeginAsk(m) ==
    /\ m \in Supporters /\ assignment[m].enabled
    /\ Begins([op |-> "ask", member |-> m])

CreateStudentProblemSolvingRequest(t, q) ==
    /\ t.op = "ask" /\ problem[q] = NoProblem
    /\ problem' = [problem EXCEPT ![q] = [status |-> "submitted", supporter |-> t.member]]
    /\ writes' = writes \ {t}
    /\ UNCHANGED <<assignment, enrolment, standing, messages, session, decisions>>

\* The assignment is read before the transaction, and never again.
BeginDecision(m, q, w, op) ==
    /\ Assigned(m) /\ problem[q] # NoProblem /\ problem[q].supporter = m
    /\ \A t \in decisions : t.window # w
    /\ decisions' = decisions \cup
           {[op |-> op, member |-> m, problem |-> q, window |-> w, checked |-> FALSE]}
    /\ UNCHANGED <<assignment, enrolment, standing, messages, problem, session, writes>>

Undecided(q) == problem[q].status \in {"submitted", "under_review"}

Checks(t) ==
    /\ ~t.checked /\ Entitled
    /\ \/ t.op = "decide" /\ ProblemFree(t.problem) /\ Undecided(t.problem)
       \/ t.op = "meet" /\ session[t.problem] = "scheduled"
    /\ decisions' = (decisions \ {t}) \cup {[t EXCEPT !.checked = TRUE]}
    /\ UNCHANGED <<assignment, enrolment, standing, messages, problem, session, writes>>

DecideSupporterProblemRequest(t, status) ==
    LET q == t.problem IN
    /\ t.op = "decide" /\ t.checked
    /\ status = "under_review" => problem[q].status = "submitted"
    /\ status = "scheduled" => session[q] = "none"
    /\ problem' = [problem EXCEPT ![q].status = status]
    /\ session' = [session EXCEPT ![q] = IF status = "scheduled" THEN "scheduled" ELSE @]
    /\ decisions' = decisions \ {t}
    /\ UNCHANGED <<assignment, enrolment, standing, messages, writes>>

StillScheduled(q) == session[q] = "scheduled"

DecideSupporterSession(t, status) ==
    /\ t.op = "meet" /\ t.checked /\ StillScheduled(t.problem)
    /\ session' = [session EXCEPT ![t.problem] = status]
    /\ decisions' = decisions \ {t}
    /\ UNCHANGED <<assignment, enrolment, standing, messages, problem, writes>>

(***************************************************************************)
(* Everything else.                                                        *)
(***************************************************************************)
\* A refusal or a lost connection.
AbandonWrite(t) ==
    /\ writes' = writes \ {t}
    /\ UNCHANGED <<assignment, enrolment, standing, messages, problem, session, decisions>>

AbandonDecision(t) ==
    /\ decisions' = decisions \ {t}
    /\ UNCHANGED <<assignment, enrolment, standing, messages, problem, session, writes>>

CancelCourseEnrolment ==
    /\ enrolment = "active" /\ writes = {}
    /\ enrolment' = "cancelled"
    /\ UNCHANGED <<assignment, standing, messages, problem, session, writes, decisions>>

StandingChanges ==
    /\ standing' = ~standing
    /\ UNCHANGED <<assignment, enrolment, messages, problem, session, writes, decisions>>

TeamNext ==
    \/ \E m \in Members :
          \/ AssignInstituteCourseTeamMember(m) \/ DeactivateInstituteCourseTeamMember(m)
          \/ \E enabled \in BOOLEAN : SetInstituteCourseTeamSessionRequestPolicy(m, enabled)
          \/ BeginMessage(m) \/ BeginReply(m) \/ BeginAsk(m)
          \/ \E q \in Problems, w \in Windows, op \in {"decide", "meet"} :
                BeginDecision(m, q, w, op)
    \/ \E t \in writes :
          \/ SendStudentCourseMessage(t) \/ SendCourseTeamReply(t) \/ AbandonWrite(t)
          \/ \E q \in Problems : CreateStudentProblemSolvingRequest(t, q)
    \/ \E t \in decisions :
          \/ Checks(t) \/ AbandonDecision(t)
          \/ \E status \in {"under_review", "scheduled", "declined"} :
                DecideSupporterProblemRequest(t, status)
          \/ \E status \in {"held", "cancelled"} : DecideSupporterSession(t, status)
    \/ CancelCourseEnrolment \/ StandingChanges

TeamSpec == TeamInit /\ [][TeamNext]_teamVars
------------------------------------------------------------------------------
(***************************************************************************)
(* Properties.                                                             *)
(***************************************************************************)
\* Every row is of its table; only a supporter takes requests.
TeamTypeOK ==
    /\ assignment \in [Members -> [status : {"none", "active", "inactive"}, enabled : BOOLEAN]]
    /\ \A m \in Members : assignment[m].enabled => Assigned(m) /\ m \in Supporters
    /\ enrolment \in {"active", "cancelled"} /\ standing \in BOOLEAN
    /\ messages \in [Members -> 0..MaxMessages]
    /\ problem \in [Problems -> Problem \cup {NoProblem}]
    /\ session \in [Problems -> {"none", "scheduled", "held", "cancelled"}]
    /\ writes \subseteq TeamWrite /\ decisions \subseteq TeamDecision

\* What two windows of a supporter decide agrees: a request is scheduled exactly
\* if it has a session, so nothing declined is ever held.
SessionsMatchRequests ==
    \A q \in Problems : problem[q].status = "scheduled" <=> session[q] # "none"

\* A message or a request is stored only while the member's assignment and the
\* student's enrolment are in force, whenever they were checked.
WritesWhileAssigned ==
    [][/\ \A m \in Members : messages'[m] # messages[m] =>
             Assigned(m) /\ enrolment = "active"
       /\ \A q \in Problems : problem[q] = NoProblem /\ problem'[q] # NoProblem =>
             assignment[problem'[q].supporter].enabled /\ enrolment = "active"]_teamVars

\* A supporter decides only under an assignment in force at that step.
DecidesWhileAssigned ==
    [][\A q \in Problems :
          (problem[q] # NoProblem /\ problem'[q] # problem[q]) \/ session'[q] # session[q] =>
              Assigned(problem[q].supporter)]_teamVars
================================================================================
