---------------------------- MODULE CourseAuthority ----------------------------
(***************************************************************************)
(* Who may run a course.  A course belongs to a provider, to an independent *)
(* educator affiliated with the institute, or, once that affiliation has   *)
(* been revoked, to the institute.  Its supervision grant is approved by a *)
(* member of the institute who has no part in it.  Students enrol in what  *)
(* is published and supervised.                                            *)
(*                                                                         *)
(* Creating, publishing and enrolling hold the row of the affiliation from *)
(* its check to their end, where they lock the course; revoking holds it   *)
(* until the courses are transferred.                                      *)
(***************************************************************************)
EXTENDS Naturals, FiniteSets

CONSTANTS
    People,         \* who may be a member of the institute
    Educator,       \* the independent educator
    Provider,       \* the member of the provider
    Learners,
    Courses,
    Keys,           \* request ids a client may send
    MaxOpen         \* bound on the transactions at a time

ASSUME PeopleAssumption ==
    /\ {Educator, Provider} \subseteq People /\ Educator # Provider
    /\ MaxOpen \in Nat

Memberships == (People \X {"institute"}) \cup {<<Provider, "provider">>}
               \cup ((Learners \cup {Educator}) \X {"student"})

Nobody == "nobody"
ASSUME NobodyAssumption == Nobody \notin People

Owner == {"provider", "educator", "institute"}
NoCourse == [owner |-> "none"]
Course == [owner : Owner, key : Keys, published : BOOLEAN]
NoGrant == [status |-> "none"]
Grant == [owner : Owner, status : {"requested", "approved", "revoked"},
          requester : People, approver : People \cup {Nobody}]

Transaction ==
    [op : {"create"}, person : {Educator}, key : Keys]
    \cup [op : {"publish"}, person : {Educator}, course : Courses]
    \cup [op : {"revoke"}, person : People]
    \cup [op : {"enroll"}, person : Learners, course : Courses, held : BOOLEAN]

VARIABLES
    active,     \* memberships that are active
    affiliation,\* status of the latest affiliation of the educator
    courses, grants,
    ready,      \* courses with a ready video
    enrolled,   \* status of the enrolment of each student in each course
    open        \* transactions that hold the affiliation or have looked for it

authorityVars == <<active, affiliation, courses, grants, ready, enrolled, open>>

AuthorityInit ==
    /\ active = Memberships
    /\ affiliation = "none"
    /\ courses = [c \in Courses |-> NoCourse]
    /\ grants = [c \in Courses |-> NoGrant]
    /\ ready = {}
    /\ enrolled = [s \in Learners |-> [c \in Courses |-> "none"]]
    /\ open = {}

(***************************************************************************)
(* Who is who.                                                             *)
(***************************************************************************)
Reviews(p) == <<p, "institute">> \in active
InstituteActive == \E p \in People : Reviews(p)

Affiliated == affiliation = "approved"

\* Fault: the affiliation is read without a lock.
AffiliationUnlocked == TRUE

\* The row of the affiliation may be locked for an update.
AffiliationFree == \A t \in open : t.op = "enroll" /\ ~t.held

\* It may be shared.
AffiliationShared == \A t \in open : t.op \in {"publish", "enroll"}

Existing == {c \in Courses : courses[c] # NoCourse}

(***************************************************************************)
(* What a student may see.                                                 *)
(***************************************************************************)
OwnerStands(c) ==
    \/ /\ courses[c].owner = "provider"
       /\ <<Provider, "provider">> \in active /\ Reviews(grants[c].approver)
    \/ courses[c].owner = "educator" /\ Affiliated /\ Reviews(grants[c].approver)
    \/ courses[c].owner = "institute"

ValidSupervision(c) ==
    /\ grants[c].status = "approved" /\ grants[c].owner = courses[c].owner
    /\ InstituteActive
    /\ OwnerStands(c)

ListedFreeCourse(c) ==
    c \in Existing /\ courses[c].published /\ c \in ready /\ ValidSupervision(c)

HasStudentEntitlement(s, c) ==
    /\ enrolled[s][c] = "active" /\ <<s, "student">> \in active
    /\ ListedFreeCourse(c)

(***************************************************************************)
(* The affiliation.                                                        *)
(***************************************************************************)
CreateEducatorAffiliation ==
    /\ <<Educator, "student">> \in active /\ InstituteActive
    /\ affiliation \notin {"requested", "approved"}
    /\ affiliation' = "requested"
    /\ UNCHANGED <<active, courses, grants, ready, enrolled, open>>

DecideEducatorAffiliation(p, standing) ==
    /\ affiliation = "requested" /\ AffiliationFree
    /\ Reviews(p) /\ p # Educator
    /\ affiliation' = standing
    /\ UNCHANGED <<active, courses, grants, ready, enrolled, open>>

WithdrawEducatorAffiliation ==
    /\ affiliation = "requested" /\ AffiliationFree
    /\ affiliation' = "withdrawn"
    /\ UNCHANGED <<active, courses, grants, ready, enrolled, open>>

Joins(t) == Cardinality(open) < MaxOpen /\ open' = open \cup {t}

BeginRevoke(p) ==
    /\ Affiliated /\ AffiliationFree
    /\ Reviews(p) /\ p # Educator
    /\ Joins([op |-> "revoke", person |-> p])
    /\ UNCHANGED <<active, affiliation, courses, grants, ready, enrolled>>

OfEducator == {c \in Existing : courses[c].owner = "educator"}

\* Request ids of the institute's courses are unique; a transfer keeps the id.
TransferableToInstitute ==
    \A c \in OfEducator : \A d \in Existing \ {c} :
        courses[d].owner \in {"educator", "institute"} =>
            courses[d].key # courses[c].key

\* Fault: the grant of a transferred course keeps its owner.
GrantStays(c) == grants[c]

GrantMoves(c) == [grants[c] EXCEPT !.owner = "institute"]

RevokeEducatorAffiliation(t) ==
    /\ t.op = "revoke"
    /\ TransferableToInstitute
    /\ affiliation' = "revoked"
    /\ courses' = [c \in Courses |->
           IF c \in OfEducator THEN [courses[c] EXCEPT !.owner = "institute"]
           ELSE courses[c]]
    /\ grants' = [c \in Courses |-> IF c \in OfEducator THEN GrantMoves(c) ELSE grants[c]]
    /\ open' = open \ {t}
    /\ UNCHANGED <<active, ready, enrolled>>

(***************************************************************************)
(* Courses.                                                                *)
(***************************************************************************)
\* A repeated request finds the course of its key, any other inserts one.
InsertCourse(owner, key, requester) ==
    IF \E c \in Existing : courses[c].owner = owner /\ courses[c].key = key
    THEN UNCHANGED <<courses, grants>>
    ELSE \E c \in Courses \ Existing :
            /\ courses' = [courses EXCEPT ![c] =
                   [owner |-> owner, key |-> key, published |-> FALSE]]
            /\ grants' = [grants EXCEPT ![c] =
                   [owner |-> owner, status |-> "requested", requester |-> requester,
                    approver |-> Nobody]]

CreateSupervisedCourse(key) ==
    /\ <<Provider, "provider">> \in active
    /\ \E p \in People \ {Provider} : Reviews(p)
    /\ InsertCourse("provider", key, Provider)
    /\ UNCHANGED <<active, affiliation, ready, enrolled, open>>

BeginCourse(key) ==
    /\ <<Educator, "student">> \in active
    /\ Affiliated /\ AffiliationFree
    /\ Joins([op |-> "create", person |-> Educator, key |-> key])
    /\ UNCHANGED <<active, affiliation, courses, grants, ready, enrolled>>

CreateIndependentEducatorCourse(t) ==
    /\ t.op = "create"
    /\ InstituteActive
    /\ InsertCourse("educator", t.key, Educator)
    /\ open' = open \ {t}
    /\ UNCHANGED <<active, affiliation, ready, enrolled>>

Unconflicted(c, p) ==
    /\ p # grants[c].requester
    /\ p # (IF courses[c].owner = "provider" THEN Provider ELSE Educator)

DecideCourseSupervision(c, p, status) ==
    /\ c \in Existing /\ courses[c].owner # "institute"
    /\ Reviews(p) /\ Unconflicted(c, p)
    /\ grants[c].status \in (IF status = "approved" THEN {"requested"}
                             ELSE {"requested", "approved"})
    /\ grants' = [grants EXCEPT ![c].status = status,
                                ![c].approver = IF status = "approved" THEN p ELSE Nobody]
    /\ UNCHANGED <<active, affiliation, courses, ready, enrolled, open>>

PublishProviderCourse(c) ==
    /\ c \in Existing /\ courses[c].owner = "provider"
    /\ <<Provider, "provider">> \in active
    /\ grants[c].status = "approved" /\ Reviews(grants[c].approver)
    /\ c \in ready
    /\ courses' = [courses EXCEPT ![c].published = TRUE]
    /\ UNCHANGED <<active, affiliation, grants, ready, enrolled, open>>

BeginPublish(c) ==
    /\ c \in OfEducator
    /\ Affiliated /\ AffiliationShared
    /\ <<Educator, "student">> \in active
    /\ Joins([op |-> "publish", person |-> Educator, course |-> c])
    /\ UNCHANGED <<active, affiliation, courses, grants, ready, enrolled>>

PublishIndependentEducatorCourse(t) ==
    /\ t.op = "publish" /\ t.course \in OfEducator
    /\ grants[t.course].status = "approved" /\ Reviews(grants[t.course].approver)
    /\ t.course \in ready
    /\ courses' = [courses EXCEPT ![t.course].published = TRUE]
    /\ open' = open \ {t}
    /\ UNCHANGED <<active, affiliation, grants, ready, enrolled>>

(***************************************************************************)
(* Enrolments.                                                             *)
(***************************************************************************)
BeginEnrol(s, c) ==
    /\ <<s, "student">> \in active
    /\ c \in Existing
    /\ c \in OfEducator /\ Affiliated => AffiliationShared
    /\ Joins([op |-> "enroll", person |-> s, course |-> c,
              held |-> c \in OfEducator /\ Affiliated])
    /\ UNCHANGED <<active, affiliation, courses, grants, ready, enrolled>>

\* Fault: an educator's course admits students whatever became of the affiliation.
OnceSupervised(t) == courses[t.course].owner = "educator" => Reviews(grants[t.course].approver)

OwnerAdmits(t) ==
    LET c == t.course IN
    \/ /\ courses[c].owner = "provider"
       /\ <<Provider, "provider">> \in active /\ Reviews(grants[c].approver)
    \/ courses[c].owner = "educator" /\ t.held /\ Reviews(grants[c].approver)
    \/ courses[c].owner = "institute"

EnrollFreeCourse(t) ==
    /\ t.op = "enroll"
    /\ courses[t.course].published /\ t.course \in ready
    /\ grants[t.course].status = "approved"
    /\ grants[t.course].owner = courses[t.course].owner
    /\ InstituteActive
    /\ OwnerAdmits(t)
    /\ enrolled[t.person][t.course] # "cancelled"
    /\ enrolled' = [enrolled EXCEPT ![t.person][t.course] = "active"]
    /\ open' = open \ {t}
    /\ UNCHANGED <<active, affiliation, courses, grants, ready>>

CancelCourse(s, c) ==
    /\ enrolled[s][c] = "active"
    /\ enrolled' = [enrolled EXCEPT ![s][c] = "cancelled"]
    /\ UNCHANGED <<active, affiliation, courses, grants, ready, open>>

(***************************************************************************)
(* Everything else.                                                        *)
(***************************************************************************)
\* A refusal, a deadlock the database has broken, or a lost connection.
Abandon(t) ==
    /\ open' = open \ {t}
    /\ UNCHANGED <<active, affiliation, courses, grants, ready, enrolled>>

VideoBecomesReady(c) ==
    /\ c \in Existing
    /\ ready' = ready \cup {c}
    /\ UNCHANGED <<active, affiliation, courses, grants, enrolled, open>>

\* An open transaction has locked the membership of its person.
MembershipChanges(m) ==
    /\ \A t \in open : t.person # m[1]
    /\ active' = IF m \in active THEN active \ {m} ELSE active \cup {m}
    /\ UNCHANGED <<affiliation, courses, grants, ready, enrolled, open>>

AuthorityNext ==
    \/ CreateEducatorAffiliation \/ WithdrawEducatorAffiliation
    \/ \E p \in People :
          \/ \E standing \in {"approved", "rejected"} :
                DecideEducatorAffiliation(p, standing)
          \/ BeginRevoke(p)
          \/ \E c \in Courses, status \in {"approved", "revoked"} :
                DecideCourseSupervision(c, p, status)
    \/ \E key \in Keys : CreateSupervisedCourse(key) \/ BeginCourse(key)
    \/ \E c \in Courses : PublishProviderCourse(c) \/ BeginPublish(c) \/ VideoBecomesReady(c)
    \/ \E s \in Learners, c \in Courses : BeginEnrol(s, c) \/ CancelCourse(s, c)
    \/ \E t \in open :
          \/ RevokeEducatorAffiliation(t) \/ CreateIndependentEducatorCourse(t)
          \/ PublishIndependentEducatorCourse(t) \/ EnrollFreeCourse(t)
          \/ Abandon(t)
    \/ \E m \in Memberships : MembershipChanges(m)

AuthoritySpec == AuthorityInit /\ [][AuthorityNext]_authorityVars
------------------------------------------------------------------------------
(***************************************************************************)
(* Properties.                                                             *)
(***************************************************************************)
\* Every row is of its table.
AuthorityTypeOK ==
    /\ active \subseteq Memberships
    /\ affiliation \in {"none", "requested", "approved", "rejected", "withdrawn", "revoked"}
    /\ courses \in [Courses -> Course \cup {NoCourse}]
    /\ grants \in [Courses -> Grant \cup {NoGrant}]
    /\ ready \subseteq Courses
    /\ enrolled \in [Learners -> [Courses -> {"none", "active", "cancelled"}]]
    /\ open \subseteq Transaction

\* A course and its grant name the same owner, an educator owns courses only while
\* affiliated - no new course escapes a revocation - and whoever approved a grant
\* is neither who asked for it nor of its owner.
CourseHasItsOwner ==
    \A c \in Existing :
        /\ grants[c].owner = courses[c].owner
        /\ courses[c].owner = "educator" => Affiliated
        /\ grants[c].status = "approved" =>
               /\ grants[c].approver \in People \ {grants[c].requester}
               /\ courses[c].owner = "provider" => grants[c].approver # Provider

\* A revocation takes the courses from the educator and from no student: who was
\* entitled before the transfer is entitled after it.  And an enrolment begins under
\* authority: at that very step the course is published and supervised, whatever
\* was revoked, transferred or suspended before.
AccessFollowsAuthority ==
    [][\A s \in Learners, c \in Courses :
          /\ courses'[c].owner # courses[c].owner =>
                (HasStudentEntitlement(s, c) => HasStudentEntitlement(s, c)')
          /\ enrolled[s][c] = "none" /\ enrolled'[s][c] = "active" =>
                HasStudentEntitlement(s, c)']_authorityVars
================================================================================
