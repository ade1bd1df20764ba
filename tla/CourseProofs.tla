----------------------------- MODULE CourseProofs ------------------------------
(***************************************************************************)
(* Proofs about whose a course is, who works on it with whom, and which    *)
(* provider the institute works with: CourseAuthority, CourseTeam and      *)
(* Collaborations.                                                         *)
(***************************************************************************)
EXTENDS CourseAuthority, CourseTeam, Collaborations, FiniteSetTheorems, TLAPS

--------------------------------------------------------------------------------
(***************************************************************************)
(* CourseAuthority, for any people, students, courses, request ids and     *)
(* number of transactions at a time.                                       *)
(***************************************************************************)
\* The transactions that hold the row of the affiliation.
Holds(t) == t.op = "enroll" => t.held

\* An affiliation that is held stands; who creates a course or revokes holds it
\* alone; a student who enrols is a student, in a course that exists.
OpenInv ==
    \A t \in open :
        /\ Holds(t) => Affiliated
        /\ t.op \in {"create", "revoke"} => \A u \in open : Holds(u) => u = t
        /\ t.op = "enroll" => <<t.person, "student">> \in active /\ t.course \in Existing

\* Every course has its grant.
GrantInv == \A c \in Existing : grants[c] \in Grant

AuthorityIInv == AuthorityTypeOK /\ CourseHasItsOwner /\ OpenInv /\ GrantInv

LEMMA AuthorityInitEstablishes == AuthorityInit => AuthorityIInv
<1> SUFFICES ASSUME AuthorityInit PROVE AuthorityIInv
    OBVIOUS
<1>1. AuthorityTypeOK
    BY DEF AuthorityInit, AuthorityTypeOK
<1>2. Existing = {} /\ open = {}
    BY DEF AuthorityInit, Existing
<1> QED
    BY <1>1, <1>2 DEF AuthorityIInv, CourseHasItsOwner, OpenInv, GrantInv

LEMMA CourseRowsAreRecords ==
    ASSUME AuthorityIInv, NEW c \in Existing
    PROVE  c \in Courses /\ courses[c] \in Course /\ grants[c] \in Grant
BY DEF AuthorityIInv, AuthorityTypeOK, GrantInv, Existing

\* Transactions end, and courses never do.
LEMMA OpenShrinks ==
    ASSUME OpenInv, open' \subseteq open, UNCHANGED <<active, affiliation>>,
           Existing \subseteq Existing'
    PROVE  OpenInv'
BY DEF OpenInv, Affiliated, Holds

\* What says who owns a course has not changed.
LEMMA OwnersStay ==
    ASSUME CourseHasItsOwner, GrantInv, UNCHANGED <<affiliation, courses, grants>>
    PROVE  CourseHasItsOwner' /\ GrantInv' /\ Existing' = Existing
BY DEF CourseHasItsOwner, GrantInv, Existing, Affiliated

(***************************************************************************)
(* The affiliation.                                                        *)
(***************************************************************************)
LEMMA AffiliationKeeps ==
    ASSUME AuthorityIInv, ~Affiliated,
           affiliation' \in {"requested", "approved", "rejected", "withdrawn"},
           UNCHANGED <<active, courses, grants, ready, enrolled, open>>
    PROVE  AuthorityIInv'
<1>1. AuthorityTypeOK'
    BY DEF AuthorityIInv, AuthorityTypeOK
<1>2. Existing' = Existing
    BY DEF Existing
<1>3. CourseHasItsOwner' /\ GrantInv'
    BY <1>2 DEF AuthorityIInv, CourseHasItsOwner, GrantInv
<1>4. OpenInv'
    BY <1>2 DEF AuthorityIInv, OpenInv, Holds
<1> QED
    BY <1>1, <1>3, <1>4 DEF AuthorityIInv

LEMMA RevokeKeeps ==
    ASSUME AuthorityIInv, NEW t \in open, RevokeEducatorAffiliation(t)
    PROVE  AuthorityIInv'
<1>1. /\ t.op = "revoke" /\ affiliation' = "revoked" /\ open' = open \ {t}
      /\ courses' = [c \in Courses |->
             IF c \in OfEducator THEN [courses[c] EXCEPT !.owner = "institute"]
             ELSE courses[c]]
      /\ grants' = [c \in Courses |-> IF c \in OfEducator THEN GrantMoves(c) ELSE grants[c]]
      /\ UNCHANGED <<active, ready, enrolled>>
    BY DEF RevokeEducatorAffiliation
<1>2. \A c \in OfEducator :
          /\ c \in Existing /\ courses'[c] \in Course /\ grants'[c] \in Grant
          /\ courses'[c].owner = "institute" /\ grants'[c].owner = "institute"
          /\ grants'[c].status = grants[c].status /\ grants'[c].approver = grants[c].approver
          /\ grants'[c].requester = grants[c].requester
    BY <1>1, CourseRowsAreRecords DEF OfEducator, GrantMoves, Course, Grant, Owner
<1>3. \A c \in Courses \ OfEducator : courses'[c] = courses[c] /\ grants'[c] = grants[c]
    BY <1>1
<1>4. OfEducator \subseteq Existing /\ Existing \subseteq Courses
    BY DEF OfEducator, Existing
<1>5. Existing' = Existing
    <2>1. \A c \in OfEducator : courses'[c] # NoCourse
        BY <1>2 DEF Course, NoCourse, Owner
    <2> QED
        BY <1>3, <1>4, <2>1 DEF Existing
<1>6. AuthorityTypeOK'
    BY <1>1, <1>2, <1>3 DEF AuthorityIInv, AuthorityTypeOK
<1>7. CourseHasItsOwner'
    <2> SUFFICES ASSUME NEW c \in Existing
                 PROVE  /\ grants'[c].owner = courses'[c].owner
                        /\ courses'[c].owner # "educator"
                        /\ grants'[c].status = "approved" =>
                              /\ grants'[c].approver \in People \ {grants'[c].requester}
                              /\ courses'[c].owner = "provider" =>
                                    grants'[c].approver # Provider
        BY <1>5 DEF CourseHasItsOwner
    <2>1. CASE c \in OfEducator
        BY <1>2, <2>1 DEF AuthorityIInv, CourseHasItsOwner
    <2>2. CASE c \notin OfEducator
        BY <1>3, <1>4, <2>2 DEF AuthorityIInv, CourseHasItsOwner, OfEducator
    <2> QED
        BY <2>1, <2>2
<1>8. OpenInv'
    BY <1>1, <1>5 DEF AuthorityIInv, OpenInv, Holds
<1>9. GrantInv'
    BY <1>2, <1>3, <1>4, <1>5 DEF AuthorityIInv, GrantInv
<1> QED
    BY <1>6, <1>7, <1>8, <1>9 DEF AuthorityIInv

(***************************************************************************)
(* Transactions begin and end.                                             *)
(***************************************************************************)
LEMMA JoinKeeps ==
    ASSUME AuthorityIInv, NEW t \in Transaction, open' = open \cup {t},
           UNCHANGED <<active, affiliation, courses, grants, ready, enrolled>>,
           Holds(t) => Affiliated /\ AffiliationShared,
           t.op \in {"create", "revoke"} => AffiliationFree,
           t.op = "enroll" => <<t.person, "student">> \in active /\ t.course \in Existing
    PROVE  AuthorityIInv'
<1>1. AuthorityTypeOK'
    BY DEF AuthorityIInv, AuthorityTypeOK
<1>2. CourseHasItsOwner' /\ GrantInv' /\ Existing' = Existing
    BY OwnersStay DEF AuthorityIInv
<1>3. OpenInv'
    BY <1>2 DEF AuthorityIInv, OpenInv, Holds, Affiliated, AffiliationShared, AffiliationFree
<1> QED
    BY <1>1, <1>2, <1>3 DEF AuthorityIInv

LEMMA BeginTransactionKeeps ==
    ASSUME AuthorityIInv,
           \/ \E p \in People : BeginRevoke(p)
           \/ \E key \in Keys : BeginCourse(key)
           \/ \E c \in Courses : BeginPublish(c)
           \/ \E s \in Learners, c \in Courses : BeginEnrol(s, c)
    PROVE  AuthorityIInv'
<1>1. AffiliationFree => AffiliationShared
    BY DEF AffiliationFree, AffiliationShared
<1>2. ASSUME NEW p \in People, BeginRevoke(p) PROVE AuthorityIInv'
    <2> DEFINE t == [op |-> "revoke", person |-> p]
    <2>1. t \in Transaction /\ t.op = "revoke"
        BY DEF Transaction
    <2>2. open' = open \cup {t} /\ Affiliated /\ AffiliationFree
              /\ UNCHANGED <<active, affiliation, courses, grants, ready, enrolled>>
        BY <1>2 DEF BeginRevoke, Joins
    <2> HIDE DEF t
    <2> QED
        BY <1>1, <2>1, <2>2, JoinKeeps
<1>3. ASSUME NEW key \in Keys, BeginCourse(key) PROVE AuthorityIInv'
    <2> DEFINE t == [op |-> "create", person |-> Educator, key |-> key]
    <2>1. t \in Transaction /\ t.op = "create"
        BY DEF Transaction
    <2>2. open' = open \cup {t} /\ Affiliated /\ AffiliationFree
              /\ UNCHANGED <<active, affiliation, courses, grants, ready, enrolled>>
        BY <1>3 DEF BeginCourse, Joins
    <2> HIDE DEF t
    <2> QED
        BY <1>1, <2>1, <2>2, JoinKeeps
<1>4. ASSUME NEW c \in Courses, BeginPublish(c) PROVE AuthorityIInv'
    <2> DEFINE t == [op |-> "publish", person |-> Educator, course |-> c]
    <2>1. t \in Transaction /\ t.op = "publish"
        BY DEF Transaction
    <2>2. open' = open \cup {t} /\ Affiliated /\ AffiliationShared
              /\ UNCHANGED <<active, affiliation, courses, grants, ready, enrolled>>
        BY <1>4 DEF BeginPublish, Joins
    <2> HIDE DEF t
    <2> QED
        BY <2>1, <2>2, JoinKeeps
<1>5. ASSUME NEW s \in Learners, NEW c \in Courses, BeginEnrol(s, c) PROVE AuthorityIInv'
    <2> DEFINE t == [op |-> "enroll", person |-> s, course |-> c,
                     held |-> c \in OfEducator /\ Affiliated]
    <2>1. /\ t \in Transaction /\ t.op = "enroll" /\ t.person = s /\ t.course = c
          /\ t.held = (c \in OfEducator /\ Affiliated)
        BY DEF Transaction
    <2>2. /\ open' = open \cup {t} /\ <<s, "student">> \in active /\ c \in Existing
          /\ c \in OfEducator /\ Affiliated => AffiliationShared
          /\ UNCHANGED <<active, affiliation, courses, grants, ready, enrolled>>
        BY <1>5 DEF BeginEnrol, Joins
    <2> HIDE DEF t
    <2>3. Holds(t) => Affiliated /\ AffiliationShared
        BY <2>1, <2>2 DEF Holds
    <2> QED
        BY <2>1, <2>2, <2>3, JoinKeeps
<1> QED
    BY <1>2, <1>3, <1>4, <1>5

LEMMA EndKeeps ==
    ASSUME AuthorityIInv, NEW t \in open,
           UNCHANGED <<active, affiliation, courses, grants, ready>>,
           open' \subseteq open,
           enrolled' \in [Learners -> [Courses -> {"none", "active", "cancelled"}]]
    PROVE  AuthorityIInv'
<1>1. AuthorityTypeOK'
    BY DEF AuthorityIInv, AuthorityTypeOK
<1>2. CourseHasItsOwner' /\ GrantInv' /\ Existing' = Existing
    BY OwnersStay DEF AuthorityIInv
<1> QED
    BY <1>1, <1>2, OpenShrinks DEF AuthorityIInv

(***************************************************************************)
(* Courses.                                                                *)
(***************************************************************************)
LEMMA InsertKeeps ==
    ASSUME AuthorityIInv, NEW owner \in {"provider", "educator"}, NEW key \in Keys,
           NEW requester \in People, InsertCourse(owner, key, requester),
           owner = "educator" => Affiliated,
           open' \subseteq open, UNCHANGED <<active, affiliation, ready, enrolled>>
    PROVE  AuthorityIInv'
<1>1. CASE UNCHANGED <<courses, grants>>
    <2>1. CourseHasItsOwner' /\ GrantInv' /\ Existing' = Existing
        BY <1>1, OwnersStay DEF AuthorityIInv
    <2>2. AuthorityTypeOK'
        BY <1>1 DEF AuthorityIInv, AuthorityTypeOK
    <2> QED
        BY <2>1, <2>2, OpenShrinks DEF AuthorityIInv
<1>2. ASSUME NEW c \in Courses \ Existing,
             courses' = [courses EXCEPT ![c] =
                 [owner |-> owner, key |-> key, published |-> FALSE]],
             grants' = [grants EXCEPT ![c] =
                 [owner |-> owner, status |-> "requested", requester |-> requester,
                  approver |-> Nobody]]
      PROVE  AuthorityIInv'
    <2> DEFINE row == [owner |-> owner, key |-> key, published |-> FALSE]
               grant == [owner |-> owner, status |-> "requested", requester |-> requester,
                         approver |-> Nobody]
    <2>1. row \in Course /\ row # NoCourse /\ row.owner = owner
        BY DEF Course, Owner, NoCourse
    <2>2. grant \in Grant /\ grant.owner = owner /\ grant.status = "requested"
        BY DEF Grant, Owner
    <2> HIDE DEF row, grant
    <2>3. courses' = [courses EXCEPT ![c] = row] /\ grants' = [grants EXCEPT ![c] = grant]
        BY <1>2 DEF row, grant
    <2>4. \A d \in Courses : /\ courses'[d] = IF d = c THEN row ELSE courses[d]
                             /\ grants'[d] = IF d = c THEN grant ELSE grants[d]
        BY <2>3 DEF AuthorityIInv, AuthorityTypeOK
    <2>5. Existing' = Existing \cup {c} /\ Existing \subseteq Courses
        BY <2>1, <2>4 DEF Existing
    <2>6. AuthorityTypeOK'
        BY <2>1, <2>2, <2>3 DEF AuthorityIInv, AuthorityTypeOK
    <2>7. CourseHasItsOwner'
        BY <2>1, <2>2, <2>4, <2>5 DEF AuthorityIInv, CourseHasItsOwner, Affiliated
    <2>8. GrantInv'
        BY <2>2, <2>4, <2>5 DEF AuthorityIInv, GrantInv
    <2>9. OpenInv'
        BY <2>5, OpenShrinks DEF AuthorityIInv
    <2> QED
        BY <2>6, <2>7, <2>8, <2>9 DEF AuthorityIInv
<1> QED
    BY <1>1, <1>2 DEF InsertCourse

LEMMA CreateCourseKeeps ==
    ASSUME AuthorityIInv,
           \/ \E key \in Keys : CreateSupervisedCourse(key)
           \/ \E t \in open : CreateIndependentEducatorCourse(t)
    PROVE  AuthorityIInv'
<1>1. ASSUME NEW key \in Keys, CreateSupervisedCourse(key) PROVE AuthorityIInv'
    BY <1>1, InsertKeeps, PeopleAssumption DEF CreateSupervisedCourse
<1>2. ASSUME NEW t \in open, CreateIndependentEducatorCourse(t) PROVE AuthorityIInv'
    <2>1. /\ t.op = "create" /\ InsertCourse("educator", t.key, Educator)
          /\ open' = open \ {t} /\ UNCHANGED <<active, affiliation, ready, enrolled>>
        BY <1>2 DEF CreateIndependentEducatorCourse
    <2>2. t.key \in Keys /\ Affiliated
        BY <2>1 DEF AuthorityIInv, AuthorityTypeOK, Transaction, OpenInv, Holds
    <2> QED
        BY <2>1, <2>2, InsertKeeps, PeopleAssumption
<1> QED
    BY <1>1, <1>2

LEMMA DecideSupervisionKeeps ==
    ASSUME AuthorityIInv, NEW c \in Courses, NEW p \in People, NEW status \in {"approved", "revoked"},
           DecideCourseSupervision(c, p, status)
    PROVE  AuthorityIInv'
<1> DEFINE row == [grants[c] EXCEPT !.status = status,
                       !.approver = IF status = "approved" THEN p ELSE Nobody]
<1>1. c \in Existing /\ grants[c] \in Grant
    BY CourseRowsAreRecords DEF DecideCourseSupervision
<1>2. /\ Unconflicted(c, p)
      /\ grants' = [grants EXCEPT ![c].status = status,
                        ![c].approver = IF status = "approved" THEN p ELSE Nobody]
      /\ UNCHANGED <<active, affiliation, courses, ready, enrolled, open>>
    BY DEF DecideCourseSupervision
<1>3. grants' = [grants EXCEPT ![c] = row]
    BY <1>1, <1>2 DEF AuthorityIInv, AuthorityTypeOK, Grant
<1>4. /\ row \in Grant /\ row.owner = grants[c].owner /\ row.requester = grants[c].requester
      /\ row.status = "approved" => row.approver = p
    BY <1>1 DEF Grant
<1> HIDE DEF row
<1>5. \A d \in Courses : grants'[d] = IF d = c THEN row ELSE grants[d]
    BY <1>3 DEF AuthorityIInv, AuthorityTypeOK
<1>6. Existing' = Existing /\ Existing \subseteq Courses
    BY <1>2 DEF Existing
<1>7. AuthorityTypeOK'
    BY <1>2, <1>3, <1>4 DEF AuthorityIInv, AuthorityTypeOK
<1>8. CourseHasItsOwner'
    <2>1. row.status = "approved" =>
              /\ row.approver \in People \ {row.requester}
              /\ courses[c].owner = "provider" => row.approver # Provider
        BY <1>2, <1>4 DEF Unconflicted
    <2>2. courses' = courses /\ Affiliated' = Affiliated
        BY <1>2 DEF Affiliated
    <2> SUFFICES ASSUME NEW d \in Existing
                 PROVE  /\ grants'[d].owner = courses[d].owner
                        /\ courses[d].owner = "educator" => Affiliated
                        /\ grants'[d].status = "approved" =>
                              /\ grants'[d].approver \in People \ {grants'[d].requester}
                              /\ courses[d].owner = "provider" =>
                                    grants'[d].approver # Provider
        BY <1>6, <2>2 DEF CourseHasItsOwner
    <2>3. CASE d = c
        BY <1>1, <1>4, <1>5, <1>6, <2>1, <2>3 DEF AuthorityIInv, CourseHasItsOwner
    <2>4. CASE d # c
        BY <1>5, <1>6, <2>4 DEF AuthorityIInv, CourseHasItsOwner
    <2> QED
        BY <2>3, <2>4
<1>9. GrantInv'
    BY <1>4, <1>5, <1>6 DEF AuthorityIInv, GrantInv
<1>10. OpenInv'
    BY <1>2, <1>6, OpenShrinks DEF AuthorityIInv
<1> QED
    BY <1>7, <1>8, <1>9, <1>10 DEF AuthorityIInv

LEMMA PublishKeeps ==
    ASSUME AuthorityIInv,
           \/ \E c \in Courses : PublishProviderCourse(c)
           \/ \E t \in open : PublishIndependentEducatorCourse(t)
    PROVE  AuthorityIInv'
<1>1. PICK c \in Existing :
          /\ courses' = [courses EXCEPT ![c].published = TRUE] /\ open' \subseteq open
          /\ UNCHANGED <<active, affiliation, grants, ready, enrolled>>
    BY DEF PublishProviderCourse, PublishIndependentEducatorCourse, OfEducator
<1> DEFINE row == [courses[c] EXCEPT !.published = TRUE]
<1>2. c \in Courses /\ courses[c] \in Course
    BY CourseRowsAreRecords
<1>3. row \in Course /\ row # NoCourse /\ row.owner = courses[c].owner
    BY <1>2 DEF Course, NoCourse, Owner
<1>4. courses' = [courses EXCEPT ![c] = row]
    BY <1>1
<1> HIDE DEF row
<1>5. \A d \in Courses : courses'[d] = IF d = c THEN row ELSE courses[d]
    BY <1>4 DEF AuthorityIInv, AuthorityTypeOK
<1>6. Existing' = Existing /\ Existing \subseteq Courses
    BY <1>2, <1>3, <1>5 DEF Existing
<1>7. AuthorityTypeOK'
    BY <1>1, <1>3, <1>4 DEF AuthorityIInv, AuthorityTypeOK
<1>8. CourseHasItsOwner'
    BY <1>1, <1>3, <1>5, <1>6 DEF AuthorityIInv, CourseHasItsOwner, Affiliated
<1>9. GrantInv'
    BY <1>1, <1>6 DEF AuthorityIInv, GrantInv
<1>10. OpenInv'
    BY <1>1, <1>6, OpenShrinks DEF AuthorityIInv
<1> QED
    BY <1>7, <1>8, <1>9, <1>10 DEF AuthorityIInv

(***************************************************************************)
(* Enrolments, videos and memberships.                                     *)
(***************************************************************************)
LEMMA EnrolmentKeeps ==
    ASSUME AuthorityIInv,
           \/ \E t \in open : EnrollFreeCourse(t)
           \/ \E s \in Learners, c \in Courses : CancelCourse(s, c)
    PROVE  AuthorityIInv'
<1>1. open' \subseteq open /\ UNCHANGED <<active, affiliation, courses, grants, ready>>
    BY DEF EnrollFreeCourse, CancelCourse
<1>2. enrolled' \in [Learners -> [Courses -> {"none", "active", "cancelled"}]]
    <2>1. ASSUME NEW s \in Learners, NEW c \in Courses, NEW status \in {"active", "cancelled"},
                 enrolled' = [enrolled EXCEPT ![s][c] = status]
          PROVE  enrolled' \in [Learners -> [Courses -> {"none", "active", "cancelled"}]]
        BY <2>1 DEF AuthorityIInv, AuthorityTypeOK
    <2>2. ASSUME NEW t \in open, t.op = "enroll"
          PROVE  t.person \in Learners /\ t.course \in Courses
        BY <2>2 DEF AuthorityIInv, AuthorityTypeOK, Transaction
    <2> QED
        BY <2>1, <2>2 DEF EnrollFreeCourse, CancelCourse
<1>3. AuthorityTypeOK'
    BY <1>1, <1>2 DEF AuthorityIInv, AuthorityTypeOK
<1>4. CourseHasItsOwner' /\ GrantInv' /\ Existing' = Existing
    BY <1>1, OwnersStay DEF AuthorityIInv
<1> QED
    BY <1>1, <1>3, <1>4, OpenShrinks DEF AuthorityIInv

LEMMA AuthoritySurroundingsKeep ==
    ASSUME AuthorityIInv,
           \/ \E t \in open : Abandon(t)
           \/ \E c \in Courses : VideoBecomesReady(c)
    PROVE  AuthorityIInv'
<1>1. /\ open' \subseteq open /\ ready' \subseteq Courses
      /\ UNCHANGED <<active, affiliation, courses, grants, enrolled>>
    BY DEF Abandon, VideoBecomesReady, AuthorityIInv, AuthorityTypeOK
<1>2. AuthorityTypeOK'
    BY <1>1 DEF AuthorityIInv, AuthorityTypeOK
<1>3. CourseHasItsOwner' /\ GrantInv' /\ Existing' = Existing
    BY <1>1, OwnersStay DEF AuthorityIInv
<1> QED
    BY <1>1, <1>2, <1>3, OpenShrinks DEF AuthorityIInv

LEMMA MembershipKeeps ==
    ASSUME AuthorityIInv, NEW m \in Memberships, MembershipChanges(m)
    PROVE  AuthorityIInv'
<1>1. /\ \A t \in open : t.person # m[1]
      /\ active' = IF m \in active THEN active \ {m} ELSE active \cup {m}
      /\ UNCHANGED <<affiliation, courses, grants, ready, enrolled, open>>
    BY DEF MembershipChanges
<1>2. AuthorityTypeOK'
    BY <1>1 DEF AuthorityIInv, AuthorityTypeOK
<1>3. CourseHasItsOwner' /\ GrantInv' /\ Existing' = Existing
    BY <1>1, OwnersStay DEF AuthorityIInv
<1>4. \A t \in open : <<t.person, "student">> \in active => <<t.person, "student">> \in active'
    BY <1>1
<1>5. OpenInv'
    BY <1>1, <1>3, <1>4 DEF AuthorityIInv, OpenInv, Holds, Affiliated
<1> QED
    BY <1>2, <1>3, <1>5 DEF AuthorityIInv

LEMMA AuthorityStepKeeps == AuthorityIInv /\ [AuthorityNext]_authorityVars => AuthorityIInv'
<1> SUFFICES ASSUME AuthorityIInv, [AuthorityNext]_authorityVars PROVE AuthorityIInv'
    OBVIOUS
<1>1. CASE UNCHANGED authorityVars
    BY <1>1 DEF authorityVars, AuthorityIInv, AuthorityTypeOK, CourseHasItsOwner, OpenInv, GrantInv,
                Holds, Affiliated, Existing
<1>2. CASE CreateEducatorAffiliation
    BY <1>2, AffiliationKeeps DEF CreateEducatorAffiliation, Affiliated
<1>3. CASE WithdrawEducatorAffiliation
    BY <1>3, AffiliationKeeps DEF WithdrawEducatorAffiliation, Affiliated
<1>4. ASSUME NEW p \in People, NEW decided \in {"approved", "rejected"},
             DecideEducatorAffiliation(p, decided)
      PROVE  AuthorityIInv'
    BY <1>4, AffiliationKeeps DEF DecideEducatorAffiliation, Affiliated
<1>5. CASE AuthorityNext
    BY <1>2, <1>3, <1>4, <1>5, RevokeKeeps, BeginTransactionKeeps, CreateCourseKeeps, DecideSupervisionKeeps,
       PublishKeeps, EnrolmentKeeps, AuthoritySurroundingsKeep, MembershipKeeps DEF AuthorityNext
<1> QED
    BY <1>1, <1>5

LEMMA AuthorityInductive == AuthoritySpec => []AuthorityIInv
BY AuthorityInitEstablishes, AuthorityStepKeeps, PTL DEF AuthoritySpec

\* Whatever is created, transferred, revoked and suspended at the same time, no course
\* of an educator survives the affiliation, and whoever approved a course had no part
\* in it (src/src/server/courses/workflow.ts, src/server/independent-educators).
THEOREM CoursesHaveOwners == AuthoritySpec => []CourseHasItsOwner
<1>1. AuthorityIInv => CourseHasItsOwner
    BY DEF AuthorityIInv
<1> QED
    BY <1>1, AuthorityInductive, PTL

\* A transfer takes a course from no student, and an enrolment begins only in a course
\* that is published and supervised at that step: the student's membership and, for an
\* educator's course, the affiliation have been held since they were checked
\* (src/src/server/student/enroll.ts, src/server/independent-educators/affiliations.ts).
THEOREM AccessIsAuthorized == AuthoritySpec => AccessFollowsAuthority
<1> DEFINE Allowed(s, c) ==
        /\ courses'[c].owner # courses[c].owner =>
              (HasStudentEntitlement(s, c) => HasStudentEntitlement(s, c)')
        /\ enrolled[s][c] = "none" /\ enrolled'[s][c] = "active" =>
              HasStudentEntitlement(s, c)'
<1>1. ASSUME AuthorityIInv, AuthorityNext, NEW s \in Learners, NEW c \in Courses
      PROVE  Allowed(s, c)
    <2>1. CASE UNCHANGED <<courses, enrolled>>
        BY <2>1
    <2>2. ASSUME NEW t \in open, RevokeEducatorAffiliation(t) PROVE Allowed(s, c)
        <3>1. /\ courses'[c] = IF c \in OfEducator THEN [courses[c] EXCEPT !.owner = "institute"]
                               ELSE courses[c]
              /\ grants'[c] = IF c \in OfEducator THEN GrantMoves(c) ELSE grants[c]
              /\ UNCHANGED <<active, ready, enrolled>>
            BY <2>2 DEF RevokeEducatorAffiliation
        <3>2. ASSUME c \in OfEducator, HasStudentEntitlement(s, c)
              PROVE  HasStudentEntitlement(s, c)'
            <4>1. courses[c] \in Course /\ grants[c] \in Grant
                BY <1>1, <3>2, CourseRowsAreRecords DEF OfEducator
            <4>2. /\ courses'[c].owner = "institute" /\ grants'[c].owner = "institute"
                  /\ courses'[c].published = courses[c].published
                  /\ grants'[c].status = grants[c].status /\ courses'[c] # NoCourse
                BY <3>1, <3>2, <4>1 DEF GrantMoves, Course, Grant, NoCourse
            <4>3. ListedFreeCourse(c)'
                BY <3>1, <3>2, <4>2 DEF HasStudentEntitlement, ListedFreeCourse,
                   ValidSupervision, OwnerStands, InstituteActive, Reviews, Existing
            <4> QED
                BY <3>1, <3>2, <4>3 DEF HasStudentEntitlement
        <3> QED
            BY <3>1, <3>2
    <2>3. ASSUME NEW owner, NEW key, NEW requester, InsertCourse(owner, key, requester),
                 UNCHANGED enrolled
          PROVE  Allowed(s, c)
        <3>1. c \in Existing => courses'[c] = courses[c]
            BY <1>1, <2>3 DEF InsertCourse, AuthorityIInv, AuthorityTypeOK, Existing
        <3> QED
            BY <2>3, <3>1 DEF HasStudentEntitlement, ListedFreeCourse
    <2>4. ASSUME NEW d \in Courses, courses' = [courses EXCEPT ![d].published = TRUE],
                 d \in Existing, UNCHANGED enrolled
          PROVE  Allowed(s, c)
        <3>1. courses'[c].owner = courses[c].owner
            BY <1>1, <2>4, CourseRowsAreRecords DEF AuthorityIInv, AuthorityTypeOK, Course
        <3> QED
            BY <2>4, <3>1
    <2>5. ASSUME NEW t \in open, EnrollFreeCourse(t) PROVE Allowed(s, c)
        <3>1. t.person \in Learners /\ t.course \in Courses /\ t.op = "enroll"
            BY <1>1, <2>5 DEF AuthorityIInv, AuthorityTypeOK, Transaction, EnrollFreeCourse
        <3>2. enrolled' = [enrolled EXCEPT ![t.person][t.course] = "active"]
                  /\ UNCHANGED <<active, affiliation, courses, grants, ready>>
            BY <2>5 DEF EnrollFreeCourse
        <3>3. enrolled'[s][c] # enrolled[s][c] => s = t.person /\ c = t.course
            BY <1>1, <3>1, <3>2 DEF AuthorityIInv, AuthorityTypeOK
        <3>4. enrolled'[t.person][t.course] = "active"
            BY <1>1, <3>1, <3>2 DEF AuthorityIInv, AuthorityTypeOK
        <3>5. <<t.person, "student">> \in active /\ t.course \in Existing
                  /\ (t.held => Affiliated)
            BY <1>1, <3>1 DEF AuthorityIInv, OpenInv, Holds
        <3>6. ListedFreeCourse(t.course)
            BY <2>5, <3>5 DEF EnrollFreeCourse, ListedFreeCourse, ValidSupervision,
               OwnerAdmits, OwnerStands
        <3>7. ListedFreeCourse(t.course)'
            BY <3>2, <3>6 DEF ListedFreeCourse, ValidSupervision, OwnerStands,
               InstituteActive, Reviews, Affiliated, Existing
        <3>8. HasStudentEntitlement(t.person, t.course)'
            BY <3>2, <3>4, <3>5, <3>7 DEF HasStudentEntitlement
        <3> QED
            BY <3>2, <3>3, <3>8
    <2>6. ASSUME NEW r \in Learners, NEW d \in Courses, CancelCourse(r, d)
          PROVE  Allowed(s, c)
        <3>1. enrolled'[s][c] \in {enrolled[s][c], "cancelled"} /\ UNCHANGED courses
            BY <1>1, <2>6 DEF CancelCourse, AuthorityIInv, AuthorityTypeOK
        <3> QED
            BY <3>1
    <2>7. (\E key \in Keys : CreateSupervisedCourse(key)) => Allowed(s, c)
        BY <2>3 DEF CreateSupervisedCourse
    <2>8. (\E t \in open : CreateIndependentEducatorCourse(t)) => Allowed(s, c)
        BY <2>3 DEF CreateIndependentEducatorCourse
    <2>9. (\E d \in Courses : PublishProviderCourse(d)) => Allowed(s, c)
        BY <2>4 DEF PublishProviderCourse
    <2>10. (\E t \in open : PublishIndependentEducatorCourse(t)) => Allowed(s, c)
        BY <2>4 DEF PublishIndependentEducatorCourse, OfEducator, Existing
    <2> HIDE DEF Allowed
    <2> QED
        BY <1>1, <2>1, <2>2, <2>5, <2>6, <2>7, <2>8, <2>9, <2>10
           DEF AuthorityNext, CreateEducatorAffiliation, WithdrawEducatorAffiliation,
               DecideEducatorAffiliation, BeginRevoke, DecideCourseSupervision, BeginCourse,
               BeginPublish, VideoBecomesReady, BeginEnrol, Abandon, MembershipChanges
<1>2. AuthorityIInv /\ [AuthorityNext]_authorityVars =>
          [\A s \in Learners, c \in Courses : Allowed(s, c)]_authorityVars
    BY <1>1
<1> QED
    BY <1>2, AuthorityInductive, PTL DEF AuthoritySpec, AccessFollowsAuthority

--------------------------------------------------------------------------------
(***************************************************************************)
(* CourseTeam, for any number of members, requests, windows and messages.  *)
(***************************************************************************)
\* What a message or a request has checked stays true until it commits: it holds
\* the rows of the assignment and of the enrolment.
WritesHold ==
    \A t \in writes :
        /\ Assigned(t.member) /\ enrolment = "active"
        /\ t.op = "ask" => t.member \in Supporters /\ assignment[t.member].enabled

\* A decision that has checked its request holds it, alone, and undecided.
DecisionsHold ==
    \A t \in decisions :
        t.op = "decide" /\ t.checked =>
            /\ Undecided(t.problem)
            /\ \A u \in decisions :
                  u.op = "decide" /\ u.checked /\ u.problem = t.problem => u = t

TeamIInv == TeamTypeOK /\ WritesHold /\ DecisionsHold /\ SessionsMatchRequests

LEMMA TeamInitEstablishes == TeamInit => TeamIInv
<1> SUFFICES ASSUME TeamInit PROVE TeamIInv
    OBVIOUS
<1>1. 0 \in 0..MaxMessages
    BY TeamAssumption
<1>2. TeamTypeOK
    BY <1>1 DEF TeamInit, TeamTypeOK, Assigned
<1>3. WritesHold /\ DecisionsHold /\ SessionsMatchRequests
    BY DEF TeamInit, WritesHold, DecisionsHold, SessionsMatchRequests, NoProblem
<1> QED
    BY <1>2, <1>3 DEF TeamIInv

(***************************************************************************)
(* The institute, and what changes elsewhere.                              *)
(***************************************************************************)
\* The assignment of one member changes, which no write shares.
LEMMA AssignmentKeeps ==
    ASSUME TeamIInv, NEW m \in Members, AssignmentFree(m),
           NEW row \in [status : {"none", "active", "inactive"}, enabled : BOOLEAN],
           row.enabled => row.status = "active" /\ m \in Supporters,
           assignment' = [assignment EXCEPT ![m] = row],
           UNCHANGED <<enrolment, standing, messages, problem, session, writes, decisions>>
    PROVE  TeamIInv'
<1>1. \A n \in Members : assignment'[n] = IF n = m THEN row ELSE assignment[n]
    BY DEF TeamIInv, TeamTypeOK
<1>2. TeamTypeOK'
    BY <1>1 DEF TeamIInv, TeamTypeOK, Assigned
<1>3. WritesHold'
    <2> SUFFICES ASSUME NEW t \in writes
                 PROVE  /\ Assigned(t.member)' /\ enrolment = "active"
                        /\ t.op = "ask" => t.member \in Supporters
                                           /\ assignment'[t.member].enabled
        BY DEF WritesHold
    <2>1. t.member \in Members /\ t.member # m
        BY DEF TeamIInv, TeamTypeOK, TeamWrite, AssignmentFree
    <2> QED
        BY <1>1, <2>1 DEF TeamIInv, WritesHold, Assigned
<1>4. DecisionsHold' /\ SessionsMatchRequests'
    BY DEF TeamIInv, DecisionsHold, SessionsMatchRequests, Undecided
<1> QED
    BY <1>2, <1>3, <1>4 DEF TeamIInv

LEMMA InstituteKeeps ==
    ASSUME TeamIInv, NEW m \in Members,
           \/ AssignInstituteCourseTeamMember(m)
           \/ DeactivateInstituteCourseTeamMember(m)
           \/ \E enabled \in BOOLEAN : SetInstituteCourseTeamSessionRequestPolicy(m, enabled)
    PROVE  TeamIInv'
<1>1. CASE AssignInstituteCourseTeamMember(m)
    <2> DEFINE row == [status |-> "active", enabled |-> FALSE]
    <2>1. row \in [status : {"none", "active", "inactive"}, enabled : BOOLEAN]
        OBVIOUS
    <2> QED
        BY <1>1, <2>1, AssignmentKeeps DEF AssignInstituteCourseTeamMember
<1>2. CASE DeactivateInstituteCourseTeamMember(m)
    <2> DEFINE row == [status |-> "inactive", enabled |-> FALSE]
    <2>1. row \in [status : {"none", "active", "inactive"}, enabled : BOOLEAN]
        OBVIOUS
    <2> QED
        BY <1>2, <2>1, AssignmentKeeps DEF DeactivateInstituteCourseTeamMember
<1>3. ASSUME NEW enabled \in BOOLEAN, SetInstituteCourseTeamSessionRequestPolicy(m, enabled)
      PROVE  TeamIInv'
    <2> DEFINE row == [assignment[m] EXCEPT !.enabled = enabled]
    <2>1. assignment[m] \in [status : {"none", "active", "inactive"}, enabled : BOOLEAN]
              /\ assignment[m].status = "active" /\ m \in Supporters
        BY <1>3 DEF TeamIInv, TeamTypeOK, SetInstituteCourseTeamSessionRequestPolicy, Assigned
    <2>2. row \in [status : {"none", "active", "inactive"}, enabled : BOOLEAN]
              /\ row.status = "active"
        BY <2>1
    <2>3. assignment' = [assignment EXCEPT ![m] = row] /\ AssignmentFree(m)
              /\ UNCHANGED <<enrolment, standing, messages, problem, session, writes, decisions>>
        BY <1>3 DEF SetInstituteCourseTeamSessionRequestPolicy
    <2> HIDE DEF row
    <2> QED
        BY <2>1, <2>2, <2>3, AssignmentKeeps
<1> QED
    BY <1>1, <1>2, <1>3

LEMMA TeamSurroundingsKeep ==
    ASSUME TeamIInv, CancelCourseEnrolment \/ StandingChanges
    PROVE  TeamIInv'
<1>1. TeamTypeOK'
    BY DEF TeamIInv, TeamTypeOK, CancelCourseEnrolment, StandingChanges, Assigned
<1>2. WritesHold'
    BY DEF TeamIInv, WritesHold, CancelCourseEnrolment, StandingChanges, Assigned
<1>3. DecisionsHold' /\ SessionsMatchRequests'
    BY DEF TeamIInv, DecisionsHold, SessionsMatchRequests, Undecided,
           CancelCourseEnrolment, StandingChanges
<1> QED
    BY <1>1, <1>2, <1>3 DEF TeamIInv

(***************************************************************************)
(* Messages and requests.                                                  *)
(***************************************************************************)
LEMMA BeginWriteKeeps ==
    ASSUME TeamIInv, NEW m \in Members, BeginMessage(m) \/ BeginReply(m) \/ BeginAsk(m)
    PROVE  TeamIInv'
<1>1. PICK op \in {"message", "reply", "ask"} :
          /\ Begins([op |-> op, member |-> m])
          /\ op = "ask" => m \in Supporters /\ assignment[m].enabled
    BY DEF BeginMessage, BeginReply, BeginAsk
<1> DEFINE t == [op |-> op, member |-> m]
<1>2. /\ t \in TeamWrite /\ t.member = m /\ t.op = op
      /\ Assigned(m) /\ enrolment = "active" /\ writes' = writes \cup {t}
      /\ UNCHANGED <<assignment, enrolment, standing, messages, problem, session, decisions>>
    BY <1>1 DEF TeamWrite, Begins, Entitled
<1> HIDE DEF t
<1>3. TeamTypeOK'
    BY <1>2 DEF TeamIInv, TeamTypeOK, Assigned
<1>4. WritesHold'
    BY <1>1, <1>2 DEF TeamIInv, WritesHold, Assigned
<1>5. DecisionsHold' /\ SessionsMatchRequests'
    BY <1>2 DEF TeamIInv, DecisionsHold, SessionsMatchRequests, Undecided
<1> QED
    BY <1>3, <1>4, <1>5 DEF TeamIInv

LEMMA SaysKeeps ==
    ASSUME TeamIInv, NEW t \in writes,
           SendStudentCourseMessage(t) \/ SendCourseTeamReply(t) \/ AbandonWrite(t)
    PROVE  TeamIInv'
<1>1. t.member \in Members
    BY DEF TeamIInv, TeamTypeOK, TeamWrite
<1>2. messages' \in [Members -> 0..MaxMessages]
    <2>1. CASE Says(t)
        <3>1. messages[t.member] + 1 \in 0..MaxMessages
            BY <1>1, <2>1, TeamAssumption DEF TeamIInv, TeamTypeOK, Says
        <3> QED
            BY <1>1, <2>1, <3>1 DEF TeamIInv, TeamTypeOK, Says
    <2> QED
        BY <2>1 DEF SendStudentCourseMessage, SendCourseTeamReply, AbandonWrite, TeamIInv,
                    TeamTypeOK
<1>3. writes' = writes \ {t}
          /\ UNCHANGED <<assignment, enrolment, standing, problem, session, decisions>>
    BY DEF SendStudentCourseMessage, SendCourseTeamReply, Says, AbandonWrite
<1>4. TeamTypeOK'
    BY <1>2, <1>3 DEF TeamIInv, TeamTypeOK, Assigned
<1>5. WritesHold' /\ DecisionsHold' /\ SessionsMatchRequests'
    BY <1>3 DEF TeamIInv, WritesHold, DecisionsHold, SessionsMatchRequests, Undecided, Assigned
<1> QED
    BY <1>4, <1>5 DEF TeamIInv

LEMMA CreateRequestKeeps ==
    ASSUME TeamIInv, NEW t \in writes, NEW q \in Problems, CreateStudentProblemSolvingRequest(t, q)
    PROVE  TeamIInv'
<1> DEFINE row == [status |-> "submitted", supporter |-> t.member]
<1>1. /\ t.op = "ask" /\ problem[q] = NoProblem /\ problem' = [problem EXCEPT ![q] = row]
      /\ writes' = writes \ {t}
      /\ UNCHANGED <<assignment, enrolment, standing, messages, session, decisions>>
    BY DEF CreateStudentProblemSolvingRequest
<1>2. row \in Problem /\ row.status = "submitted"
    BY <1>1 DEF TeamIInv, WritesHold, Problem
<1> HIDE DEF row
<1>3. \A p \in Problems : problem'[p] = IF p = q THEN row ELSE problem[p]
    BY <1>1 DEF TeamIInv, TeamTypeOK
<1>4. TeamTypeOK'
    BY <1>1, <1>2 DEF TeamIInv, TeamTypeOK, Assigned
<1>5. WritesHold'
    BY <1>1 DEF TeamIInv, WritesHold, Assigned
<1>6. \A u \in decisions : u.problem \in Problems
    BY DEF TeamIInv, TeamTypeOK, TeamDecision
<1>7. DecisionsHold'
    BY <1>1, <1>2, <1>3, <1>6 DEF TeamIInv, DecisionsHold, Undecided
<1>8. SessionsMatchRequests'
    BY <1>1, <1>2, <1>3 DEF TeamIInv, SessionsMatchRequests, NoProblem
<1> QED
    BY <1>4, <1>5, <1>7, <1>8 DEF TeamIInv

(***************************************************************************)
(* Decisions.                                                              *)
(***************************************************************************)
LEMMA BeginDecisionKeeps ==
    ASSUME TeamIInv, NEW m \in Members, NEW q \in Problems, NEW w \in Windows,
           NEW op \in {"decide", "meet"}, BeginDecision(m, q, w, op)
    PROVE  TeamIInv'
<1> DEFINE t == [op |-> op, member |-> m, problem |-> q, window |-> w, checked |-> FALSE]
<1>1. m \in Supporters
    BY DEF BeginDecision, TeamIInv, TeamTypeOK, Problem
<1>2. /\ t \in TeamDecision /\ ~t.checked /\ decisions' = decisions \cup {t}
      /\ UNCHANGED <<assignment, enrolment, standing, messages, problem, session, writes>>
    BY <1>1 DEF BeginDecision, TeamDecision
<1> HIDE DEF t
<1>3. TeamTypeOK'
    BY <1>2 DEF TeamIInv, TeamTypeOK, Assigned
<1>4. WritesHold' /\ SessionsMatchRequests'
    BY <1>2 DEF TeamIInv, WritesHold, SessionsMatchRequests, Assigned
<1>5. DecisionsHold'
    BY <1>2 DEF TeamIInv, DecisionsHold, Undecided
<1> QED
    BY <1>3, <1>4, <1>5 DEF TeamIInv

LEMMA ChecksKeeps ==
    ASSUME TeamIInv, NEW t \in decisions, Checks(t)
    PROVE  TeamIInv'
<1> DEFINE u == [t EXCEPT !.checked = TRUE]
<1>1. t \in TeamDecision
    BY DEF TeamIInv, TeamTypeOK
<1>2. /\ u \in TeamDecision /\ u.op = t.op /\ u.problem = t.problem
      /\ decisions' = (decisions \ {t}) \cup {u}
      /\ UNCHANGED <<assignment, enrolment, standing, messages, problem, session, writes>>
    BY <1>1 DEF Checks, TeamDecision
<1>3. u.op = "decide" => ProblemFree(u.problem) /\ Undecided(u.problem)
    BY <1>2 DEF Checks
<1> HIDE DEF u
<1>4. TeamTypeOK'
    BY <1>2 DEF TeamIInv, TeamTypeOK, Assigned
<1>5. WritesHold' /\ SessionsMatchRequests'
    BY <1>2 DEF TeamIInv, WritesHold, SessionsMatchRequests, Assigned
<1>6. DecisionsHold'
    BY <1>2, <1>3 DEF TeamIInv, DecisionsHold, Undecided, ProblemFree
<1> QED
    BY <1>4, <1>5, <1>6 DEF TeamIInv

LEMMA DecideRequestKeeps ==
    ASSUME TeamIInv, NEW t \in decisions, NEW status \in {"under_review", "scheduled", "declined"},
           DecideSupporterProblemRequest(t, status)
    PROVE  TeamIInv'
<1> DEFINE q == t.problem
<1>1. t \in TeamDecision /\ q \in Problems /\ t.op = "decide" /\ t.checked
    BY DEF TeamIInv, TeamTypeOK, TeamDecision, DecideSupporterProblemRequest
<1>2. Undecided(q)
          /\ \A u \in decisions : u.op = "decide" /\ u.checked /\ u.problem = q => u = t
    BY <1>1 DEF TeamIInv, DecisionsHold
<1>3. problem[q] \in Problem /\ session[q] = "none"
    BY <1>1, <1>2 DEF TeamIInv, TeamTypeOK, SessionsMatchRequests, Undecided, NoProblem
<1> DEFINE row == [problem[q] EXCEPT !.status = status]
<1>4. row \in Problem /\ row.status = status
    BY <1>3 DEF Problem
<1>5. /\ problem' = [problem EXCEPT ![q] = row] /\ decisions' = decisions \ {t}
      /\ session' = [session EXCEPT ![q] = IF status = "scheduled" THEN "scheduled" ELSE @]
      /\ UNCHANGED <<assignment, enrolment, standing, messages, writes>>
    BY DEF DecideSupporterProblemRequest
<1> HIDE DEF row
<1>6. \A p \in Problems :
          /\ problem'[p] = IF p = q THEN row ELSE problem[p]
          /\ session'[p] = IF p = q THEN (IF status = "scheduled" THEN "scheduled" ELSE "none")
                           ELSE session[p]
    BY <1>1, <1>3, <1>5 DEF TeamIInv, TeamTypeOK
<1>7. TeamTypeOK'
    BY <1>1, <1>3, <1>4, <1>5 DEF TeamIInv, TeamTypeOK, Assigned
<1>8. WritesHold'
    BY <1>5 DEF TeamIInv, WritesHold, Assigned
<1>9. SessionsMatchRequests'
    BY <1>4, <1>6 DEF TeamIInv, SessionsMatchRequests
<1>10. DecisionsHold'
    <2>1. \A u \in decisions : u.problem \in Problems
        BY DEF TeamIInv, TeamTypeOK, TeamDecision
    <2> QED
        BY <1>2, <1>5, <1>6, <2>1 DEF TeamIInv, DecisionsHold, Undecided
<1> QED
    BY <1>7, <1>8, <1>9, <1>10 DEF TeamIInv

LEMMA MeetKeeps ==
    ASSUME TeamIInv, NEW t \in decisions, NEW status \in {"held", "cancelled"},
           DecideSupporterSession(t, status)
    PROVE  TeamIInv'
<1> DEFINE q == t.problem
<1>1. /\ q \in Problems /\ session[q] = "scheduled"
      /\ session' = [session EXCEPT ![q] = status] /\ decisions' = decisions \ {t}
      /\ UNCHANGED <<assignment, enrolment, standing, messages, problem, writes>>
    BY DEF TeamIInv, TeamTypeOK, TeamDecision, DecideSupporterSession, StillScheduled
<1>2. TeamTypeOK'
    BY <1>1 DEF TeamIInv, TeamTypeOK, Assigned
<1>3. WritesHold' /\ DecisionsHold'
    BY <1>1 DEF TeamIInv, WritesHold, DecisionsHold, Undecided, Assigned
<1>4. SessionsMatchRequests'
    BY <1>1 DEF TeamIInv, SessionsMatchRequests, TeamTypeOK
<1> QED
    BY <1>2, <1>3, <1>4 DEF TeamIInv

LEMMA AbandonWriteKeeps ==
    ASSUME TeamIInv, NEW t \in decisions, AbandonDecision(t)
    PROVE  TeamIInv'
BY DEF AbandonDecision, TeamIInv, TeamTypeOK, WritesHold, DecisionsHold, SessionsMatchRequests,
       Assigned, Undecided

LEMMA TeamStepKeeps == TeamIInv /\ [TeamNext]_teamVars => TeamIInv'
<1> SUFFICES ASSUME TeamIInv, [TeamNext]_teamVars PROVE TeamIInv'
    OBVIOUS
<1>1. CASE UNCHANGED teamVars
    BY <1>1 DEF teamVars, TeamIInv, TeamTypeOK, WritesHold, DecisionsHold,
                SessionsMatchRequests, Assigned, Undecided
<1>2. CASE TeamNext
    BY <1>2, InstituteKeeps, BeginWriteKeeps, BeginDecisionKeeps, SaysKeeps, CreateRequestKeeps,
       ChecksKeeps, AbandonWriteKeeps, DecideRequestKeeps, MeetKeeps, TeamSurroundingsKeep DEF TeamNext
<1> QED
    BY <1>1, <1>2

LEMMA TeamInductive == TeamSpec => []TeamIInv
BY TeamInitEstablishes, TeamStepKeeps, PTL DEF TeamSpec

\* Two windows of a supporter never leave a session without its request, nor a
\* request scheduled without a session: the decision holds the request
\* (src/src/server/course-team/problem-solving.ts).
THEOREM SessionsAgree == TeamSpec => []SessionsMatchRequests
<1>1. TeamIInv => SessionsMatchRequests
    BY DEF TeamIInv
<1> QED
    BY <1>1, TeamInductive, PTL

\* However the institute's changes and a cancellation fall between the check of a
\* message or a request and its commit, it is stored only while the assignment and
\* the enrolment are in force (src/src/server/course-team, src/server/student).
THEOREM StoredWhileAssigned == TeamSpec => WritesWhileAssigned
<1> DEFINE Allowed ==
        /\ \A m \in Members : messages'[m] # messages[m] => Assigned(m) /\ enrolment = "active"
        /\ \A q \in Problems : problem[q] = NoProblem /\ problem'[q] # NoProblem =>
              assignment[problem'[q].supporter].enabled /\ enrolment = "active"
<1>1. TeamIInv /\ [TeamNext]_teamVars => [Allowed]_teamVars
    <2> SUFFICES ASSUME TeamIInv, TeamNext PROVE Allowed
        OBVIOUS
    <2>1. ASSUME UNCHANGED <<messages, problem>> PROVE Allowed
        BY <2>1
    <2>2. ASSUME NEW t \in writes, Says(t) PROVE Allowed
        <3>1. UNCHANGED problem /\ t.member \in Members
                  /\ messages' = [messages EXCEPT ![t.member] = @ + 1]
            BY <2>2 DEF Says, TeamIInv, TeamTypeOK, TeamWrite
        <3>2. \A m \in Members : messages'[m] # messages[m] => m = t.member
            BY <3>1 DEF TeamIInv, TeamTypeOK
        <3> QED
            BY <3>1, <3>2 DEF TeamIInv, WritesHold
    <2>3. ASSUME NEW t \in writes, NEW q \in Problems,
                 CreateStudentProblemSolvingRequest(t, q)
          PROVE  Allowed
        <3>1. UNCHANGED messages /\ t.op = "ask"
                  /\ problem' = [problem EXCEPT ![q] =
                                    [status |-> "submitted", supporter |-> t.member]]
            BY <2>3 DEF CreateStudentProblemSolvingRequest
        <3>2. \A p \in Problems : p # q => problem'[p] = problem[p]
            BY <3>1 DEF TeamIInv, TeamTypeOK
        <3>3. problem'[q].supporter = t.member
            BY <3>1 DEF TeamIInv, TeamTypeOK
        <3> QED
            BY <3>1, <3>2, <3>3 DEF TeamIInv, WritesHold
    <2>4. ASSUME NEW t \in decisions,
                 NEW status \in {"under_review", "scheduled", "declined"},
                 DecideSupporterProblemRequest(t, status)
          PROVE  Allowed
        <3>1. UNCHANGED messages /\ t.checked /\ t.op = "decide"
                  /\ problem' = [problem EXCEPT ![t.problem].status = status]
            BY <2>4 DEF DecideSupporterProblemRequest
        <3>2. Undecided(t.problem) /\ t.problem \in Problems
            BY <3>1 DEF TeamIInv, DecisionsHold, TeamTypeOK, TeamDecision
        <3>3. \A p \in Problems : p # t.problem => problem'[p] = problem[p]
            BY <3>1 DEF TeamIInv, TeamTypeOK
        <3>4. problem[t.problem] # NoProblem
            BY <3>2 DEF Undecided, NoProblem
        <3> QED
            BY <3>1, <3>3, <3>4
    <2> QED
        BY <2>1, <2>2, <2>3, <2>4
           DEF TeamNext, AssignInstituteCourseTeamMember, DeactivateInstituteCourseTeamMember,
               SetInstituteCourseTeamSessionRequestPolicy, BeginMessage, BeginReply, BeginAsk,
               Begins, BeginDecision, SendStudentCourseMessage, SendCourseTeamReply,
               AbandonWrite, Checks, AbandonDecision, DecideSupporterSession,
               CancelCourseEnrolment, StandingChanges
<1> QED
    BY <1>1, TeamInductive, PTL DEF TeamSpec, WritesWhileAssigned

--------------------------------------------------------------------------------
(***************************************************************************)
(* Collaborations, for any set of people and of requests.                  *)
(***************************************************************************)
\* Of the rows that count for the unique index there is one.
OneLive == \A k, l \in Live : k = l

\* What is withdrawn was never decided; a row that has left the institute names a
\* reviewer who did not ask, and a row in force an administrator who did neither.
HandsDiffer ==
    \A k \in Asked :
        /\ collab[k].withdrawn => collab[k].status = "requested"
        /\ collab[k].status \in {"awaiting_dena", "approved"} =>
              collab[k].reviewer \in Persons \ {collab[k].requester}
        /\ collab[k].status = "approved" =>
              /\ collab[k].dena \in Persons \ {collab[k].requester, collab[k].reviewer}
              /\ ~Held(collab[k].dena, "institute")

CollabIInv == CollabTypeOK /\ OneLive /\ HandsDiffer

LEMMA CollabRowsAreRecords ==
    ASSUME CollabTypeOK, NEW k \in Asked
    PROVE  k \in Collaborations /\ collab[k] \in Collaboration
BY DEF CollabTypeOK, Asked

LEMMA CollabInitEstablishes == CollabInit => CollabIInv
<1> SUFFICES ASSUME CollabInit PROVE CollabIInv
    OBVIOUS
<1>1. CollabTypeOK
    BY DEF CollabInit, CollabTypeOK
<1>2. Asked = {}
    BY DEF CollabInit, Asked
<1> QED
    BY <1>1, <1>2 DEF CollabIInv, OneLive, HandsDiffer, Live

\* A step that rewrites one row that was there, keeps everybody's memberships, and
\* brings no new row under the index.
LEMMA RewriteRow ==
    ASSUME CollabIInv, UNCHANGED serving,
           NEW k \in Asked, NEW row \in Collaboration,
           collab' = [collab EXCEPT ![k] = row],
           ~row.withdrawn /\ row.status \in {"requested", "awaiting_dena", "approved"}
               => k \in Live,
           row.withdrawn => row.status = "requested",
           row.status \in {"awaiting_dena", "approved"} =>
               row.reviewer \in Persons \ {row.requester},
           row.status = "approved" =>
               /\ row.dena \in Persons \ {row.requester, row.reviewer}
               /\ ~Held(row.dena, "institute")
    PROVE  CollabIInv'
<1>1. k \in Collaborations /\ CollabTypeOK'
    BY CollabRowsAreRecords DEF CollabIInv, CollabTypeOK
<1>2. Asked' = Asked /\ \A l \in Asked : collab'[l] = IF l = k THEN row ELSE collab[l]
    BY <1>1 DEF Asked, CollabIInv, CollabTypeOK, Collaboration, NoCollaboration
<1>3. Live' \subseteq Live
    BY <1>2 DEF Live
<1>4. OneLive'
    BY <1>3 DEF CollabIInv, OneLive
<1>5. HandsDiffer'
    BY <1>2 DEF CollabIInv, HandsDiffer, Held
<1> QED
    BY <1>1, <1>4, <1>5 DEF CollabIInv

LEMMA CreateCollaborationKeeps ==
    ASSUME CollabIInv, NEW p \in Persons, NEW k \in Collaborations,
           CreateProviderCollaboration(p, k)
    PROVE  CollabIInv'
<1> DEFINE row == [status |-> "requested", withdrawn |-> FALSE, requester |-> p,
                   reviewer |-> NoOne, dena |-> NoOne]
<1>1. row \in Collaboration
    BY DEF Collaboration
<1>2. collab' = [collab EXCEPT ![k] = row] /\ UNCHANGED serving /\ k \notin Asked /\ Live = {}
    BY DEF CreateProviderCollaboration
<1>3. CollabTypeOK'
    BY <1>1, <1>2 DEF CollabIInv, CollabTypeOK
<1>4. \A l \in Collaborations : collab'[l] = IF l = k THEN row ELSE collab[l]
    BY <1>2 DEF CollabIInv, CollabTypeOK
<1>5. Live' \subseteq {k}
    BY <1>2, <1>4 DEF Live, Asked
<1>6. HandsDiffer'
    BY <1>2, <1>4 DEF CollabIInv, HandsDiffer, Held, Asked
<1> QED
    BY <1>3, <1>5, <1>6 DEF CollabIInv, OneLive

LEMMA ThreeAreThree ==
    ASSUME NEW a, NEW b, NEW c, a # b, a # c, b # c
    PROVE  Cardinality({a, b, c}) = 3
<1>1. IsFiniteSet({a}) /\ Cardinality({a}) = 1
    BY FS_Singleton
<1>2. b \notin {a} /\ {a} \cup {b} = {a, b} /\ c \notin {a, b} /\ {a, b} \cup {c} = {a, b, c}
    OBVIOUS
<1>3. IsFiniteSet({a, b}) /\ Cardinality({a, b}) = 2
    BY <1>1, <1>2, FS_AddElement
<1> QED
    BY <1>2, <1>3, FS_AddElement

LEMMA DecidableIsLive ==
    ASSUME NEW k \in Asked, Decidable(k)
    PROVE  k \in Live
BY DEF Decidable, Live

LEMMA CollabStepKeeps == CollabIInv /\ [CollabNext]_collabVars => CollabIInv'
<1> SUFFICES ASSUME CollabIInv, [CollabNext]_collabVars PROVE CollabIInv'
    OBVIOUS
<1>1. CASE UNCHANGED collabVars
    BY <1>1 DEF collabVars, CollabIInv, CollabTypeOK, OneLive, HandsDiffer, Live, Asked, Held
<1>2. ASSUME NEW p \in Persons, NEW k \in Collaborations, CreateProviderCollaboration(p, k)
      PROVE  CollabIInv'
    BY <1>2, CreateCollaborationKeeps
<1>3. ASSUME NEW p \in Persons, NEW k \in Asked, WithdrawProviderCollaboration(p, k)
      PROVE  CollabIInv'
    <2> DEFINE row == [collab[k] EXCEPT !.withdrawn = TRUE]
    <2>1. collab[k] \in Collaboration /\ k \in Collaborations
        BY CollabRowsAreRecords DEF CollabIInv
    <2>2. collab' = [collab EXCEPT ![k] = row] /\ UNCHANGED serving
        BY <1>3 DEF WithdrawProviderCollaboration
    <2>3. row \in Collaboration /\ row.withdrawn /\ row.status = "requested"
        BY <1>3, <2>1 DEF Collaboration, WithdrawProviderCollaboration, Decidable
    <2> HIDE DEF row
    <2> QED
        BY <2>2, <2>3, RewriteRow
<1>4. ASSUME NEW p \in Persons, NEW k \in Asked,
             NEW status \in {"awaiting_dena", "institute_rejected"},
             DecideInstituteCollaboration(p, k, status)
      PROVE  CollabIInv'
    <2> DEFINE row == [collab[k] EXCEPT !.status = status, !.reviewer = p]
    <2>1. collab[k] \in Collaboration /\ k \in Collaborations
        BY CollabRowsAreRecords DEF CollabIInv
    <2>2. collab' = [collab EXCEPT ![k] = row] /\ UNCHANGED serving
        BY <1>4, <2>1 DEF DecideInstituteCollaboration, CollabIInv, CollabTypeOK, Collaboration
    <2>3. row \in Collaboration /\ ~row.withdrawn /\ row.status # "approved"
              /\ row.reviewer = p /\ p # row.requester
        BY <1>4, <2>1 DEF Collaboration, DecideInstituteCollaboration, Decidable
    <2>4. k \in Live
        BY <1>4, DecidableIsLive DEF DecideInstituteCollaboration
    <2> HIDE DEF row
    <2> QED
        BY <2>2, <2>3, <2>4, RewriteRow
<1>5. ASSUME NEW p \in Persons, NEW k \in Asked,
             NEW status \in {"approved", "dena_rejected"},
             DecideDenaCollaboration(p, k, status)
      PROVE  CollabIInv'
    <2> DEFINE row == [collab[k] EXCEPT !.status = status, !.dena = p]
    <2>1. collab[k] \in Collaboration /\ k \in Collaborations
        BY CollabRowsAreRecords DEF CollabIInv
    <2>2. collab' = [collab EXCEPT ![k] = row] /\ UNCHANGED serving
        BY <1>5, <2>1 DEF DecideDenaCollaboration, CollabIInv, CollabTypeOK, Collaboration
    <2>3. collab[k].status = "awaiting_dena" /\ Independent(p, k)
        BY <1>5 DEF DecideDenaCollaboration
    <2>4. k \in Live /\ ~collab[k].withdrawn
              /\ collab[k].reviewer \in Persons \ {collab[k].requester}
        BY <2>3 DEF Live, CollabIInv, HandsDiffer
    <2>5. row \in Collaboration /\ ~row.withdrawn /\ row.status = status
              /\ row.reviewer \in Persons \ {row.requester}
              /\ row.dena \in Persons \ {row.requester, row.reviewer}
              /\ ~Held(row.dena, "institute")
        BY <2>1, <2>3, <2>4 DEF Collaboration, Independent
    <2> HIDE DEF row
    <2> QED
        BY <2>2, <2>4, <2>5, RewriteRow
<1>6. ASSUME NEW p \in Persons, NEW party \in Party, ServiceChanges(p, party)
      PROVE  CollabIInv'
    <2>1. UNCHANGED collab /\ CollabTypeOK'
        BY <1>6 DEF ServiceChanges, CollabIInv, CollabTypeOK
    <2>2. \A q \in Persons, place \in Party : Held(q, place)' = Held(q, place)
        BY <1>6 DEF ServiceChanges, CollabIInv, CollabTypeOK, Held
    <2> QED
        BY <2>1, <2>2 DEF CollabIInv, OneLive, HandsDiffer, Live, Asked, Party
<1> QED
    BY <1>1, <1>2, <1>3, <1>4, <1>5, <1>6 DEF CollabNext

\* Whoever asks, decides, withdraws, loses and regains a membership in whatever
\* order: one collaboration of the pair at a time, and none in force that fewer than
\* three people had in their hands (src/src/server/provider/collaborations.ts).
THEOREM ThreeHands == CollabSpec => []ApprovedByThree
<1>1. CollabSpec => []CollabIInv
    BY CollabInitEstablishes, CollabStepKeeps, PTL DEF CollabSpec
<1>2. CollabIInv => ApprovedByThree
    <2> SUFFICES ASSUME CollabIInv PROVE ApprovedByThree
        OBVIOUS
    <2>1. Cardinality(Live) <= 1
        <3>1. CASE Live = {}
            BY <3>1, FS_EmptySet
        <3>2. ASSUME NEW k \in Live PROVE Cardinality(Live) <= 1
            <4>1. Live = {k}
                BY <3>2 DEF CollabIInv, OneLive
            <4> QED
                BY <4>1, FS_Singleton
        <3> QED
            BY <3>1, <3>2
    <2>2. ASSUME NEW k \in Asked, collab[k].status = "approved"
          PROVE  /\ Cardinality({collab[k].requester, collab[k].reviewer, collab[k].dena}) = 3
                 /\ NoOne \notin {collab[k].reviewer, collab[k].dena}
                 /\ ~Held(collab[k].dena, "institute")
        <3> DEFINE a == collab[k].requester
                   b == collab[k].reviewer
                   c == collab[k].dena
        <3>1. b \in Persons \ {a} /\ c \in Persons \ {a, b} /\ ~Held(c, "institute")
            BY <2>2 DEF CollabIInv, HandsDiffer
        <3>2. Cardinality({a, b, c}) = 3
            BY <3>1, ThreeAreThree
        <3> QED
            BY <3>1, <3>2, NoOneAssumption
    <2> QED
        BY <2>1, <2>2 DEF ApprovedByThree, CollabIInv, HandsDiffer
<1> QED
    BY <1>1, <1>2, PTL
================================================================================
