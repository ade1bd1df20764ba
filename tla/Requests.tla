-------------------------------- MODULE Requests --------------------------------
(***************************************************************************)
(* One request on its way through the handler of its route, while others   *)
(* may sign the caller out, suspend or give a membership, cancel the       *)
(* enrolment or the assignment and revoke the key.  A handler looks at     *)
(* these facts at different moments: the memberships it reads with the     *)
(* session, what it asks the database later, and what its transaction      *)
(* locks.                                                                  *)
(***************************************************************************)
EXTENDS StudentRoutes, TeachingRoutes, OfficeRoutes, Naturals, Sequences

VARIABLES
    caller,  \* the facts that hold for the one who sent the request
    handled  \* the request, and what its handler has done so far

requestVars == <<caller, handled>>

Routes == StudentRoutes \cup TeachingRoutes \cup OfficeRoutes

\* A role is a membership too; what a route does not mention makes no difference.
Facts == {"session", "member", "role", "place", "token", "key"}
Mentions(route) == UNION {route[i].facts : i \in DOMAIN route}
Callers(route) ==
    {facts \in SUBSET (Mentions(route) \cup {"member"}) :
        "role" \in facts => "member" \in facts}

Arrived(route, facts) ==
    [route |-> route, at |-> 1, known |-> {}, consulted |-> FALSE, wrote |-> FALSE,
     lost |-> {}, answer |-> 0]

RequestsInit ==
    \E route \in Routes : \E facts \in Callers(route) :
        caller = facts /\ handled = Arrived(route, facts)

Pending == handled.answer = 0
AtEnd == handled.at > Len(handled.route)
Current == handled.route[handled.at]
AtStep == Pending /\ ~AtEnd

\* What the steps before this one have asked about.
Asked == UNION {handled.route[i].facts : i \in 1..(handled.at - 1)}

UsesDatabase == Current.does \in {"read", "ask", "commit"}
\* The role is looked for among the memberships of the session; all else is asked now.
Satisfied ==
    IF Current.does = "role" THEN "role" \in handled.known ELSE Current.facts \subseteq caller
\* Checks, rows and transactions may refuse for reasons of their own.
MayRefuse == Current.does \in {"check", "read", "ask", "commit"} \/ ~Satisfied

Advanced == [handled EXCEPT !.at = @ + 1, !.consulted = @ \/ UsesDatabase]

Pass ==
    /\ AtStep /\ Current.does # "commit" /\ Satisfied
    /\ handled' =
          [Advanced EXCEPT !.known = IF Current.does = "member" THEN caller ELSE @]
    /\ UNCHANGED caller

\* What was asked and is not locked may have changed by the time of the commit.
Commit ==
    /\ AtStep /\ Current.does = "commit" /\ Satisfied
    /\ handled' =
          [Advanced EXCEPT !.wrote = TRUE, !.lost = @ \cup (Asked \ (caller \cup {"session"}))]
    /\ UNCHANGED caller

\* A repeated request is answered as before; a part that refuses is left out.
CommitNothing ==
    /\ AtStep /\ Current.does = "commit" /\ (Satisfied \/ Current.refusals = {})
    /\ handled' = Advanced
    /\ UNCHANGED caller

\* The request with its answer; who is refused by a row has been looked up.
Answered(code) ==
    [handled EXCEPT !.consulted = @ \/ (AtStep /\ UsesDatabase), !.answer = code]

Refuse ==
    /\ AtStep /\ MayRefuse
    /\ \E code \in Current.refusals : handled' = Answered(code)
    /\ UNCHANGED caller

\* The database cannot be reached or aborts the transaction.
Fail ==
    /\ AtStep /\ UsesDatabase
    /\ handled' = Answered(500)
    /\ UNCHANGED caller

Done ==
    /\ Pending /\ AtEnd
    /\ handled' = Answered(200)
    /\ UNCHANGED caller

\* Others act while the request is on its way; the deployment's tokens stay.
CallerChanges ==
    /\ Pending
    /\ caller' \in Callers(handled.route)
    /\ (caller \ caller') \cup (caller' \ caller) \in
          {{"session"}, {"member"}, {"role"}, {"member", "role"}, {"place"}, {"key"}}
    /\ UNCHANGED handled

RequestsNext ==
    Pass \/ Commit \/ CommitNothing \/ Refuse \/ Fail \/ Done \/ CallerChanges

RequestsSpec == RequestsInit /\ [][RequestsNext]_requestVars

\* What a route may answer with, and 0 before it has.
Answers(route) == {0, 200, 500} \cup UNION {route[i].refusals : i \in DOMAIN route}

RequestsTypeOK ==
    /\ caller \in Callers(handled.route)
    /\ handled \in [route : Routes, at : 1..(Len(handled.route) + 1),
                    known : SUBSET Facts, consulted : BOOLEAN, wrote : BOOLEAN,
                    lost : SUBSET Facts, answer : Answers(handled.route)]

\* The enrolment is locked, the membership read once more beside it.
LocksPlaceOnly ==
    {PostCompletion, DeleteCompletion, PutNote, DeleteNote, PostAttempt, PostAttemptAnswers,
     PostLessonReview, PostMessage, PostProblem}
\* The membership or the assignment is read once more, and nothing is locked.
LocksNothing ==
    {PostCallEnd, PostAiPermission, PostAiTranscript, PostCourseTeam, DeleteCourseTeam,
     PatchCourseTeam, PostInstituteCall, PostFollowUp, PostCalls, PostConsent,
     PatchProblemRequest, PatchProblemSession}
\* Only rows of the caller's own are written: an enrolment cancelled, a request
\* withdrawn, notes, a number, and what the tutor remembers of the caller.
WritesOwnRows ==
    {PostCancel, DeletePrivateNotes, DeleteAffiliation, PostPhoneRequest, PostPhoneVerify,
     PostPractice, PostTutor, PostTutorPractice, PostTutorProfile, DeleteTutorProfile,
     PostVideoFeedback}
\* The end of a transfer to the store is noted, whoever started it.
NotesTransfers == {PutEducatorIngest, PutProviderIngest, PutProviderMedia, PostAttachments}
\* Counts a call of the key before the body is read.
CountsCalls == {PostKeyedStudent}

MayLose(route) ==
    IF route \in LocksPlaceOnly THEN {"member", "role"}
    ELSE IF route \in LocksNothing \cup WritesOwnRows \cup NotesTransfers
        THEN {"member", "role", "place"}
    ELSE IF route \in CountsCalls THEN {"key"} ELSE {}

\* When a handler commits, every fact it has asked about since the request came
\* still holds, whatever others did to memberships, enrolments and keys on the way;
\* outside the routes named above, which write on what they saw.
WritesUnderAuthority == handled.lost \subseteq MayLose(handled.route)

\* Answers that refuse come after a write only here: a later file of several, a
\* later row, a number whose challenge was spent, a membership that is suspended.
RefusesAfterWriting ==
    {PostPhoneRequest, PostPhoneVerify} \cup NotesTransfers
        \cup CountsCalls \cup {PostOnboard}
OpenToAll == {GetLive, GetReady}

\* Who is refused has changed nothing, and no row is read for somebody who has
\* shown neither a session nor a token.
AnswersAreHonest ==
    /\ handled.answer \in 400..499 /\ handled.wrote => handled.route \in RefusesAfterWriting
    /\ handled.consulted /\ handled.route \notin OpenToAll =>
          Asked \cap {"session", "token", "key"} # {}
================================================================================
