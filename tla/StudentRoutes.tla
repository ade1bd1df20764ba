------------------------------ MODULE StudentRoutes ------------------------------
(***************************************************************************)
(* The routes students call: courses and their lessons, exercises, exams,  *)
(* services, messages, the tutor, their number and their notes.            *)
(***************************************************************************)
EXTENDS RouteSteps

\* Lessons and their videos.
GetCourses == Viewer(403) \o <<Written, Reads({})>>
GetCourse == Viewer(403) \o <<Named, Reads({404})>>
GetAssets == <<Member, Named, HasPlace, Reads({})>>
GetProgress == Viewer(403) \o <<Reads({})>>
PostEnroll == Sender(403) \o <<Named, Written, Commits({"role"}, {403, 404, 409})>>
PostCancel == Sender(403) \o <<Named, Written, Commits({}, {404})>>
GetVideo == <<Member, Named, HasPlace, Check({416, 503})>>

Video == Sender(403) \o <<Named, HasPlace, Reads({404})>>
\* The enrolment is locked, and the course and the membership are read once more.
InCourseUnlocked(codes) == <<Asks({"role", "place"}, {404}), Commits({}, codes)>>
InCourse(codes) == <<Asks({"role", "place"}, {404}), Commits({"place"}, codes)>>
PostCompletion == Video \o <<Written>> \o InCourse({404})
DeleteCompletion == Video \o InCourse({404})
PutNote == Video \o <<Written>> \o InCourse({404})
DeleteNote == Video \o InCourse({404})
GetPrivateNotes == Viewer(403) \o <<Reads({})>>
DeletePrivateNotes == Sender(403) \o <<Written, Commits({}, {}), Reads({})>>

\* Exercises.
GetAssessments == Viewer(403) \o <<Named, HasPlace, Reads({})>>
PostAttempt == Sender(403) \o <<Named, HasPlace, Written>> \o InCourse({404, 409})
GetAttempt == Viewer(403) \o <<Named, HasPlace, Reads({404})>>
PostAttemptAnswers ==
    Sender(403) \o <<Named, HasPlace, Written>> \o InCourse({404, 409})
PostLessonReview == Sender(403) \o <<Named, HasPlace, Written>> \o InCourse({404})
GetPractice == Viewer(403) \o <<Named, HasPlace, Reads({})>>
PostPractice ==
    Sender(403) \o <<Named, HasPlace, Written>> \o InCourse({404}) \o <<Commits({}, {})>>

\* Exams.  One of the institute asks for an enrolment besides the membership.
GetExams == Viewer(404) \o <<Asks({"role"}, {404}), Reads({})>>
PostExamAttempt == Sender(404) \o <<Named, Commits({"role"}, {404, 409})>>
GetExamAttempt == <<Member, Named, Commits({"role"}, {404})>>
PostExamAttemptSubmit == <<Origin, Member, Named, Commits({"role"}, {409})>>
PatchExamAnswers ==
    <<Origin, Member, Named, Written, Commits({"role"}, {404, 409})>>

\* Services and calls.
GetServices == Viewer(404) \o <<Reads({})>>
GetOrders == Viewer(404) \o <<Reads({})>>
PostOrder == Sender(404) \o <<Written, Commits({"role"}, {404, 409})>>
PostOrderCancel == Sender(404) \o <<Named, Commits({"role"}, {404, 409})>>
PostCallEnd ==
    Sender(404) \o <<Named, Asks({"role"}, {403}), Commits({}, {404}), Check({503})>>
PostCallToken == <<Origin, Session, Named, Reads({404}), Check({503})>>

\* The team of a course.
GetConversations == Viewer(403) \o <<Named, HasPlace, Reads({})>>
GetTeam == Viewer(403) \o <<Named, HasPlace, Reads({404})>>
GetConversation == Viewer(403) \o <<Named, HasPlace, Reads({404})>>
PostMessage == Sender(403) \o <<Named, Written, HasPlace, Reads({404})>> \o InCourse({404})
GetProblemSolving == Viewer(403) \o <<Named, HasPlace, Reads({404})>>
PostProblem == Sender(403) \o <<Named, Written, HasPlace>> \o InCourse({404})

\* The tutor.
PostTutor ==
    Sender(404) \o <<Written, HasPlace, Reads({403}), Reads({422}), Commits({}, {})>>
GetTutorPractice == Viewer(404) \o <<Named, HasPlace, Reads({403}), Reads({404})>>
PostTutorPractice ==
    Sender(404) \o <<Written, HasPlace, Reads({403}), Reads({404}), Commits({}, {})>>
GetTutorProfile == Viewer(404) \o <<Reads({})>>
PostTutorProfile == Sender(404) \o <<Written, Commits({}, {404})>>
DeleteTutorProfile == Sender(404) \o <<Commits({}, {}), Commits({}, {})>>
GetTutorSources == Viewer(404) \o <<Named, HasPlace, Reads({})>>
PostVideoFeedback ==
    Sender(404) \o <<Written, HasPlace, Reads({403}), Commits({}, {})>>

\* The number.
PostPhoneRequest ==
    <<Origin, Session, Written, Asks({"role"}, {403}), Reads({409}),
      Commits({}, {429, 503}), Commits({}, {429, 503}), Commits({}, {}), Check({503})>>
PostPhoneVerify ==
    <<Origin, Session, Written, Asks({"role"}, {403}), Commits({}, {400, 409}),
      Check({400, 409})>>

StudentRoutes ==
    {GetCourses, GetCourse, GetAssets, GetProgress, PostEnroll, PostCancel, GetVideo,
     PostCompletion, DeleteCompletion, PutNote, DeleteNote, GetPrivateNotes,
     DeletePrivateNotes, GetAssessments, PostAttempt, GetAttempt, PostAttemptAnswers,
     PostLessonReview, GetPractice, PostPractice, GetExams, PostExamAttempt,
     GetExamAttempt, PostExamAttemptSubmit, PatchExamAnswers, GetServices, GetOrders,
     PostOrder, PostOrderCancel, PostCallEnd, PostCallToken, GetConversations, GetTeam,
     GetConversation, PostMessage, GetProblemSolving, PostProblem, PostTutor,
     GetTutorPractice, PostTutorPractice, GetTutorProfile, PostTutorProfile,
     DeleteTutorProfile, GetTutorSources, PostVideoFeedback, PostPhoneRequest,
     PostPhoneVerify}
================================================================================
