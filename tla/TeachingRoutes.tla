------------------------------ MODULE TeachingRoutes ------------------------------
(***************************************************************************)
(* The routes of those who make and supervise courses: independent         *)
(* educators (whose role is that of a student), providers, institutes, and *)
(* the members of a course's team, who need no role at all.                *)
(***************************************************************************)
EXTENDS RouteSteps

\* Affiliations and courses of independent educators.
GetAffiliations == <<Member, Reads({})>>
PostAffiliation == <<Origin, Member, Written, Commits({"role"}, {403, 404, 409})>>
DeleteAffiliation == <<Origin, Member, Named, Commits({}, {403, 404, 409})>>
GetEducatorCourses == Viewer(404) \o <<Reads({})>>
PostEducatorCourse == Sender(404) \o <<Written, Commits({"role"}, {403, 404, 409})>>
GetEducatorAssessments == Viewer(404) \o <<Named, Asks({"role"}, {404})>>
PostEducatorAssessment ==
    Sender(404) \o <<Named, Asks({"role"}, {404}), Written, Commits({"role"}, {404, 422})>>
PostEducatorIngest ==
    <<Origin, Member, Named, Written, Check({503}), Commits({"role"}, {403, 404, 409})>>
\* The transfer follows the commit that started it; whatever stops it is recorded.
Transfer == <<Check({400, 503}), Commits({}, {409, 503})>>
Receive ==
    <<Check({400, 503}), Commits({"role"}, {400, 404, 409})>> \o Transfer
PutEducatorIngest == <<Origin, Member, Named>> \o Receive
PostEducatorPlan ==
    Sender(403) \o <<Named, Check({503}), Written, Commits({"role"}, {403, 404, 409})>>
GetEducatorPlans == Viewer(403) \o <<Named, Check({503}), Asks({"role"}, {403, 404})>>
PostEducatorPlanCancel ==
    Sender(403) \o <<Named, Check({503}), Written, Commits({"role"}, {404, 503})>>
GetEducatorPractice == Viewer(404) \o <<Named, Asks({"role"}, {404})>>
PostEducatorPractice ==
    Sender(404) \o <<Named, Asks({"role"}, {404}), Written, Commits({"role"}, {404, 409})>>
PostEducatorPublication ==
    Sender(404) \o <<Named, Written, Check({503}), Commits({"role"}, {404, 409})>>

\* Collaborations and courses of providers.
GetProviderCollaborations == Viewer(403) \o <<Reads({})>>
PostProviderCollaboration ==
    Sender(403) \o <<Written, Commits({"role"}, {403, 404, 409})>>
DeleteProviderCollaboration ==
    Sender(403) \o <<Named, Commits({"role"}, {403, 404, 409})>>
GetProviderCourses == Viewer(403) \o <<Reads({})>>
PostProviderCourse ==
    <<Origin, Member, Written, Role(403), Commits({"role"}, {403, 404, 409})>>
GetProviderAssessments == Viewer(403) \o <<Named, Asks({"role"}, {404})>>
PostProviderAssessment ==
    Sender(403) \o <<Named, Asks({"role"}, {404}), Written, Commits({"role"}, {404, 422})>>
GetProviderIngest == <<Member, Named, Reads({404}), Role(404), Reads({})>>
PostProviderIngest ==
    <<Origin, Member, Named, Written, Check({503}), Commits({"role"}, {403, 404, 409})>>
PutProviderIngest == <<Origin, Member, Named, Role(403)>> \o Receive
GetProviderMedia ==
    <<Member, Named, Reads({404}), Role(404), Asks({"role"}, {404}), Reads({})>>
PostProviderMedia ==
    Sender(403) \o <<Named, Check({503}), Written, Commits({"role"}, {403, 404, 409})>>
PutProviderMedia == Sender(403) \o <<Named>> \o Receive
PostProviderPlan ==
    Sender(403) \o <<Named, Check({503}), Written, Commits({"role"}, {403, 404, 409})>>
GetProviderPlans == Viewer(403) \o <<Named, Check({503}), Asks({"role"}, {403, 404})>>
PostProviderPlanCancel ==
    Sender(403) \o <<Named, Check({503}), Written, Commits({"role"}, {404, 503})>>
GetProviderCourse == Viewer(403) \o <<Named, Asks({"role"}, {404})>>
GetProviderPractice == Viewer(403) \o <<Named, Asks({"role"}, {404})>>
PostProviderPractice ==
    Sender(403) \o <<Named, Asks({"role"}, {404}), Written, Commits({"role"}, {404, 409})>>
PostProviderPublication ==
    <<Origin, Member, Named, Written, Check({503}), Reads({404}), Role(404),
      Commits({"role"}, {404, 409})>>

\* What an institute supervises and offers.
GetInstituteCollaborations == Viewer(403) \o <<Reads({})>>
PostInstituteDecision ==
    Sender(403) \o <<Named, Written, Commits({"role"}, {403, 404, 409})>>
GetAiPermissions == Viewer(404) \o <<Named, Asks({"role"}, {404}), Reads({})>>
PostAiPermission ==
    Sender(404) \o <<Named, Written, Asks({"role"}, {404}), Commits({}, {409})>>
GetAiTranscripts == Viewer(404) \o <<Named, Asks({"role"}, {404}), Reads({})>>
PostAiTranscript == Sender(404) \o <<Named, Written, Asks({"role"}, {404}), Commits({}, {404})>>
GetInstituteAssessments == Viewer(403) \o <<Named, Asks({"role"}, {404})>>
PostInstituteAssessment ==
    Sender(403) \o <<Named, Asks({"role"}, {404}), Written,
                     Commits({"role"}, {404, 409, 422})>>
GetInstituteCourse == Viewer(403) \o <<Named, Asks({"role"}, {404})>>
GetInstitutePractice == Viewer(403) \o <<Named, Asks({"role"}, {404})>>
PostInstitutePractice ==
    Sender(403) \o <<Named, Asks({"role"}, {404}), Written, Commits({"role"}, {404, 409})>>
GetCourseTeam == Viewer(403) \o <<Named, Asks({"role"}, {404}), Reads({})>>
PostCourseTeam ==
    Sender(403) \o <<Named, Written, Asks({"role"}, {404}), Commits({}, {404})>>
DeleteCourseTeam == Sender(403) \o <<Named, Asks({"role"}, {404}), Commits({}, {404})>>
PatchCourseTeam ==
    Sender(403) \o <<Named, Written, Asks({"role"}, {404}), Commits({}, {404})>>
GetInstituteEducators == Viewer(404) \o <<Reads({})>>
PostEducatorDecision ==
    Sender(404) \o <<Named, Written, Commits({"role"}, {403, 404, 409})>>
GetInstituteExams == Viewer(404) \o <<Reads({})>>
PostInstituteExam == Sender(404) \o <<Written, Commits({"role"}, {404, 422})>>
PatchInstituteExam == Sender(404) \o <<Named, Written, Commits({"role"}, {409})>>
GetInstituteReport ==
    Viewer(404) \o <<Named, Written, Asks({"role"}, {404}), Check({413})>>
GetInstituteQuestions == Viewer(404) \o <<Asks({"role"}, {404}), Reads({})>>
PostInstituteQuestion == Sender(404) \o <<Written, Commits({"role"}, {404, 422})>>
PatchInstituteQuestion == Sender(404) \o <<Named, Written, Commits({"role"}, {404, 422})>>
\* Starting, ending and cancelling a call; ending it closes its room.
PostInstituteCall ==
    Sender(404) \o <<Named, Written, Asks({"role"}, {403}), Commits({}, {404, 409}),
                     Check({503})>>
PostFollowUp ==
    Sender(404) \o <<Named, Written, Asks({"role"}, {403}), Commits({}, {404, 409})>>
GetInstituteOrders == Viewer(404) \o <<Asks({"role"}, {404})>>
PostCalls == Sender(404) \o <<Named, Written, Asks({"role"}, {403}), Commits({}, {404, 409})>>
PostConsent == Sender(404) \o <<Named, Written, Asks({"role"}, {403}), Commits({}, {404, 409})>>
GetInstituteServices == Viewer(404) \o <<Asks({"role"}, {404})>>
PostInstituteService == Sender(404) \o <<Written, Commits({"role"}, {404, 422})>>
PatchInstituteService == Sender(404) \o <<Named, Written, Commits({"role"}, {404})>>
GetSupervision == Viewer(403) \o <<Reads({})>>
PostSupervision == Sender(403) \o <<Named, Written, Commits({"role"}, {403, 404, 409})>>
GetAuthorizationLookedUpFirst == <<Named, Reads({404}), Member, Role(404)>>
GetAuthorization == <<Member, Named, Reads({404}), Role(404)>>

\* The team of a course; the place of its members is their assignment.
GetTeamConversation == <<Session, Named, Asks({"place"}, {404}), Reads({404})>>
PostTeamReply ==
    <<Origin, Session, Named, Written, Asks({"place"}, {404}), Commits({"place"}, {404})>>
PatchProblemRequest ==
    <<Origin, Session, Named, Written, Asks({"place"}, {404}), Commits({}, {404})>>
PatchProblemSession ==
    <<Origin, Session, Named, Written, Asks({"place"}, {404}), Commits({}, {404})>>

TeachingRoutes ==
    {GetAffiliations, PostAffiliation, DeleteAffiliation, GetEducatorCourses,
     PostEducatorCourse, GetEducatorAssessments, PostEducatorAssessment,
     PostEducatorIngest, PutEducatorIngest, PostEducatorPlan, GetEducatorPlans,
     PostEducatorPlanCancel, GetEducatorPractice, PostEducatorPractice,
     PostEducatorPublication, GetProviderCollaborations, PostProviderCollaboration,
     DeleteProviderCollaboration, GetProviderCourses, PostProviderCourse,
     GetProviderAssessments, PostProviderAssessment, GetProviderIngest,
     PostProviderIngest, PutProviderIngest, GetProviderMedia, PostProviderMedia,
     PutProviderMedia, PostProviderPlan, GetProviderPlans, PostProviderPlanCancel,
     GetProviderCourse, GetProviderPractice, PostProviderPractice,
     PostProviderPublication, GetInstituteCollaborations, PostInstituteDecision,
     GetAiPermissions, PostAiPermission, GetAiTranscripts, PostAiTranscript,
     GetInstituteAssessments, PostInstituteAssessment, GetInstituteCourse,
     GetInstitutePractice, PostInstitutePractice, GetCourseTeam, PostCourseTeam,
     DeleteCourseTeam, PatchCourseTeam, GetInstituteEducators, PostEducatorDecision,
     GetInstituteExams, PostInstituteExam, PatchInstituteExam, GetInstituteReport,
     GetInstituteQuestions, PostInstituteQuestion, PatchInstituteQuestion,
     PostInstituteCall, PostFollowUp, GetInstituteOrders, PostCalls, PostConsent,
     GetInstituteServices, PostInstituteService, PatchInstituteService, GetSupervision,
     PostSupervision, GetAuthorization, GetTeamConversation, PostTeamReply,
     PatchProblemRequest, PatchProblemSession}
================================================================================
