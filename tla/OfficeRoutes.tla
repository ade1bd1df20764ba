------------------------------ MODULE OfficeRoutes ------------------------------
(***************************************************************************)
(* The routes of administrators, organisations, benefactors and support,   *)
(* of those who ask for a role, and of workers and other services.         *)
(***************************************************************************)
EXTENDS RouteSteps

\* Accounts and their roles.
GetMe == <<Member>>
PostOnboard ==
    <<Origin, Written, Session, Reads({403}), Commits({}, {}), Asks({"role"}, {403})>>
GetRoleApplications == <<Session, Reads({401}), Reads({})>>
PostRoleApplication ==
    <<Origin, Session, Reads({401}), Reads({403}), Written, Commits({}, {409})>>

\* Administration.
GetAudit == Viewer(403) \o <<Written, Reads({})>>
GetDenaExams == Viewer(404) \o <<Asks({"role"}, {404}), Reads({})>>
PostDenaExam == Sender(404) \o <<Written, Commits({"role"}, {422})>>
PatchDenaExam == Sender(404) \o <<Named, Written, Commits({"role"}, {409})>>
GetDenaReport == Viewer(404) \o <<Named, Written, Asks({"role"}, {404}), Check({413})>>
GetMediaOperations == Viewer(403) \o <<Reads({})>>
\* Without its settings the deployment knows nobody.
Configured == Check({401})
GetOverview == <<Configured>> \o Viewer(403) \o <<Reads({})>>
GetDenaCollaborations == Viewer(403) \o <<Reads({})>>
PostDenaDecision == Sender(403) \o <<Named, Written, Commits({"role"}, {403, 404, 409})>>
GetDenaQuestions == Viewer(404) \o <<Asks({"role"}, {404}), Reads({})>>
PostDenaQuestion == Sender(404) \o <<Written, Commits({"role"}, {404})>>
PatchDenaQuestion == Sender(404) \o <<Named, Written, Commits({"role"}, {404})>>
GetRoleRequests == Viewer(403) \o <<Reads({})>>
PostRoleDecision == Sender(403) \o <<Named, Written, Commits({"role"}, {403, 404, 409})>>

\* Organisations and benefactors.
GetBenefactor == Viewer(403) \o <<Asks({"role"}, {404})>>
GetOrganization == Viewer(403) \o <<Asks({"role"}, {404})>>
GetApiKeys == Viewer(404) \o <<Reads({})>>
PostApiKey == <<Origin, Member, Written, Commits({"role"}, {404})>>
DeleteApiKey == <<Origin, Named, Member, Asks({"role"}, {404}), Commits({"role"}, {404})>>
GetStudents == Viewer(404) \o <<Asks({"role"}, {404}), Written, Reads({})>>
PostStudent == Sender(404) \o <<Written, Commits({"role"}, {404, 409})>>
DeleteStudent == <<Origin, Member, Named, Written, Commits({"role"}, {404})>>
\* Row after row; a row that is refused is reported at the end, and the next is tried.
PostImport ==
    <<Origin, Check({413}), Member, Asks({"role"}, {404}), Check({400, 413}),
      Commits({"role"}, {}), Commits({"role"}, {})>>
\* The key is looked up, its allowance is used up, and the student is added.
PostKeyedStudent ==
    <<Key(401), Commits({}, {429}), Check({400, 413}), Commits({"role", "key"}, {401, 409})>>

\* Technical support.
Supported == <<Configured, Member>>
Supporting == Supported \o <<Origin>>
Body == <<Check({413}), Written>>
GetNotifications == Supported \o <<Asks({"member"}, {403}), Reads({})>>
PatchNotification == Supporting \o <<Named, Commits({"member"}, {404})>>
GetTickets == Supported \o <<Asks({"member"}, {403}), Written, Reads({})>>
PostTicket == Supporting \o Body \o <<Commits({"member"}, {403})>>
GetTicket == Supported \o <<Named, Asks({"member"}, {404}), Reads({})>>
PostTicketReply == Supporting \o <<Named>> \o Body \o <<Commits({"member"}, {404})>>
GetInbox == Supported \o <<Asks({"role"}, {403}), Written, Reads({})>>
PatchTicket == Supporting \o <<Named>> \o Body \o <<Commits({"role"}, {404})>>
\* File after file: kept in the database, sent to the store, and noted as sent.
Upload == <<Check({400, 503}), Commits({"member"}, {404, 409}), Commits({}, {503})>>
PostAttachments ==
    Supporting \o <<Named>> \o Body \o <<Asks({"member"}, {404}), Reads({409})>>
        \o Upload \o Upload
GetAttachment == Supported \o <<Named, Asks({"member"}, {404}), Check({404})>>

\* Workers, the service that carries the calls, and whoever asks for the server's health.
PostQuotaSweep == <<Secret(404), Commits({}, {503})>>
PostCleanup == <<Secret(404), Written, Commits({}, {503})>>
PostIngestComplete == <<Secret(404), Named, Written, Commits({}, {404, 409, 503})>>
PostMediaComplete == <<Secret(401), Named, Written, Commits({}, {404, 409, 503})>>
PostJobFail == <<Secret(404), Named, Written, Commits({}, {409})>>
PostJobClaim == <<Secret(404), Written, Commits({}, {}), Commits({}, {})>>
PostScanResult == <<Secret(401), Written, Check({413}), Written, Commits({}, {409})>>
GetScanSource == <<Secret(401), Named, Reads({404})>>
GetScanQueue == <<Secret(401), Reads({503})>>
PostWebhook ==
    <<Check({400, 415}), Check({503}), Secret(401), Check({400}), Commits({}, {400, 404, 503})>>
GetLive == <<>>
GetReady == <<Reads({503})>>

OfficeRoutes ==
    {GetMe, PostOnboard, GetRoleApplications, PostRoleApplication, GetAudit, GetDenaExams,
     PostDenaExam, PatchDenaExam, GetDenaReport, GetMediaOperations, GetOverview,
     GetDenaCollaborations, PostDenaDecision, GetDenaQuestions, PostDenaQuestion,
     PatchDenaQuestion, GetRoleRequests, PostRoleDecision, GetBenefactor, GetOrganization,
     GetApiKeys, PostApiKey, DeleteApiKey, GetStudents, PostStudent, DeleteStudent,
     PostImport, PostKeyedStudent, GetNotifications, PatchNotification, GetTickets,
     PostTicket, GetTicket, PostTicketReply, GetInbox, PatchTicket, PostAttachments,
     GetAttachment, PostQuotaSweep, PostCleanup, PostIngestComplete, PostMediaComplete,
     PostJobFail, PostJobClaim, PostScanResult, GetScanSource, GetScanQueue, PostWebhook,
     GetLive, GetReady}
================================================================================
