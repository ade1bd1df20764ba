------------------------------- MODULE RouteSteps -------------------------------
(***************************************************************************)
(* The steps a handler of the HTTP interface is made of, in the order in   *)
(* which its code takes them.  A route is the sequence of its steps; each  *)
(* step names the facts about the caller it relies on and the statuses it  *)
(* refuses with.  Facts: "session" a signed-in session, "member" some      *)
(* active membership, "role" the active membership the route is for,       *)
(* "place" an enrolment in the course (or an assignment to its team),      *)
(* "token" the secret of a worker or a service, "key" an organisation's    *)
(* key that is not revoked.                                                *)
(***************************************************************************)
EXTENDS Sequences

Step(does, facts, refusals) == [does |-> does, facts |-> facts, refusals |-> refusals]

\* The request itself, the deployment, or another service is not as it should be.
Check(codes) == Step("check", {}, codes)
Origin == Check({403})
Named == Check({404})
Written == Check({400})

\* The session, and with it the memberships the caller has at this moment.
Session == Step("session", {"session"}, {401})
Member == Step("member", {"session", "member"}, {401})
\* Looks for the role among the memberships that were read with the session.
Role(code) == Step("role", {"role"}, {code})
Secret(code) == Step("session", {"token"}, {code})
Key(code) == Step("session", {"key"}, {code})

\* Reads rows, and answers with a refusal when they are not there.
Reads(codes) == Step("read", {}, codes)
\* Reads facts of the caller again, without a lock that would keep them.
Asks(facts, codes) == Step("ask", facts, codes)
HasPlace == Asks({"role", "place"}, {404})
\* Writes in one transaction, which holds the rows of these facts until it commits.
Commits(facts, codes) == Step("commit", facts, codes)

\* How a page that may be read, and a form that may be sent, usually begin.
Viewer(code) == <<Member, Role(code)>>
Sender(code) == <<Origin, Member, Role(code)>>
================================================================================
