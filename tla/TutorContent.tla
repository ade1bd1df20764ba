------------------------------ MODULE TutorContent ------------------------------
(***************************************************************************)
(* The videos of one course that the tutor may quote.  Members of the      *)
(* responsible institute append grants and revocations, each under a       *)
(* request id that makes a repeated delivery harmless, and store the       *)
(* transcript of a video whose latest event is a grant; a revocation       *)
(* deletes the transcript.  Both hold the row of the video while they      *)
(* decide.  An event is dated by the start of its transaction, which may   *)
(* have waited for that row, so events need not be dated in the order in   *)
(* which they were decided.                                                *)
(***************************************************************************)
EXTENDS Naturals, FiniteSets

CONSTANTS
    Videos,      \* videos of the course that are ready
    Reviewers,   \* people who may be members of the responsible institute
    RequestIds,
    Deliveries   \* deliveries of a decision, repeated ones included

Decisions == {"granted", "revoked"}
NoEvent == [decision |-> "none"]
Event == [video : Videos, decision : Decisions, at : Nat \ {0}]

Unsent == [step |-> "unsent"]
Delivery ==
    [step : {"waiting", "ok", "conflict", "unavailable"}, by : Reviewers,
     id : RequestIds, video : Videos, decision : Decisions, at : Nat \ {0}]

VARIABLES
    members,      \* active members of the institute
    scope,        \* the course is the institute's, or its educator is supervised
    events,       \* the event of each member and request id
    deliveries,
    transcripts,  \* videos with stored passages
    saving        \* videos whose row an open transaction of a transcript holds

contentVars == <<members, scope, events, deliveries, transcripts, saving>>

ContentInit ==
    /\ members = Reviewers /\ scope = TRUE
    /\ events = [b \in Reviewers |-> [i \in RequestIds |-> NoEvent]]
    /\ deliveries = [d \in Deliveries |-> Unsent]
    /\ transcripts = {} /\ saving = {}

EventsOf(v) ==
    {e \in {events[b][i] : b \in Reviewers, i \in RequestIds} :
        e # NoEvent /\ e.video = v}

\* The latest event, by its date, is a grant.
Permitted(v) ==
    \E e \in EventsOf(v) :
        e.decision = "granted" /\ \A newer \in EventsOf(v) : newer.at <= e.at

(***************************************************************************)
(* A decision of the institute.                                            *)
(***************************************************************************)
Same(event, v, decision) == event.video = v /\ event.decision = decision

\* Fault: the request id alone tells a repeated delivery.
ReplayOfRequest(event, v, decision) == "ok"

Replay(event, v, decision) ==
    IF Same(event, v, decision) THEN "ok" ELSE "conflict"

Now == Cardinality({d \in Deliveries : deliveries[d] # Unsent}) + 1

\* The transaction starts and looks for an event of the same request.
StartDecision(d, b, i, v, decision) ==
    /\ deliveries[d] = Unsent /\ b \in members
    /\ deliveries' = [deliveries EXCEPT ![d] =
          [step |-> IF events[b][i] = NoEvent THEN "waiting"
                    ELSE Replay(events[b][i], v, decision),
           by |-> b, id |-> i, video |-> v, decision |-> decision, at |-> Now]]
    /\ UNCHANGED <<members, scope, events, transcripts, saving>>

RowIsFree(v) == v \notin saving

InScope(b, decision) == b \in members /\ (decision = "granted" => scope)

\* Fault: a revocation leaves the transcript to be overwritten.
KeepTranscript(v, decision) == transcripts

RevokeTranscript(v, decision) ==
    IF decision = "revoked" THEN transcripts \ {v} ELSE transcripts

\* It has the row of the video: it inserts the event or finds it inserted.
Decide(d) ==
    LET it == deliveries[d]
        found == events[it.by][it.id]
        Answer(step) == deliveries' = [deliveries EXCEPT ![d].step = step]
    IN  /\ it.step = "waiting" /\ RowIsFree(it.video)
        /\ \/ /\ InScope(it.by, it.decision) /\ found = NoEvent
              /\ events' = [events EXCEPT ![it.by][it.id] =
                    [video |-> it.video, decision |-> it.decision, at |-> it.at]]
              /\ transcripts' = RevokeTranscript(it.video, it.decision)
              /\ Answer("ok")
           \/ /\ InScope(it.by, it.decision) /\ found # NoEvent
              /\ Answer(Replay(found, it.video, it.decision))
              /\ UNCHANGED <<events, transcripts>>
           \/ /\ ~InScope(it.by, it.decision)
              /\ Answer("unavailable")
              /\ UNCHANGED <<events, transcripts>>
        /\ UNCHANGED <<members, scope, saving>>

(***************************************************************************)
(* The transcript of a video.                                              *)
(***************************************************************************)
LockTranscript(b, v) ==
    /\ RowIsFree(v) /\ InScope(b, "granted") /\ Permitted(v)
    /\ saving' = saving \cup {v}
    /\ UNCHANGED <<members, scope, events, deliveries, transcripts>>

SaveTranscript(v) ==
    /\ v \in saving
    /\ transcripts' = transcripts \cup {v} /\ saving' = saving \ {v}
    /\ UNCHANGED <<members, scope, events, deliveries>>

RollBackTranscript(v) ==
    /\ v \in saving
    /\ saving' = saving \ {v}
    /\ UNCHANGED <<members, scope, events, deliveries, transcripts>>

(***************************************************************************)
(* What changes elsewhere: members, and the supervision of the educator.   *)
(***************************************************************************)
ReviewersChange(b) ==
    /\ members' = IF b \in members THEN members \ {b} ELSE members \cup {b}
    /\ UNCHANGED <<scope, events, deliveries, transcripts, saving>>

ScopeChanges ==
    /\ scope' = ~scope
    /\ UNCHANGED <<members, events, deliveries, transcripts, saving>>

ContentNext ==
    \/ \E d \in Deliveries, b \in Reviewers, i \in RequestIds, v \in Videos,
          decision \in Decisions : StartDecision(d, b, i, v, decision)
    \/ \E d \in Deliveries : Decide(d)
    \/ \E b \in Reviewers, v \in Videos : LockTranscript(b, v)
    \/ \E v \in Videos : SaveTranscript(v) \/ RollBackTranscript(v)
    \/ \E b \in Reviewers : ReviewersChange(b)
    \/ ScopeChanges

ContentSpec == ContentInit /\ [][ContentNext]_contentVars

ContentTypeOK ==
    /\ members \subseteq Reviewers /\ scope \in BOOLEAN
    /\ \A b \in Reviewers, i \in RequestIds : events[b][i] \in Event \cup {NoEvent}
    /\ \A d \in Deliveries : deliveries[d] \in Delivery \cup {Unsent}
    /\ transcripts \subseteq Videos /\ saving \subseteq Videos

\* Passages are stored only of a video whose latest event is a grant, although
\* events are not inserted in the order of their dates and a transcript is
\* written some time after its permission was read.
TranscriptsArePermitted ==
    /\ \A v \in transcripts : Permitted(v)
    /\ \A v \in saving : Permitted(v)

\* Whoever is told that a decision is in force finds it under their request id,
\* however often and in whatever order it was delivered, and whoever is told of a
\* conflict finds another one there.
AcknowledgedDecisions ==
    \A d \in Deliveries :
        LET it == deliveries[d] IN
        /\ it.step = "ok" =>
              /\ events[it.by][it.id] # NoEvent
              /\ Same(events[it.by][it.id], it.video, it.decision)
        /\ it.step = "conflict" =>
              /\ events[it.by][it.id] # NoEvent
              /\ ~Same(events[it.by][it.id], it.video, it.decision)

\* The institute decides what the tutor may quote, and is told the truth about it.
PermissionsHold == TranscriptsArePermitted /\ AcknowledgedDecisions
================================================================================
