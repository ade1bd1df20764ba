---------------------------- MODULE SupportTickets ----------------------------
(***************************************************************************)
(* Technical support.  A ticket goes to the least loaded operator; its     *)
(* deadline runs in working time, stops while the operators wait for the   *)
(* requester, and starts anew when the priority changes or a reply reopens *)
(* the ticket.  Every operation is one transaction that holds the rows it  *)
(* decides on: the ticket, or, to create one, those of the operators.      *)
(*                                                                         *)
(* A date is the number of working minutes before its minute, and its      *)
(* second.  In these terms the two walks over the calendar are arithmetic: *)
(* adding working minutes to a date adds to its minutes and keeps the      *)
(* second; between two dates lie the minutes from the one to the other,    *)
(* less the last one if it is not complete at the second of the later.     *)
(* Outside working hours the minutes stand still and the second goes round.*)
(***************************************************************************)
EXTENDS Integers, FiniteSets

CONSTANTS
    Requesters, Operators, \* people; an operator may ask for support too
    Tickets,
    Priorities,            \* the priorities in use
    Seconds,               \* the seconds of a minute at which something is done
    Steps, LastMoment,     \* by which, and until when, the clock moves
    MaxPauses              \* bound on the pauses of one deadline

SUPPORT_SLA_MINUTES ==
    [urgent |-> [firstResponse |-> 120, resolution |-> 480],
     high   |-> [firstResponse |-> 480, resolution |-> 960],
     normal |-> [firstResponse |-> 480, resolution |-> 1440],
     low    |-> [firstResponse |-> 960, resolution |-> 2400]]

ASSUME SupportAssumption ==
    /\ "normal" \in Priorities /\ Priorities \subseteq DOMAIN SUPPORT_SLA_MINUTES
    /\ 0 \in Seconds /\ Seconds \subseteq Nat
    /\ Steps \subseteq Nat /\ LastMoment \in Nat /\ MaxPauses \in Nat

Askers == Requesters \cup Operators
Unassigned == "unassigned"
ASSUME UnassignedAssumption == Unassigned \notin Askers

Unfinished == {"new", "in_progress", "waiting_requester"}
Finished == {"resolved", "closed"}

Never == [never |-> TRUE]
Moments == [minute : 0..LastMoment, second : Seconds] \cup {Never}
Deadlines == [minute : Nat, second : Seconds]

NoTicket == [status |-> "none"]
Ticket ==
    [requester : Askers, operator : Operators \cup {Unassigned},
     status : Unfinished \cup Finished, priority : Priorities,
     responded : BOOLEAN, firstDue : Deadlines, due : Deadlines,
     paused : Moments, finished : Moments]

VARIABLES
    moment,  \* the clock, in working minutes
    second,  \* and its second
    capable, \* operators whose membership is active and allows support
    ticket,  \* the tickets
    unread,  \* who has an unread notification of which ticket
    ran,     \* history: working minutes that have run against each deadline
    resumed  \* history: how often each deadline was paused and went on

clock == <<moment, second>>
history == <<ran, resumed>>
supportVars == <<clock, capable, ticket, unread, history>>

SupportInit ==
    /\ moment = 0 /\ second = 0 /\ capable = Operators /\ unread = {}
    /\ ticket = [t \in Tickets |-> NoTicket]
    /\ ran = [t \in Tickets |-> 0] /\ resumed = [t \in Tickets |-> 0]

Now == [minute |-> moment, second |-> second]

\* So many working minutes from now.
After(m) == [minute |-> moment + m, second |-> second]
FirstResponse(p) == After(SUPPORT_SLA_MINUTES[p].firstResponse)
Resolution(p) == After(SUPPORT_SLA_MINUTES[p].resolution)

\* Fault: a minute that has begun counts as a whole one.
TimeLeftRoundedUp(k) ==
    IF k.due.minute <= k.paused.minute THEN 0
    ELSE k.due.minute - k.paused.minute + (IF k.due.second > k.paused.second THEN 1 ELSE 0)

\* What is left of a deadline that was paused: the minutes that are complete.
TimeLeft(k) ==
    IF k.due.minute <= k.paused.minute THEN 0
    ELSE k.due.minute - k.paused.minute - (IF k.due.second < k.paused.second THEN 1 ELSE 0)

Notifies(u, t, by) ==
    unread' = IF u \in {by, Unassigned} THEN unread ELSE unread \cup {<<u, t>>}

\* Stores a ticket whose deadline starts anew.
Grants(t, k) ==
    /\ ticket' = [ticket EXCEPT ![t] = k]
    /\ ran' = [ran EXCEPT ![t] = 0] /\ resumed' = [resumed EXCEPT ![t] = 0]

\* Stores a ticket whose deadline stays, is paused, or goes on.
Keeps(t, k) ==
    LET goesOn == ticket[t].paused # Never /\ k.paused = Never IN
    /\ ticket' = [ticket EXCEPT ![t] = k]
    /\ resumed' = [resumed EXCEPT ![t] = IF goesOn THEN @ + 1 ELSE @]
    /\ UNCHANGED ran

(***************************************************************************)
(* A new ticket.                                                           *)
(***************************************************************************)
Workload(o) ==
    Cardinality({t \in Tickets : ticket[t].status \in Unfinished /\ ticket[t].operator = o})

\* Ties are broken by the order of the ids.
LeastLoaded ==
    IF capable = {} THEN {Unassigned}
    ELSE {o \in capable : \A other \in capable : Workload(o) <= Workload(other)}

CreateTechnicalSupportTicket(u, t) ==
    /\ ticket[t] = NoTicket
    /\ \E o \in LeastLoaded :
          /\ Grants(t, [requester |-> u, operator |-> o, status |-> "new",
                        priority |-> "normal", responded |-> FALSE,
                        firstDue |-> FirstResponse("normal"), due |-> Resolution("normal"),
                        paused |-> Never, finished |-> Never])
          /\ Notifies(o, t, u)
    /\ UNCHANGED <<clock, capable>>

(***************************************************************************)
(* Replies.                                                                *)
(***************************************************************************)
\* The ticket a reply reopens; an operator's reply also takes up a new one.
Reopened(t) ==
    LET k == ticket[t] IN
    [k EXCEPT !.status = "in_progress", !.paused = Never, !.finished = Never,
              !.due = CASE k.status = "waiting_requester" -> After(TimeLeft(k))
                        [] k.status \in Finished -> Resolution(k.priority)
                        [] OTHER -> @]

ReplyBySupport(u, t) ==
    LET k == ticket[t]
        r == [Reopened(t) EXCEPT !.responded = TRUE] IN
    /\ k # NoTicket /\ u \in capable
    /\ IF k.status \in Finished THEN Grants(t, r) ELSE Keeps(t, r)
    /\ Notifies(k.requester, t, u)
    /\ UNCHANGED <<clock, capable>>

ReplyByRequester(t) ==
    LET k == ticket[t] IN
    /\ k # NoTicket /\ k.requester \notin capable
    /\ CASE k.status \in Finished -> Grants(t, Reopened(t))
         [] k.status = "waiting_requester" -> Keeps(t, Reopened(t))
         [] OTHER -> UNCHANGED <<ticket, history>>
    /\ Notifies(k.operator, t, k.requester)
    /\ UNCHANGED <<clock, capable>>

(***************************************************************************)
(* What an operator sets.  The priority is taken into account first.       *)
(***************************************************************************)
\* Fault: a paused deadline is granted anew and stays paused since long ago.
RepricedWhenPaused(k, p) ==
    IF p = k.priority THEN k
    ELSE [k EXCEPT !.priority = p, !.due = Resolution(p),
                   !.firstDue = IF k.responded THEN @ ELSE FirstResponse(p)]

Repriced(k, p) ==
    IF p = k.priority THEN k
    ELSE [k EXCEPT !.priority = p, !.due = Resolution(p),
                   !.paused = IF @ = Never THEN @ ELSE Now,
                   !.firstDue = IF k.responded THEN @ ELSE FirstResponse(p)]

Moved(k, status) ==
    IF status = k.status THEN k
    ELSE [k EXCEPT
            !.status = status,
            !.paused = IF status = "waiting_requester" THEN Now ELSE Never,
            !.due = IF k.paused = Never THEN @ ELSE After(TimeLeft(k)),
            !.finished = IF status \in Finished THEN Now ELSE Never]

UpdateTechnicalSupportTicketByOperator(u, t, status, p) ==
    LET k == ticket[t]
        updated == Moved(Repriced(k, p), status) IN
    /\ k # NoTicket /\ u \in capable
    /\ status = "waiting_requester" => resumed[t] < MaxPauses
    /\ IF p # k.priority THEN Grants(t, updated) ELSE Keeps(t, updated)
    /\ IF status # k.status \/ p # k.priority
       THEN Notifies(k.requester, t, u) ELSE UNCHANGED unread
    /\ UNCHANGED <<clock, capable>>

(***************************************************************************)
(* Everything else.                                                        *)
(***************************************************************************)
\* Who no longer may read the ticket cannot mark its notification either.
MarkTechnicalSupportNotificationRead(u, t) ==
    /\ <<u, t>> \in unread /\ u \in capable \cup {ticket[t].requester}
    /\ unread' = unread \ {<<u, t>>}
    /\ UNCHANGED <<clock, capable, ticket, history>>

CapabilityChanges(o) ==
    /\ capable' = IF o \in capable THEN capable \ {o} ELSE capable \cup {o}
    /\ UNCHANGED <<clock, ticket, unread, history>>

TimePasses(d, s) ==
    /\ moment + d <= LastMoment
    /\ moment' = moment + d /\ second' = s
    /\ ran' = [t \in Tickets |->
           IF ticket[t] # NoTicket /\ ticket[t].paused = Never THEN ran[t] + d ELSE ran[t]]
    /\ UNCHANGED <<capable, ticket, unread, resumed>>

SupportNext ==
    \/ \E t \in Tickets :
          \/ ReplyByRequester(t)
          \/ \E u \in Askers :
                \/ CreateTechnicalSupportTicket(u, t)
                \/ MarkTechnicalSupportNotificationRead(u, t)
          \/ \E u \in Operators :
                \/ ReplyBySupport(u, t)
                \/ \E status \in Unfinished \cup Finished, p \in Priorities :
                      UpdateTechnicalSupportTicketByOperator(u, t, status, p)
    \/ \E o \in Operators : CapabilityChanges(o)
    \/ \E d \in Steps, s \in Seconds : TimePasses(d, s)

SupportSpec == SupportInit /\ [][SupportNext]_supportVars
------------------------------------------------------------------------------
(***************************************************************************)
(* Properties.                                                             *)
(***************************************************************************)
\* Every row is of its table: a deadline is paused exactly while the operators
\* wait for the requester, and only a finished ticket has a date for it.
SupportTypeOK ==
    /\ moment \in 0..LastMoment /\ second \in Seconds /\ capable \subseteq Operators
    /\ ticket \in [Tickets -> Ticket \cup {NoTicket}]
    /\ unread \subseteq Askers \X Tickets
    /\ ran \in [Tickets -> Nat] /\ resumed \in [Tickets -> Nat]
    /\ \A t \in Tickets : ticket[t] # NoTicket =>
          /\ ticket[t].paused # Never <=> ticket[t].status = "waiting_requester"
          /\ ticket[t].finished # Never <=> ticket[t].status \in Finished

\* However often a ticket is paused, resumed, reopened and given another priority,
\* its deadline is never put off: it is no further away than the promise less the
\* working time that ran against it, and past once that time is up.  Each resumption
\* brings it at most one minute closer, the one the division into minutes loses.
PromisedTimeIsKept ==
    \A t \in Tickets : ticket[t] # NoTicket =>
        LET k == ticket[t]
            since == IF k.paused = Never THEN moment ELSE k.paused.minute
            left == SUPPORT_SLA_MINUTES[k.priority].resolution - ran[t] IN
        /\ since + left - resumed[t] <= k.due.minute
        /\ k.due.minute <= since + (IF left > 0 THEN left ELSE 0)
================================================================================
