----------------------------- MODULE StudentsProofs -----------------------------
(***************************************************************************)
(* Proofs about technical support, SupportTickets and SupportAttachments,  *)
(* about the requests of Requests, and about all that MCStudents puts side *)
(* by side.                                                                *)
(***************************************************************************)
EXTENDS MCStudents, AssessmentProofs

--------------------------------------------------------------------------------
(***************************************************************************)
(* SupportTickets, for any people, tickets and priorities, and any steps   *)
(* of the clock.                                                           *)
(***************************************************************************)
Promised(p) == SUPPORT_SLA_MINUTES[p].resolution

\* The deadline of a ticket against which so much time has run by now, and which was
\* resumed so many times.
KeepsPromise(k, time, times, date) ==
    LET since == IF k.paused = Never THEN date ELSE k.paused.minute
        left == Promised(k.priority) - time IN
    /\ since + left - times <= k.due.minute
    /\ k.due.minute <= since + (IF left > 0 THEN left ELSE 0)

\* So many minutes may be left of a promise.
MayBeLeft(n, p, time, times) ==
    /\ Promised(p) - time - times <= n
    /\ n <= IF Promised(p) - time > 0 THEN Promised(p) - time ELSE 0

\* A ticket is paused exactly while the requester is asked.
InOrder(k) ==
    /\ k.paused # Never <=> k.status = "waiting_requester"
    /\ k.finished # Never <=> k.status \in Finished

SupportIInv == SupportTypeOK /\ PromisedTimeIsKept

LEMMA PromisesAreTimes ==
    \A p \in Priorities :
        /\ SUPPORT_SLA_MINUTES[p].firstResponse \in Nat
        /\ Promised(p) \in Nat /\ 0 < Promised(p)
<1> SUFFICES ASSUME NEW p \in Priorities
             PROVE  /\ SUPPORT_SLA_MINUTES[p].firstResponse \in Nat
                    /\ Promised(p) \in Nat /\ 0 < Promised(p)
    OBVIOUS
<1>1. p \in {"urgent", "high", "normal", "low"}
    BY SupportAssumption DEF SUPPORT_SLA_MINUTES
<1> QED
    BY <1>1 DEF SUPPORT_SLA_MINUTES, Promised

LEMMA MomentsAreMoments ==
    /\ Never \in Moments
    /\ \A m \in 0..LastMoment, s \in Seconds :
           LET x == [minute |-> m, second |-> s] IN x \in Moments /\ x # Never
    /\ \A x \in Moments : x # Never => x.minute \in 0..LastMoment /\ x.second \in Seconds
BY DEF Moments, Never

LEMMA TicketsAreThere == \A k \in Ticket : k # NoTicket
BY DEF Ticket, NoTicket, Unfinished, Finished

\* The clock shows a date, and a date so many minutes later can be a deadline.
LEMMA ClockTypes ==
    ASSUME SupportIInv
    PROVE  /\ moment \in 0..LastMoment /\ moment \in Nat /\ second \in Seconds
           /\ Now \in Moments /\ Now # Never /\ Now.minute = moment
           /\ Now.second = second
           /\ \A n \in Nat : /\ After(n) \in Deadlines /\ After(n).minute = moment + n
                             /\ After(n).second = second
<1>1. moment \in 0..LastMoment /\ moment \in Nat /\ second \in Seconds
    BY SupportAssumption DEF SupportIInv, SupportTypeOK
<1> QED
    BY <1>1, MomentsAreMoments DEF Now, After, Deadlines

\* A step that stores one ticket.
LEMMA StoreTicket ==
    ASSUME SupportIInv, NEW t \in Tickets, NEW k \in Ticket,
           ticket' = [ticket EXCEPT ![t] = k], UNCHANGED <<clock, capable>>,
           unread' \subseteq Askers \X Tickets,
           NEW time \in Nat, ran' = [ran EXCEPT ![t] = time],
           NEW times \in Nat, resumed' = [resumed EXCEPT ![t] = times],
           InOrder(k), KeepsPromise(k, time, times, moment)
    PROVE  SupportIInv'
<1>1. \A s \in Tickets : /\ ticket'[s] = IF s = t THEN k ELSE ticket[s]
                         /\ ran'[s] = IF s = t THEN time ELSE ran[s]
                         /\ resumed'[s] = IF s = t THEN times ELSE resumed[s]
    BY DEF SupportIInv, SupportTypeOK
<1>2. /\ ticket' \in [Tickets -> Ticket \cup {NoTicket}]
      /\ ran' \in [Tickets -> Nat] /\ resumed' \in [Tickets -> Nat]
    BY DEF SupportIInv, SupportTypeOK
<1>3. moment' = moment /\ second' = second /\ capable' = capable
    BY DEF clock
<1>4. \A s \in Tickets : ticket'[s] # NoTicket => InOrder(ticket'[s])
    BY <1>1 DEF SupportIInv, SupportTypeOK, InOrder
<1>5. SupportTypeOK'
    BY <1>2, <1>3, <1>4 DEF SupportIInv, SupportTypeOK, InOrder
<1>6. \A s \in Tickets : ticket'[s] # NoTicket =>
          KeepsPromise(ticket'[s], ran'[s], resumed'[s], moment)
    BY <1>1 DEF SupportIInv, PromisedTimeIsKept, KeepsPromise, Promised
<1>7. PromisedTimeIsKept'
    BY <1>3, <1>6 DEF PromisedTimeIsKept, KeepsPromise, Promised
<1> QED
    BY <1>5, <1>7 DEF SupportIInv

LEMMA NotifiesKeeps ==
    ASSUME SupportIInv, NEW t \in Tickets, NEW u \in Askers \cup {Unassigned}, NEW by,
           Notifies(u, t, by)
    PROVE  unread' \subseteq Askers \X Tickets
BY DEF Notifies, SupportIInv, SupportTypeOK

LEMMA TicketTypes ==
    ASSUME SupportIInv, NEW t \in Tickets, ticket[t] # NoTicket
    PROVE  /\ ticket[t] \in Ticket /\ InOrder(ticket[t])
           /\ ran[t] \in Nat /\ resumed[t] \in Nat
           /\ KeepsPromise(ticket[t], ran[t], resumed[t], moment)
BY DEF SupportIInv, SupportTypeOK, PromisedTimeIsKept, InOrder, KeepsPromise, Promised

\* The parts of a ticket a deadline is made of.
LEMMA TicketParts ==
    ASSUME NEW k \in Ticket
    PROVE  /\ k.due.minute \in Nat /\ k.due.second \in Nat
           /\ k.priority \in Priorities /\ Promised(k.priority) \in Nat
           /\ 0 < Promised(k.priority)
           /\ k.status \in Unfinished \cup Finished
           /\ k.paused # Never => k.paused.minute \in Nat /\ k.paused.second \in Nat
<1>1. k.due \in Deadlines /\ k.paused \in Moments /\ k.priority \in Priorities
          /\ k.status \in Unfinished \cup Finished
    BY DEF Ticket
<1>2. k.due.minute \in Nat /\ k.due.second \in Nat
    BY <1>1, SupportAssumption DEF Deadlines
<1>3. k.paused # Never => k.paused.minute \in Nat /\ k.paused.second \in Nat
    <2> SUFFICES ASSUME k.paused # Never
                 PROVE  k.paused.minute \in Nat /\ k.paused.second \in Nat
        OBVIOUS
    <2>1. k.paused.minute \in 0..LastMoment /\ k.paused.second \in Seconds
        BY <1>1, MomentsAreMoments
    <2>2. 0..LastMoment \subseteq Nat /\ Seconds \subseteq Nat
        BY SupportAssumption
    <2> QED
        BY <2>1, <2>2
<1> QED
    BY <1>1, <1>2, <1>3, PromisesAreTimes

\* The minutes that are left when a deadline goes on: one may be lost, none is won.
LEMMA ResumingKeepsPromise ==
    ASSUME NEW k \in Ticket, NEW time \in Nat, NEW times \in Nat, NEW date \in Nat,
           k.paused # Never, KeepsPromise(k, time, times, date)
    PROVE  TimeLeft(k) \in Nat /\ MayBeLeft(TimeLeft(k), k.priority, time, times + 1)
<1>1. /\ k.due.minute \in Nat /\ k.due.second \in Nat /\ Promised(k.priority) \in Nat
      /\ k.paused.minute \in Nat /\ k.paused.second \in Nat
    BY TicketParts
<1>2. TimeLeft(k) \in Nat
    BY <1>1 DEF TimeLeft
<1>3. /\ TimeLeft(k) <= IF k.due.minute > k.paused.minute
                        THEN k.due.minute - k.paused.minute ELSE 0
      /\ k.due.minute - k.paused.minute - 1 <= TimeLeft(k)
    BY <1>1 DEF TimeLeft
<1>4. /\ k.paused.minute + (Promised(k.priority) - time) - times <= k.due.minute
      /\ k.due.minute <= k.paused.minute + (IF Promised(k.priority) - time > 0
                                            THEN Promised(k.priority) - time ELSE 0)
    BY DEF KeepsPromise
<1> QED
    BY <1>1, <1>2, <1>3, <1>4 DEF MayBeLeft

\* A deadline that runs, so many minutes from now.
LEMMA RunningKeepsPromise ==
    ASSUME SupportIInv, NEW k, k.paused = Never, k.priority \in Priorities,
           NEW n \in Nat, k.due = After(n),
           NEW time \in Nat, NEW times \in Nat, MayBeLeft(n, k.priority, time, times)
    PROVE  KeepsPromise(k, time, times, moment)
<1>1. k.due.minute = moment + n /\ moment \in Nat /\ Promised(k.priority) \in Nat
    BY ClockTypes, PromisesAreTimes
<1> QED
    BY <1>1 DEF MayBeLeft, KeepsPromise

LEMMA CreateTicketKeeps ==
    ASSUME SupportIInv, NEW t \in Tickets, NEW u \in Askers, CreateTechnicalSupportTicket(u, t)
    PROVE  SupportIInv'
<1>1. PICK o \in LeastLoaded :
          /\ Grants(t, [requester |-> u, operator |-> o, status |-> "new",
                        priority |-> "normal", responded |-> FALSE,
                        firstDue |-> FirstResponse("normal"), due |-> Resolution("normal"),
                        paused |-> Never, finished |-> Never])
          /\ Notifies(o, t, u)
    BY DEF CreateTechnicalSupportTicket
<1> DEFINE k == [requester |-> u, operator |-> o, status |-> "new",
                 priority |-> "normal", responded |-> FALSE,
                 firstDue |-> FirstResponse("normal"), due |-> Resolution("normal"),
                 paused |-> Never, finished |-> Never]
<1>2. o \in Operators \cup {Unassigned}
    BY DEF LeastLoaded, SupportIInv, SupportTypeOK
<1>3. "normal" \in Priorities /\ Promised("normal") \in Nat /\ 0 < Promised("normal")
          /\ SUPPORT_SLA_MINUTES["normal"].firstResponse \in Nat
    BY SupportAssumption, PromisesAreTimes
<1>4. /\ Resolution("normal") = After(Promised("normal"))
      /\ Resolution("normal") \in Deadlines /\ FirstResponse("normal") \in Deadlines
    BY <1>3, ClockTypes DEF Resolution, FirstResponse, Promised
<1>5. k \in Ticket
    BY <1>2, <1>3, <1>4, MomentsAreMoments DEF Ticket, Unfinished
<1>6. InOrder(k)
    BY DEF InOrder, Finished
<1>7. k.paused = Never /\ k.priority = "normal" /\ k.due = After(Promised("normal"))
    BY <1>4
<1>8. /\ ticket' = [ticket EXCEPT ![t] = k] /\ UNCHANGED <<clock, capable>>
      /\ ran' = [ran EXCEPT ![t] = 0] /\ resumed' = [resumed EXCEPT ![t] = 0]
    BY <1>1 DEF Grants, CreateTechnicalSupportTicket
<1>9. unread' \subseteq Askers \X Tickets
    BY <1>1, <1>2, NotifiesKeeps DEF Askers
<1> HIDE DEF k
<1>10. MayBeLeft(Promised("normal"), k.priority, 0, 0)
    BY <1>3, <1>7 DEF MayBeLeft
<1>11. KeepsPromise(k, 0, 0, moment)
    BY <1>3, <1>7, <1>10, RunningKeepsPromise
<1> QED
    BY <1>5, <1>6, <1>8, <1>9, <1>11, StoreTicket

\* What the history says after a reply has reopened a ticket.
RanAfterReply(t) == IF ticket[t].status \in Finished THEN 0 ELSE ran[t]
ResumedAfterReply(t) ==
    IF ticket[t].status \in Finished THEN 0
    ELSE IF ticket[t].paused # Never THEN resumed[t] + 1 ELSE resumed[t]

\* A reply that reopens a ticket leaves it running, with what is left of its deadline or,
\* if it was finished, with a new one.
LEMMA ReopeningKeepsPromise ==
    ASSUME SupportIInv, NEW t \in Tickets, ticket[t] # NoTicket
    PROVE  LET r == Reopened(t) IN
           /\ r \in Ticket /\ r.paused = Never /\ r.finished = Never
           /\ r.status = "in_progress" /\ InOrder(r)
           /\ KeepsPromise(r, RanAfterReply(t), ResumedAfterReply(t), moment)
<1> DEFINE k == ticket[t]
           r == Reopened(t)
           due == CASE k.status = "waiting_requester" -> After(TimeLeft(k))
                    [] k.status \in Finished -> Resolution(k.priority)
                    [] OTHER -> k.due
<1>1. /\ k \in Ticket /\ InOrder(k) /\ ran[t] \in Nat /\ resumed[t] \in Nat
      /\ KeepsPromise(k, ran[t], resumed[t], moment)
      /\ moment \in Nat
    BY TicketTypes, ClockTypes
<1>2. /\ k.priority \in Priorities /\ Promised(k.priority) \in Nat /\ 0 < Promised(k.priority)
      /\ k.due \in Deadlines
    BY <1>1, TicketParts DEF Ticket
<1>3. r = [k EXCEPT !.status = "in_progress", !.paused = Never, !.finished = Never,
                    !.due = due]
    BY DEF Reopened
<1> HIDE DEF r
<1>4. ASSUME due \in Deadlines
      PROVE  /\ r \in Ticket /\ r.paused = Never /\ r.finished = Never
             /\ r.status = "in_progress" /\ r.due = due /\ r.priority = k.priority
    <2> HIDE DEF due
    <2> QED
        BY <1>1, <1>3, <1>4, MomentsAreMoments DEF Ticket, Unfinished
<1>5. /\ due \in Deadlines
      /\ KeepsPromise(r, RanAfterReply(t), ResumedAfterReply(t), moment)
    <2>1. CASE k.status = "waiting_requester"
        <3>1. k.paused # Never /\ k.status \notin Finished
            BY <1>1, <2>1 DEF InOrder, Finished
        <3>2. RanAfterReply(t) = ran[t] /\ ResumedAfterReply(t) = resumed[t] + 1
            BY <3>1 DEF RanAfterReply, ResumedAfterReply
        <3>3. TimeLeft(k) \in Nat
                  /\ MayBeLeft(TimeLeft(k), k.priority, ran[t], resumed[t] + 1)
            BY <1>1, <3>1, ResumingKeepsPromise
        <3>4. due = After(TimeLeft(k)) /\ due \in Deadlines
            BY <2>1, <3>1, <3>3, ClockTypes
        <3>5. r.paused = Never /\ r.due = After(TimeLeft(k)) /\ r.priority = k.priority
            BY <1>4, <3>4
        <3> HIDE DEF k, due
        <3>6. KeepsPromise(r, ran[t], resumed[t] + 1, moment)
            BY <1>1, <1>2, <3>3, <3>5, RunningKeepsPromise
        <3> QED
            BY <3>2, <3>4, <3>6
    <2>2. CASE k.status \in Finished
        <3>1. RanAfterReply(t) = 0 /\ ResumedAfterReply(t) = 0
            BY <2>2 DEF RanAfterReply, ResumedAfterReply
        <3>2. due = After(Promised(k.priority)) /\ due \in Deadlines
            BY <1>2, <2>2, ClockTypes DEF Finished, Resolution, Promised
        <3>3. r.paused = Never /\ r.due = After(Promised(k.priority)) /\ r.priority = k.priority
            BY <1>4, <3>2
        <3> HIDE DEF k, due
        <3>4. MayBeLeft(Promised(k.priority), r.priority, 0, 0)
            BY <1>2, <3>3 DEF MayBeLeft
        <3>5. KeepsPromise(r, 0, 0, moment)
            BY <1>2, <3>3, <3>4, RunningKeepsPromise
        <3> QED
            BY <3>1, <3>2, <3>5
    <2>3. CASE k.status # "waiting_requester" /\ k.status \notin Finished
        <3>1. due = k.due /\ k.paused = Never
            BY <1>1, <2>3 DEF InOrder
        <3>2. RanAfterReply(t) = ran[t] /\ ResumedAfterReply(t) = resumed[t]
            BY <2>3, <3>1 DEF RanAfterReply, ResumedAfterReply
        <3>3. r.paused = k.paused /\ r.due = k.due /\ r.priority = k.priority
            BY <1>2, <1>4, <3>1
        <3> HIDE DEF k, due
        <3>4. KeepsPromise(r, ran[t], resumed[t], moment)
            BY <1>1, <3>3 DEF KeepsPromise
        <3> QED
            BY <1>2, <3>1, <3>2, <3>4
    <2> QED
        BY <2>1, <2>2, <2>3
<1> HIDE DEF due
<1>6. InOrder(r)
    BY <1>4, <1>5 DEF InOrder, Finished
<1> QED
    BY <1>4, <1>5, <1>6 DEF r

LEMMA ReplyKeeps ==
    ASSUME SupportIInv, NEW t \in Tickets,
           (\E u \in Operators : ReplyBySupport(u, t)) \/ ReplyByRequester(t)
    PROVE  SupportIInv'
<1> DEFINE k == ticket[t]
           ranNext == RanAfterReply(t)
           resumedNext == ResumedAfterReply(t)
<1>1. k # NoTicket /\ UNCHANGED <<clock, capable>>
    BY DEF ReplyBySupport, ReplyByRequester
<1>2. k \in Ticket /\ ranNext \in Nat /\ resumedNext \in Nat /\ InOrder(k)
    BY <1>1, TicketTypes DEF RanAfterReply, ResumedAfterReply
<1>3. k.requester \in Askers /\ k.operator \in Askers \cup {Unassigned}
    BY <1>2 DEF Ticket, Askers
<1>4. unread' \subseteq Askers \X Tickets
    BY <1>3, NotifiesKeeps DEF ReplyBySupport, ReplyByRequester
<1>5. /\ Reopened(t) \in Ticket /\ InOrder(Reopened(t)) /\ Reopened(t).paused = Never
      /\ KeepsPromise(Reopened(t), ranNext, resumedNext, moment)
    BY <1>1, ReopeningKeepsPromise
<1>6. ASSUME NEW r, r.paused = Never, IF k.status \in Finished THEN Grants(t, r) ELSE Keeps(t, r)
      PROVE  /\ ticket' = [ticket EXCEPT ![t] = r]
             /\ ran' = [ran EXCEPT ![t] = ranNext]
             /\ resumed' = [resumed EXCEPT ![t] = resumedNext]
    BY <1>6 DEF Grants, Keeps, RanAfterReply, ResumedAfterReply, SupportIInv, SupportTypeOK
<1> HIDE DEF ranNext, resumedNext
<1>7. ASSUME NEW u \in Operators, ReplyBySupport(u, t) PROVE SupportIInv'
    <2> DEFINE r == [Reopened(t) EXCEPT !.responded = TRUE]
    <2>1. /\ r \in Ticket /\ r.status = Reopened(t).status /\ r.paused = Reopened(t).paused
          /\ r.finished = Reopened(t).finished /\ r.priority = Reopened(t).priority
          /\ r.due = Reopened(t).due
        BY <1>5 DEF Ticket
    <2>2. IF k.status \in Finished THEN Grants(t, r) ELSE Keeps(t, r)
        BY <1>7 DEF ReplyBySupport
    <2> HIDE DEF r, k
    <2>3. InOrder(r) /\ KeepsPromise(r, ranNext, resumedNext, moment)
        BY <1>5, <2>1 DEF InOrder, KeepsPromise
    <2> QED
        BY <1>1, <1>2, <1>4, <1>5, <1>6, <2>1, <2>2, <2>3, StoreTicket
<1>8. ASSUME ReplyByRequester(t) PROVE SupportIInv'
    <2>1. CASE k.status \in Finished \cup {"waiting_requester"}
        <3>1. IF k.status \in Finished THEN Grants(t, Reopened(t)) ELSE Keeps(t, Reopened(t))
            BY <1>8, <2>1 DEF ReplyByRequester, Finished
        <3> HIDE DEF k
        <3> QED
            BY <1>1, <1>2, <1>4, <1>5, <1>6, <3>1, StoreTicket
    <2>2. CASE k.status \notin Finished \cup {"waiting_requester"}
        <3>1. UNCHANGED <<ticket, history>>
            BY <1>8, <2>2 DEF ReplyByRequester
        <3> QED
            BY <1>1, <1>4, <3>1
            DEF history, clock, SupportIInv, SupportTypeOK, PromisedTimeIsKept
    <2> QED
        BY <2>1, <2>2
<1> QED
    BY <1>7, <1>8

\* Another priority grants the deadline anew, and a paused one stays paused, since now.
LEMMA RepricingKeepsPromise ==
    ASSUME SupportIInv, NEW t \in Tickets, ticket[t] # NoTicket, NEW p \in Priorities,
           p # ticket[t].priority
    PROVE  LET r == Repriced(ticket[t], p) IN
           /\ r \in Ticket /\ InOrder(r) /\ r.status = ticket[t].status
           /\ KeepsPromise(r, 0, 0, moment)
           /\ r.paused # Never => TimeLeft(r) = Promised(r.priority)
<1> DEFINE k == ticket[t]
           r == Repriced(k, p)
           paused == IF k.paused = Never THEN k.paused ELSE Now
           firstDue == IF k.responded THEN k.firstDue ELSE FirstResponse(p)
<1>1. /\ k \in Ticket /\ InOrder(k)
    BY TicketTypes
<1>2. r = [k EXCEPT !.priority = p, !.due = Resolution(p), !.paused = paused,
                    !.firstDue = firstDue]
    BY DEF Repriced
<1>3. Promised(p) \in Nat /\ 0 < Promised(p) /\ SUPPORT_SLA_MINUTES[p].firstResponse \in Nat
    BY PromisesAreTimes
<1>4. /\ FirstResponse(p) \in Deadlines /\ Resolution(p) \in Deadlines
      /\ Resolution(p).minute = moment + Promised(p) /\ Resolution(p).second = second
    BY <1>3, ClockTypes DEF FirstResponse, Resolution, Promised
<1>5. firstDue \in Deadlines
    BY <1>1, <1>4 DEF Ticket
<1>6. /\ paused \in Moments /\ (paused = Never <=> k.paused = Never)
      /\ paused # Never => paused.minute = moment /\ paused.second = second
    BY <1>1, ClockTypes DEF Ticket
<1> HIDE DEF r, paused, firstDue
<1>7. /\ r \in Ticket /\ r.status = k.status /\ r.paused = paused /\ r.finished = k.finished
      /\ r.priority = p /\ r.due = Resolution(p)
    BY <1>1, <1>2, <1>4, <1>5, <1>6 DEF Ticket
<1>8. InOrder(r)
    BY <1>1, <1>6, <1>7 DEF InOrder
<1>9. moment \in Nat /\ second \in Nat
    BY ClockTypes, SupportAssumption
<1>10. KeepsPromise(r, 0, 0, moment)
    BY <1>3, <1>4, <1>6, <1>7, <1>9 DEF KeepsPromise
<1>11. r.paused # Never => TimeLeft(r) = Promised(r.priority)
    BY <1>3, <1>4, <1>6, <1>7, <1>9 DEF TimeLeft
<1> QED
    BY <1>7, <1>8, <1>10, <1>11 DEF r

\* Another status stops the deadline or lets it go on with what is left of it.
LEMMA MovingKeepsPromise ==
    ASSUME SupportIInv, NEW k \in Ticket, InOrder(k), NEW status \in Unfinished \cup Finished,
           NEW time \in Nat, NEW times \in Nat, KeepsPromise(k, time, times, moment),
           k.paused # Never /\ status # k.status =>
               TimeLeft(k) \in Nat /\ MayBeLeft(TimeLeft(k), k.priority, time, times)
    PROVE  LET m == Moved(k, status) IN
           /\ m \in Ticket /\ InOrder(m) /\ m.status = status
           /\ KeepsPromise(m, time, times, moment)
<1> DEFINE m == Moved(k, status)
           paused == IF status = "waiting_requester" THEN Now ELSE Never
           due == IF k.paused = Never THEN k.due ELSE After(TimeLeft(k))
           finished == IF status \in Finished THEN Now ELSE Never
<1>1. CASE status = k.status
    BY <1>1 DEF Moved
<1>2. CASE status # k.status
    <2>1. m = [k EXCEPT !.status = status, !.paused = paused, !.due = due,
                        !.finished = finished]
        BY <1>2 DEF Moved
    <2>2. /\ paused \in Moments /\ finished \in Moments
          /\ paused # Never <=> status = "waiting_requester"
          /\ paused # Never => paused.minute = moment
          /\ finished # Never <=> status \in Finished
        BY ClockTypes, MomentsAreMoments
    <2>3. due \in Deadlines
        BY <1>2, ClockTypes DEF Ticket
    <2>4. k.paused # Never => paused = Never
        BY <1>2 DEF InOrder
    <2>5. k.paused = Never => due = k.due
        OBVIOUS
    <2>6. k.paused # Never => due = After(TimeLeft(k))
        OBVIOUS
    <2> HIDE DEF m, paused, due, finished
    <2>7. /\ m \in Ticket /\ m.status = status /\ m.paused = paused /\ m.finished = finished
          /\ m.priority = k.priority /\ m.due = due
        BY <2>1, <2>2, <2>3 DEF Ticket
    <2>8. InOrder(m)
        BY <2>2, <2>7 DEF InOrder
    <2>9. k.priority \in Priorities
        BY TicketParts
    <2>10. KeepsPromise(m, time, times, moment)
        <3>1. CASE k.paused = Never
            BY <2>2, <2>5, <2>7, <3>1 DEF KeepsPromise
        <3>2. CASE k.paused # Never
            BY <1>2, <2>4, <2>6, <2>7, <2>9, <3>2, RunningKeepsPromise
        <3> QED
            BY <3>1, <3>2
    <2> QED
        BY <2>7, <2>8, <2>10 DEF m
<1> QED
    BY <1>1, <1>2

\* The operator's priority is taken into account first, and a deadline granted anew and
\* resumed in one step is whole.
LEMMA UpdateKeeps ==
    ASSUME SupportIInv, NEW t \in Tickets, NEW u \in Operators,
           NEW status \in Unfinished \cup Finished, NEW p \in Priorities,
           UpdateTechnicalSupportTicketByOperator(u, t, status, p)
    PROVE  SupportIInv'
<1> DEFINE k == ticket[t]
           m == Moved(Repriced(k, p), status)
<1>1. k # NoTicket /\ UNCHANGED <<clock, capable>>
    BY DEF UpdateTechnicalSupportTicketByOperator
<1>2. /\ k \in Ticket /\ InOrder(k) /\ ran[t] \in Nat /\ resumed[t] \in Nat
      /\ KeepsPromise(k, ran[t], resumed[t], moment) /\ moment \in Nat
    BY <1>1, TicketTypes, ClockTypes
<1>3. unread' \subseteq Askers \X Tickets
    <2>1. k.requester \in Askers \cup {Unassigned}
        BY <1>2 DEF Ticket
    <2>2. Notifies(k.requester, t, u) \/ UNCHANGED unread
        BY DEF UpdateTechnicalSupportTicketByOperator
    <2> QED
        BY <2>1, <2>2, NotifiesKeeps DEF SupportIInv, SupportTypeOK
<1>4. CASE p # k.priority
    <2> DEFINE r == Repriced(k, p)
    <2>1. /\ r \in Ticket /\ InOrder(r) /\ KeepsPromise(r, 0, 0, moment)
          /\ r.paused # Never => TimeLeft(r) = Promised(r.priority)
        BY <1>1, <1>4, RepricingKeepsPromise
    <2>2. /\ ticket' = [ticket EXCEPT ![t] = m]
          /\ ran' = [ran EXCEPT ![t] = 0] /\ resumed' = [resumed EXCEPT ![t] = 0]
        BY <1>4 DEF UpdateTechnicalSupportTicketByOperator, Grants
    <2> HIDE DEF r
    <2>3. Promised(r.priority) \in Nat
        BY <2>1, TicketParts
    <2>4. r.paused # Never => TimeLeft(r) \in Nat /\ MayBeLeft(TimeLeft(r), r.priority, 0, 0)
        BY <2>1, <2>3 DEF MayBeLeft
    <2>5. m \in Ticket /\ InOrder(m) /\ KeepsPromise(m, 0, 0, moment)
        BY <2>1, <2>4, MovingKeepsPromise DEF r
    <2> HIDE DEF m
    <2> QED
        BY <1>1, <1>3, <2>2, <2>5, StoreTicket
<1>5. CASE p = k.priority
    <2> DEFINE times == IF k.paused # Never /\ m.paused = Never
                        THEN resumed[t] + 1 ELSE resumed[t]
    <2>1. Repriced(k, p) = k
        BY <1>5 DEF Repriced
    <2>2. /\ ticket' = [ticket EXCEPT ![t] = m] /\ ran' = [ran EXCEPT ![t] = ran[t]]
          /\ resumed' = [resumed EXCEPT ![t] = times]
        BY <1>5 DEF UpdateTechnicalSupportTicketByOperator, Keeps, SupportIInv, SupportTypeOK
    <2>3. m \in Ticket /\ InOrder(m) /\ KeepsPromise(m, ran[t], times, moment)
        <3>1. CASE k.paused = Never
            <4>1. times = resumed[t]
                BY <3>1
            <4> QED
                BY <1>2, <2>1, <3>1, <4>1, MovingKeepsPromise
        <3>2. CASE k.paused # Never /\ status = k.status
            <4>1. m = k
                BY <2>1, <3>2 DEF Moved
            <4> QED
                BY <1>2, <3>2, <4>1
        <3>3. CASE k.paused # Never /\ status # k.status
            <4>1. m.paused = Never
                BY <1>2, <2>1, <3>3 DEF Moved, InOrder, Ticket
            <4>2. times = resumed[t] + 1 /\ times \in Nat
                BY <1>2, <3>3, <4>1
            <4>3. TimeLeft(k) \in Nat
                      /\ MayBeLeft(TimeLeft(k), k.priority, ran[t], resumed[t] + 1)
                BY <1>2, <3>3, ResumingKeepsPromise
            <4>4. KeepsPromise(k, ran[t], resumed[t] + 1, moment)
                <5>1. /\ k.due.minute \in Nat /\ k.paused.minute \in Nat
                      /\ Promised(k.priority) \in Nat
                    BY <1>2, <3>3, TicketParts
                <5> QED
                    BY <1>2, <3>3, <5>1 DEF KeepsPromise
            <4> HIDE DEF times
            <4> QED
                BY <1>2, <2>1, <4>2, <4>3, <4>4, MovingKeepsPromise
        <3> QED
            BY <3>1, <3>2, <3>3
    <2>4. times \in Nat
        BY <1>2
    <2> HIDE DEF times, m
    <2> QED
        BY <1>1, <1>2, <1>3, <2>2, <2>3, <2>4, StoreTicket
<1> QED
    BY <1>4, <1>5

\* The clock runs against the deadlines that are not paused.
LEMMA TimeKeeps ==
    ASSUME SupportIInv, NEW d \in Steps, NEW s \in Seconds, TimePasses(d, s)
    PROVE  SupportIInv'
<1>1. /\ UNCHANGED <<capable, ticket, unread, resumed>>
      /\ moment' = moment + d /\ second' = s
      /\ ran' = [t \in Tickets |->
             IF ticket[t] # NoTicket /\ ticket[t].paused = Never THEN ran[t] + d ELSE ran[t]]
    BY DEF TimePasses
<1>2. d \in Nat /\ moment \in Nat /\ moment' \in 0..LastMoment
    BY <1>1, SupportAssumption DEF TimePasses, SupportIInv, SupportTypeOK
<1>3. ran' \in [Tickets -> Nat]
    BY <1>1, <1>2 DEF SupportIInv, SupportTypeOK
<1>4. SupportTypeOK'
    BY <1>1, <1>2, <1>3 DEF SupportIInv, SupportTypeOK
<1>5. ASSUME NEW t \in Tickets, ticket[t] # NoTicket
      PROVE  KeepsPromise(ticket[t], ran'[t], resumed[t], moment')
    <2> DEFINE k == ticket[t]
    <2>1. /\ k \in Ticket /\ ran[t] \in Nat /\ resumed[t] \in Nat
          /\ KeepsPromise(k, ran[t], resumed[t], moment)
        BY <1>5, TicketTypes
    <2>2. k.due.minute \in Nat /\ Promised(k.priority) \in Nat
        BY <2>1, TicketParts
    <2>3. CASE k.paused = Never
        <3>1. ran'[t] = ran[t] + d
            BY <1>1, <1>5, <2>3
        <3> HIDE DEF k
        <3> QED
            BY <1>1, <1>2, <2>1, <2>2, <2>3, <3>1 DEF KeepsPromise, k
    <2>4. CASE k.paused # Never
        <3>1. ran'[t] = ran[t]
            BY <1>1, <2>4
        <3> QED
            BY <2>1, <2>4, <3>1 DEF KeepsPromise
    <2> QED
        BY <2>3, <2>4
<1>6. PromisedTimeIsKept'
    BY <1>1, <1>5 DEF PromisedTimeIsKept, KeepsPromise, Promised
<1> QED
    BY <1>4, <1>6 DEF SupportIInv

LEMMA SupportStepKeeps == SupportIInv /\ [SupportNext]_supportVars => SupportIInv'
<1> SUFFICES ASSUME SupportIInv, [SupportNext]_supportVars PROVE SupportIInv'
    OBVIOUS
<1>1. ASSUME UNCHANGED <<clock, ticket, history>>, capable' \subseteq Operators,
             unread' \subseteq unread
      PROVE  SupportIInv'
    BY <1>1 DEF clock, history, SupportIInv, SupportTypeOK, PromisedTimeIsKept
<1>2. CASE UNCHANGED supportVars
    BY <1>1, <1>2 DEF supportVars, SupportIInv, SupportTypeOK
<1>3. ASSUME NEW t \in Tickets, NEW u \in Askers, MarkTechnicalSupportNotificationRead(u, t)
      PROVE  SupportIInv'
    BY <1>1, <1>3 DEF MarkTechnicalSupportNotificationRead, SupportIInv, SupportTypeOK
<1>4. ASSUME NEW o \in Operators, CapabilityChanges(o) PROVE SupportIInv'
    BY <1>1, <1>4 DEF CapabilityChanges, SupportIInv, SupportTypeOK
<1> QED
    BY <1>2, <1>3, <1>4, CreateTicketKeeps, ReplyKeeps, UpdateKeeps, TimeKeeps
    DEF SupportNext

LEMMA SupportInductive == SupportSpec => []SupportIInv
<1>1. SupportInit => SupportIInv
    BY SupportAssumption DEF SupportInit, SupportIInv, SupportTypeOK, PromisedTimeIsKept
<1> QED
    BY <1>1, SupportStepKeeps, PTL DEF SupportSpec

\* However often a ticket is paused, resumed, reopened and repriced, and however the
\* clock moves meanwhile: its deadline is never further away than the promise less the
\* working time that ran, and at most one minute per resumption closer
\* (src/src/server/support/sla.ts).
THEOREM PromisesAreKept == SupportSpec => []PromisedTimeIsKept
<1>1. SupportIInv => PromisedTimeIsKept
    BY DEF SupportIInv
<1> QED
    BY <1>1, SupportInductive, PTL

--------------------------------------------------------------------------------
(***************************************************************************)
(* SupportAttachments, for any attachments and any limit.                  *)
(***************************************************************************)
\* Whoever has counted holds the ticket alone, has no row yet, and has counted fewer
\* than the limit; so has everybody since, because only that upload can add a row.
CountStands ==
    /\ IsFiniteSet(Counted) /\ Cardinality(Counted) <= MAX_SUPPORT_ATTACHMENTS_PER_TICKET
    /\ \A a \in Attachments : uploads[a] = "counted" =>
          /\ attachment[a] = NoRow
          /\ Cardinality(Counted) < MAX_SUPPORT_ATTACHMENTS_PER_TICKET
          /\ \A b \in Attachments : uploads[b] = "counted" => a = b

\* From the reservation on an upload has a row.
UploadsHaveRows ==
    \A a \in Attachments : uploads[a] \in {"reserved", "put"} => attachment[a] # NoRow

\* A file has one verdict, and has it because it was stored.
VerdictsAgree ==
    \A a \in Attachments :
        /\ verdict[a] = {} \/ \E v \in Verdicts : verdict[a] = {v}
        /\ verdict[a] # {} => stored[a]
        /\ attachment[a].status = "ready" => stored[a] /\ verdict[a] = {"clean"}

AttachmentsIInv ==
    AttachmentsTypeOK /\ CountStands /\ UploadsHaveRows /\ VerdictsAgree

LEMMA AttachmentsInitEstablishes == AttachmentsInit => AttachmentsIInv
<1> SUFFICES ASSUME AttachmentsInit PROVE AttachmentsIInv
    OBVIOUS
<1>1. AttachmentsTypeOK
    BY DEF AttachmentsInit, AttachmentsTypeOK, Stages
<1>2. Counted = {}
    BY DEF AttachmentsInit, Counted, NoRow
<1>3. CountStands
    BY <1>2, FS_EmptySet, AttachmentAssumption DEF AttachmentsInit, CountStands
<1>4. VerdictsAgree
    BY DEF AttachmentsInit, VerdictsAgree, NoRow
<1>5. UploadsHaveRows
    BY DEF AttachmentsInit, UploadsHaveRows
<1> QED
    BY <1>1, <1>3, <1>4, <1>5 DEF AttachmentsIInv

\* Rows may leave the count; nobody has counted who had not counted before.
LEMMA CountShrinks ==
    ASSUME CountStands, Counted' \subseteq Counted,
           \A a \in Attachments : uploads'[a] = "counted" =>
               uploads[a] = "counted" /\ attachment'[a] = attachment[a]
    PROVE  CountStands'
<1>1. IsFiniteSet(Counted') /\ Cardinality(Counted') <= Cardinality(Counted)
          /\ Cardinality(Counted') \in Nat /\ Cardinality(Counted) \in Nat
    BY FS_Subset, FS_CardinalityType DEF CountStands
<1> QED
    BY <1>1, AttachmentAssumption DEF CountStands

LEMMA CountKeeps ==
    ASSUME AttachmentsIInv, NEW a \in Attachments, CountAttachments(a)
    PROVE  AttachmentsIInv'
<1>1. /\ attachment[a] = NoRow /\ TicketFree
      /\ Cardinality(Counted) < MAX_SUPPORT_ATTACHMENTS_PER_TICKET
      /\ uploads' = [uploads EXCEPT ![a] = "counted"]
      /\ UNCHANGED <<attachment, stored, verdict, mayUpload, told>>
    BY DEF CountAttachments
<1>2. AttachmentsTypeOK'
    BY <1>1 DEF AttachmentsIInv, AttachmentsTypeOK, Stages
<1>3. Counted' = Counted
    BY <1>1 DEF Counted
<1>4. \A b \in Attachments : uploads'[b] = "counted" => b = a
    BY <1>1 DEF AttachmentsIInv, AttachmentsTypeOK, TicketFree
<1>5. CountStands'
    BY <1>1, <1>3, <1>4 DEF AttachmentsIInv, CountStands
<1>6. VerdictsAgree'
    BY <1>1 DEF AttachmentsIInv, VerdictsAgree
<1>7. UploadsHaveRows'
    BY <1>1 DEF AttachmentsIInv, AttachmentsTypeOK, UploadsHaveRows
<1> QED
    BY <1>2, <1>5, <1>6, <1>7 DEF AttachmentsIInv

LEMMA ReserveAttachmentKeeps ==
    ASSUME AttachmentsIInv, NEW a \in Attachments, NEW u \in Parties, ReserveAttachment(a, u)
    PROVE  AttachmentsIInv'
<1> DEFINE row == [status |-> "uploading", uploader |-> u]
<1>1. /\ uploads[a] = "counted" /\ attachment' = [attachment EXCEPT ![a] = row]
      /\ uploads' = [uploads EXCEPT ![a] = "reserved"]
      /\ UNCHANGED <<stored, verdict, mayUpload, told>>
    BY DEF ReserveAttachment
<1>2. row \in Row /\ row.status = "uploading"
    BY DEF Row
<1> HIDE DEF row
<1>3. AttachmentsTypeOK'
    BY <1>1, <1>2 DEF AttachmentsIInv, AttachmentsTypeOK, Stages
<1>4. \A b \in Attachments : /\ attachment'[b] = IF b = a THEN row ELSE attachment[b]
                             /\ uploads'[b] = IF b = a THEN "reserved" ELSE uploads[b]
    BY <1>1 DEF AttachmentsIInv, AttachmentsTypeOK
<1>5. Counted' = Counted \cup {a} /\ a \notin Counted
    BY <1>1, <1>2, <1>4 DEF Counted, AttachmentsIInv, CountStands, NoRow
<1>6. IsFiniteSet(Counted') /\ Cardinality(Counted') = Cardinality(Counted) + 1
    BY <1>5, FS_AddElement DEF AttachmentsIInv, CountStands
<1>7. Cardinality(Counted) \in Nat
          /\ Cardinality(Counted) < MAX_SUPPORT_ATTACHMENTS_PER_TICKET
    BY <1>1, FS_CardinalityType DEF AttachmentsIInv, CountStands
<1>8. Cardinality(Counted') <= MAX_SUPPORT_ATTACHMENTS_PER_TICKET
    BY <1>6, <1>7, AttachmentAssumption
<1>9. \A b \in Attachments : uploads'[b] # "counted"
    BY <1>1, <1>4 DEF AttachmentsIInv, CountStands
<1>10. CountStands'
    BY <1>6, <1>8, <1>9 DEF CountStands
<1>11. VerdictsAgree'
    BY <1>1, <1>2, <1>4 DEF AttachmentsIInv, VerdictsAgree
<1>12. row # NoRow
    BY <1>2 DEF NoRow
<1>13. UploadsHaveRows'
    BY <1>1, <1>4, <1>12 DEF AttachmentsIInv, UploadsHaveRows
<1> QED
    BY <1>3, <1>10, <1>11, <1>13 DEF AttachmentsIInv

\* A step after the reservation that leaves the verdict alone: the row keeps out of the
\* count or in it, and becomes ready only if it was.
LEMMA UploadKeeps ==
    ASSUME AttachmentsIInv, NEW a \in Attachments,
           \/ PutAttachment(a) \/ QuarantineAttachment(a) \/ UploadAnswers(a)
           \/ UploadFails(a) \/ UploadDies(a)
    PROVE  AttachmentsIInv'
<1>1. UNCHANGED <<verdict, mayUpload>> /\ told' \subseteq Parties
    BY DEF PutAttachment, QuarantineAttachment, UploadAnswers, UploadFails, UploadDies,
       AttachmentsIInv, AttachmentsTypeOK
<1>2. /\ stored' \in [Attachments -> BOOLEAN]
      /\ \A b \in Attachments : stored[b] => stored'[b]
    BY DEF PutAttachment, QuarantineAttachment, UploadAnswers, UploadFails, UploadDies,
       AttachmentsIInv, AttachmentsTypeOK
<1>3. /\ uploads' \in [Attachments -> Stages]
      /\ \A b \in Attachments : uploads'[b] = "counted" => uploads[b] = "counted"
      /\ \A b \in Attachments : b # a => uploads'[b] = uploads[b]
    BY DEF PutAttachment, QuarantineAttachment, UploadAnswers, UploadFails, UploadDies,
       AttachmentsIInv, AttachmentsTypeOK, Stages
<1>4. /\ attachment' \in [Attachments -> Row \cup {NoRow}]
      /\ \A b \in Attachments : b # a => attachment'[b] = attachment[b]
      /\ attachment'[a] = attachment[a]
             \/ /\ attachment[a] # NoRow /\ uploads[a] \in {"reserved", "put"}
                /\ attachment'[a].status \in {"quarantined", "failed"}
                /\ attachment'[a].status = "quarantined" => attachment[a].status = "uploading"
    <2>1. CASE QuarantineAttachment(a)
        <3> DEFINE row == [attachment[a] EXCEPT !.status = "quarantined"]
        <3>1. attachment[a] \in Row /\ attachment[a] # NoRow
            BY <2>1 DEF QuarantineAttachment, AttachmentsIInv, AttachmentsTypeOK, NoRow
        <3>2. row \in Row /\ row.status = "quarantined"
            BY <3>1 DEF Row
        <3>3. attachment' = [attachment EXCEPT ![a] = row]
            BY <2>1 DEF QuarantineAttachment
        <3> HIDE DEF row
        <3> QED
            BY <2>1, <3>1, <3>2, <3>3
            DEF QuarantineAttachment, AttachmentsIInv, AttachmentsTypeOK
    <2>2. CASE UploadFails(a)
        <3>1. CASE attachment[a].status \in {"ready", "rejected"}
            BY <2>2, <3>1 DEF UploadFails, AttachmentsIInv, AttachmentsTypeOK
        <3>2. CASE attachment[a].status \notin {"ready", "rejected"}
            <4> DEFINE row == [attachment[a] EXCEPT !.status = "failed"]
            <4>1. attachment[a] \in Row /\ attachment[a] # NoRow
                BY <2>2 DEF UploadFails, AttachmentsIInv, AttachmentsTypeOK, UploadsHaveRows
            <4>2. row \in Row /\ row.status = "failed"
                BY <4>1 DEF Row
            <4>3. attachment' = [attachment EXCEPT ![a] = row]
                BY <2>2, <3>2 DEF UploadFails
            <4> HIDE DEF row
            <4> QED
                BY <2>2, <4>1, <4>2, <4>3
                DEF UploadFails, AttachmentsIInv, AttachmentsTypeOK
        <3> QED
            BY <3>1, <3>2
    <2>3. CASE PutAttachment(a) \/ UploadAnswers(a) \/ UploadDies(a)
        BY <2>3 DEF PutAttachment, UploadAnswers, UploadDies, AttachmentsIInv,
           AttachmentsTypeOK
    <2> QED
        BY <2>1, <2>2, <2>3
<1>5. AttachmentsTypeOK'
    BY <1>1, <1>2, <1>3, <1>4 DEF AttachmentsIInv, AttachmentsTypeOK
<1>6. Counted' \subseteq Counted
    BY <1>4 DEF Counted
<1>7. \A b \in Attachments : uploads'[b] = "counted" =>
          uploads[b] = "counted" /\ attachment'[b] = attachment[b]
    BY <1>3, <1>4
<1>8. CountStands'
    BY <1>6, <1>7, CountShrinks DEF AttachmentsIInv
<1>9. UploadsHaveRows'
    <2>1. \A b \in Attachments : uploads'[b] \in {"reserved", "put"} =>
              uploads[b] \in {"reserved", "put"}
        BY DEF PutAttachment, QuarantineAttachment, UploadAnswers, UploadFails, UploadDies,
           AttachmentsIInv, AttachmentsTypeOK
    <2>2. \A b \in Attachments : attachment[b] # NoRow => attachment'[b] # NoRow
        BY <1>4 DEF NoRow
    <2> QED
        BY <2>1, <2>2 DEF AttachmentsIInv, UploadsHaveRows
<1>10. VerdictsAgree'
    <2>1. \A b \in Attachments : attachment'[b].status = "ready" =>
              attachment[b].status = "ready"
        BY <1>4
    <2> QED
        BY <1>1, <1>2, <2>1 DEF AttachmentsIInv, AttachmentsTypeOK, VerdictsAgree
<1> QED
    BY <1>5, <1>8, <1>9, <1>10 DEF AttachmentsIInv

LEMMA ScanAttachmentKeeps ==
    ASSUME AttachmentsIInv, NEW a \in Attachments, NEW v \in Verdicts, ScanAttachment(a, v)
    PROVE  AttachmentsIInv'
<1>1. /\ attachment[a].status = "quarantined" /\ stored[a]
      /\ verdict[a] \in {{}, {v}} /\ verdict' = [verdict EXCEPT ![a] = {v}]
      /\ UNCHANGED <<attachment, stored, uploads, mayUpload, told>>
    BY DEF ScanAttachment
<1>2. AttachmentsTypeOK'
    BY <1>1 DEF AttachmentsIInv, AttachmentsTypeOK
<1>3. CountStands'
    <2>1. Counted' = Counted
        BY <1>1 DEF Counted
    <2> QED
        BY <1>1, <2>1 DEF AttachmentsIInv, CountStands
<1>4. UploadsHaveRows'
    BY <1>1 DEF AttachmentsIInv, UploadsHaveRows
<1>5. VerdictsAgree'
    BY <1>1 DEF AttachmentsIInv, AttachmentsTypeOK, VerdictsAgree
<1> QED
    BY <1>2, <1>3, <1>4, <1>5 DEF AttachmentsIInv

\* The first report decides; one that comes again finds the row decided.
LEMMA RecordAttachmentScanKeeps ==
    ASSUME AttachmentsIInv, NEW a \in Attachments, NEW v \in Verdicts,
           RecordSupportAttachmentScan(a, v)
    PROVE  AttachmentsIInv'
<1> DEFINE row == [attachment[a] EXCEPT !.status =
                       IF v = "clean" THEN "ready" ELSE "rejected"]
<1>1. /\ v \in verdict[a] /\ attachment[a].status = "quarantined"
      /\ attachment' = [attachment EXCEPT ![a] = row] /\ told' = Parties
      /\ UNCHANGED <<stored, uploads, verdict, mayUpload>>
    BY DEF RecordSupportAttachmentScan, Scannable
<1>2. attachment[a] \in Row /\ attachment[a] # NoRow
    BY <1>1 DEF AttachmentsIInv, AttachmentsTypeOK, NoRow
<1>3. row \in Row /\ row.status = IF v = "clean" THEN "ready" ELSE "rejected"
    BY <1>2 DEF Row
<1> HIDE DEF row
<1>4. AttachmentsTypeOK'
    BY <1>1, <1>3 DEF AttachmentsIInv, AttachmentsTypeOK
<1>5. \A b \in Attachments : attachment'[b] = IF b = a THEN row ELSE attachment[b]
    BY <1>1 DEF AttachmentsIInv, AttachmentsTypeOK
<1>6. Counted' \subseteq Counted
    BY <1>1, <1>5 DEF Counted
<1>7. uploads[a] # "counted"
    BY <1>2 DEF AttachmentsIInv, CountStands
<1>8. CountStands'
    BY <1>1, <1>5, <1>6, <1>7, CountShrinks DEF AttachmentsIInv
<1>9. row # NoRow
    BY <1>3 DEF NoRow
<1>10. UploadsHaveRows'
    BY <1>1, <1>5, <1>9 DEF AttachmentsIInv, UploadsHaveRows
<1>11. stored[a] /\ verdict[a] = {v}
    BY <1>1 DEF AttachmentsIInv, VerdictsAgree
<1>12. VerdictsAgree'
    BY <1>1, <1>3, <1>5, <1>11 DEF AttachmentsIInv, VerdictsAgree
<1> QED
    BY <1>4, <1>8, <1>10, <1>12 DEF AttachmentsIInv

LEMMA AttachmentsStepKeeps ==
    ASSUME AttachmentsIInv, [AttachmentsNext]_attachmentVars
    PROVE  AttachmentsIInv'
<1>1. CASE \/ \E u \in Parties : AccessChanges(u) \/ ReadsNotifications(u)
           \/ UNCHANGED attachmentVars
    <2>1. /\ UNCHANGED <<attachment, stored, uploads, verdict>>
          /\ mayUpload' \subseteq Parties /\ told' \subseteq Parties
        BY <1>1 DEF AccessChanges, ReadsNotifications, attachmentVars, AttachmentsIInv,
           AttachmentsTypeOK
    <2>2. Counted' = Counted
        BY <2>1 DEF Counted
    <2> QED
        BY <2>1, <2>2 DEF AttachmentsIInv, AttachmentsTypeOK, CountStands, UploadsHaveRows,
           VerdictsAgree
<1>2. CASE \E a \in Attachments : CountAttachments(a)
    BY <1>2, CountKeeps
<1>3. CASE \E a \in Attachments : \E u \in Parties : ReserveAttachment(a, u)
    BY <1>3, ReserveAttachmentKeeps
<1>4. CASE \E a \in Attachments :
               \/ PutAttachment(a) \/ QuarantineAttachment(a) \/ UploadAnswers(a)
               \/ UploadFails(a) \/ UploadDies(a)
    BY <1>4, UploadKeeps
<1>5. CASE \E a \in Attachments : \E v \in Verdicts : ScanAttachment(a, v)
    BY <1>5, ScanAttachmentKeeps
<1>6. CASE \E a \in Attachments : \E v \in Verdicts : RecordSupportAttachmentScan(a, v)
    BY <1>6, RecordAttachmentScanKeeps
<1> QED
    BY <1>1, <1>2, <1>3, <1>4, <1>5, <1>6 DEF AttachmentsNext

LEMMA AttachmentsInductive == AttachmentsSpec => []AttachmentsIInv
BY AttachmentsInitEstablishes, AttachmentsStepKeeps, PTL DEF AttachmentsSpec

\* However uploads, failures, lost answers and repeated reports of the scanner fall
\* together, the ticket keeps to its limit and only clean files can be read.
THEOREM FilesStayFewAndClean == AttachmentsSpec => []FilesAreFewAndClean
<1>1. AttachmentsIInv => FilesAreFewAndClean
    BY DEF AttachmentsIInv, CountStands, VerdictsAgree, FilesAreFewAndClean
<1> QED
    BY <1>1, AttachmentsInductive, PTL

--------------------------------------------------------------------------------
(***************************************************************************)
(* Requests.  The routes are a table, so the proof has two parts: what     *)
(* every route of the table has in common, looked up route by route, and   *)
(* that this is enough whatever others do to the caller meanwhile.         *)
(***************************************************************************)
RouteStep ==
    [does : {"check", "session", "member", "role", "read", "ask", "commit"},
     facts : SUBSET Facts, refusals : SUBSET Nat]

\* Whoever holds a role is a member.
Implied(step) == step.facts \cup (IF "role" \in step.facts THEN {"member"} ELSE {})

\* A transaction locks what was asked before it, but for what it may lose; tokens do
\* not change, and a session is not looked at again.
Locks(route, may) ==
    \A i \in DOMAIN route :
        /\ "token" \in route[i].facts => route[i].does = "session"
        /\ route[i].does = "commit" =>
              \A j \in 1..(i - 1) :
                  route[j].facts \subseteq Implied(route[i]) \cup {"session", "token"} \cup may

RefusesFirst(route) ==
    \A i, j \in DOMAIN route :
        i < j /\ route[i].does = "commit" => route[j].refusals \cap (400..499) = {}

Identifies(route) ==
    \A i \in DOMAIN route :
        route[i].does \in {"read", "ask", "commit"} =>
            \E j \in 1..(i - 1) : route[j].facts \cap {"session", "token", "key"} # {}

Last(route) == route[Len(route)]

Disciplined(route) ==
    /\ route \in Seq(RouteStep)
    /\ Locks(route, MayLose(route))
    /\ route \notin RefusesAfterWriting => RefusesFirst(route)
    /\ route \notin OpenToAll => Identifies(route)

Plain(route) ==
    /\ route \in Seq(RouteStep) /\ Locks(route, {})
    /\ RefusesFirst(route) /\ Identifies(route)

\* What a route may lose the less is also what it may lose.
LEMMA LosesMore ==
    ASSUME NEW route, NEW may, NEW more, may \subseteq more, Locks(route, may)
    PROVE  Locks(route, more)
BY DEF Locks

LEMMA PlainIsDisciplined == ASSUME NEW route, Plain(route) PROVE Disciplined(route)
<1>1. Locks(route, MayLose(route))
    BY LosesMore DEF Plain
<1> QED
    BY <1>1 DEF Plain, Disciplined

USE DEF Step, Check, Origin, Named, Written, Session, Member, Role, Secret, Key, Reads,
        Asks, HasPlace, Commits, Viewer, Sender, Facts, RouteStep

\* The routes of students, but for the named ones.
LEMMA PlainStudentRoutes ==
    \A route \in StudentRoutes \ (LocksPlaceOnly \cup LocksNothing \cup WritesOwnRows
                  \cup NotesTransfers \cup CountsCalls \cup {PostOnboard} \cup OpenToAll) :
        Plain(route)
<1> USE DEF Plain, Locks, Implied, RefusesFirst, Identifies
<1>1. Plain(GetCourses)  BY DEF GetCourses
<1>2. Plain(GetCourse)  BY DEF GetCourse
<1>3. Plain(GetAssets)  BY DEF GetAssets
<1>4. Plain(GetProgress)  BY DEF GetProgress
<1>5. Plain(PostEnroll)  BY DEF PostEnroll
<1>6. Plain(GetVideo)  BY DEF GetVideo
<1>7. Plain(GetPrivateNotes)  BY DEF GetPrivateNotes
<1>8. Plain(GetAssessments)  BY DEF GetAssessments
<1>9. Plain(GetAttempt)  BY DEF GetAttempt
<1>10. Plain(GetPractice)  BY DEF GetPractice
<1>11. Plain(GetExams)  BY DEF GetExams
<1>12. Plain(PostExamAttempt)  BY DEF PostExamAttempt
<1>13. Plain(GetExamAttempt)  BY DEF GetExamAttempt
<1>14. Plain(PostExamAttemptSubmit)  BY DEF PostExamAttemptSubmit
<1>15. Plain(PatchExamAnswers)  BY DEF PatchExamAnswers
<1>16. Plain(GetServices)  BY DEF GetServices
<1>17. Plain(GetOrders)  BY DEF GetOrders
<1>18. Plain(PostOrder)  BY DEF PostOrder
<1>19. Plain(PostOrderCancel)  BY DEF PostOrderCancel
<1>20. Plain(PostCallToken)  BY DEF PostCallToken
<1>21. Plain(GetConversations)  BY DEF GetConversations
<1>22. Plain(GetTeam)  BY DEF GetTeam
<1>23. Plain(GetConversation)  BY DEF GetConversation
<1>24. Plain(GetProblemSolving)
  <2>1. GetProblemSolving \in Seq(RouteStep) /\ Locks(GetProblemSolving, {})
    BY DEF GetProblemSolving
  <2>2. RefusesFirst(GetProblemSolving) /\ Identifies(GetProblemSolving)
    BY DEF GetProblemSolving
  <2> QED
    BY <2>1, <2>2
<1>25. Plain(GetTutorPractice)
  <2>1. GetTutorPractice \in Seq(RouteStep) /\ Locks(GetTutorPractice, {})
    BY DEF GetTutorPractice
  <2>2. RefusesFirst(GetTutorPractice) /\ Identifies(GetTutorPractice)
    BY DEF GetTutorPractice
  <2> QED
    BY <2>1, <2>2
<1>26. Plain(GetTutorProfile)  BY DEF GetTutorProfile
<1>27. Plain(GetTutorSources)  BY DEF GetTutorSources
<1> HIDE DEF Plain, Locks, Implied, RefusesFirst, Identifies
<1> QED
    BY <1>1, <1>2, <1>3, <1>4, <1>5, <1>6, <1>7, <1>8, <1>9, <1>10, <1>11, <1>12,
       <1>13, <1>14, <1>15, <1>16, <1>17, <1>18, <1>19, <1>20, <1>21, <1>22, <1>23,
       <1>24, <1>25, <1>26, <1>27 DEF StudentRoutes, LocksPlaceOnly, LocksNothing,
       WritesOwnRows, NotesTransfers, CountsCalls, OpenToAll

\* The routes of educators, providers and institutes, but for the named ones.
LEMMA PlainTeachingRoutes ==
    \A route \in TeachingRoutes \ (LocksPlaceOnly \cup LocksNothing \cup WritesOwnRows
                  \cup NotesTransfers \cup CountsCalls \cup {PostOnboard} \cup OpenToAll) :
        Plain(route)
<1> USE DEF Plain, Locks, Implied, RefusesFirst, Identifies
<1>1. Plain(GetAffiliations)  BY DEF GetAffiliations
<1>2. Plain(PostAffiliation)  BY DEF PostAffiliation
<1>3. Plain(GetEducatorCourses)  BY DEF GetEducatorCourses
<1>4. Plain(PostEducatorCourse)  BY DEF PostEducatorCourse
<1>5. Plain(GetEducatorAssessments)  BY DEF GetEducatorAssessments
<1>6. Plain(PostEducatorAssessment)  BY DEF PostEducatorAssessment
<1>7. Plain(PostEducatorIngest)  BY DEF PostEducatorIngest
<1>8. Plain(PostEducatorPlan)  BY DEF PostEducatorPlan
<1>9. Plain(GetEducatorPlans)  BY DEF GetEducatorPlans
<1>10. Plain(PostEducatorPlanCancel)  BY DEF PostEducatorPlanCancel
<1>11. Plain(GetEducatorPractice)  BY DEF GetEducatorPractice
<1>12. Plain(PostEducatorPractice)  BY DEF PostEducatorPractice
<1>13. Plain(PostEducatorPublication)  BY DEF PostEducatorPublication
<1>14. Plain(GetProviderCollaborations)  BY DEF GetProviderCollaborations
<1>15. Plain(PostProviderCollaboration)  BY DEF PostProviderCollaboration
<1>16. Plain(DeleteProviderCollaboration)  BY DEF DeleteProviderCollaboration
<1>17. Plain(GetProviderCourses)  BY DEF GetProviderCourses
<1>18. Plain(PostProviderCourse)  BY DEF PostProviderCourse
<1>19. Plain(GetProviderAssessments)  BY DEF GetProviderAssessments
<1>20. Plain(PostProviderAssessment)
  <2>1. PostProviderAssessment \in Seq(RouteStep) /\ Locks(PostProviderAssessment, {})
    BY DEF PostProviderAssessment
  <2>2. RefusesFirst(PostProviderAssessment) /\ Identifies(PostProviderAssessment)
    BY DEF PostProviderAssessment
  <2> QED
    BY <2>1, <2>2
<1>21. Plain(GetProviderIngest)  BY DEF GetProviderIngest
<1>22. Plain(PostProviderIngest)  BY DEF PostProviderIngest
<1>23. Plain(GetProviderMedia)  BY DEF GetProviderMedia
<1>24. Plain(PostProviderMedia)  BY DEF PostProviderMedia
<1>25. Plain(PostProviderPlan)  BY DEF PostProviderPlan
<1>26. Plain(GetProviderPlans)  BY DEF GetProviderPlans
<1>27. Plain(PostProviderPlanCancel)  BY DEF PostProviderPlanCancel
<1>28. Plain(GetProviderCourse)  BY DEF GetProviderCourse
<1>29. Plain(GetProviderPractice)  BY DEF GetProviderPractice
<1>30. Plain(PostProviderPractice)  BY DEF PostProviderPractice
<1>31. Plain(PostProviderPublication)  BY DEF PostProviderPublication
<1>32. Plain(GetInstituteCollaborations)  BY DEF GetInstituteCollaborations
<1>33. Plain(PostInstituteDecision)  BY DEF PostInstituteDecision
<1>34. Plain(GetAiPermissions)  BY DEF GetAiPermissions
<1>35. Plain(GetAiTranscripts)  BY DEF GetAiTranscripts
<1>36. Plain(GetInstituteAssessments)  BY DEF GetInstituteAssessments
<1>37. Plain(PostInstituteAssessment)  BY DEF PostInstituteAssessment
<1>38. Plain(GetInstituteCourse)  BY DEF GetInstituteCourse
<1>39. Plain(GetInstitutePractice)  BY DEF GetInstitutePractice
<1>40. Plain(PostInstitutePractice)  BY DEF PostInstitutePractice
<1>41. Plain(GetCourseTeam)  BY DEF GetCourseTeam
<1>42. Plain(GetInstituteEducators)  BY DEF GetInstituteEducators
<1>43. Plain(PostEducatorDecision)  BY DEF PostEducatorDecision
<1>44. Plain(GetInstituteExams)  BY DEF GetInstituteExams
<1>45. Plain(PostInstituteExam)  BY DEF PostInstituteExam
<1>46. Plain(PatchInstituteExam)  BY DEF PatchInstituteExam
<1>47. Plain(GetInstituteReport)
  <2>1. GetInstituteReport \in Seq(RouteStep) /\ Locks(GetInstituteReport, {})
    BY DEF GetInstituteReport
  <2>2. RefusesFirst(GetInstituteReport) /\ Identifies(GetInstituteReport)
    BY DEF GetInstituteReport
  <2> QED
    BY <2>1, <2>2
<1>48. Plain(GetInstituteQuestions)  BY DEF GetInstituteQuestions
<1>49. Plain(PostInstituteQuestion)  BY DEF PostInstituteQuestion
<1>50. Plain(PatchInstituteQuestion)  BY DEF PatchInstituteQuestion
<1>51. Plain(GetInstituteOrders)  BY DEF GetInstituteOrders
<1>52. Plain(GetInstituteServices)  BY DEF GetInstituteServices
<1>53. Plain(PostInstituteService)  BY DEF PostInstituteService
<1>54. Plain(PatchInstituteService)  BY DEF PatchInstituteService
<1>55. Plain(GetSupervision)  BY DEF GetSupervision
<1>56. Plain(PostSupervision)  BY DEF PostSupervision
<1>57. Plain(GetAuthorization)  BY DEF GetAuthorization
<1>58. Plain(GetTeamConversation)  BY DEF GetTeamConversation
<1>59. Plain(PostTeamReply)  BY DEF PostTeamReply
<1> HIDE DEF Plain, Locks, Implied, RefusesFirst, Identifies
<1> QED
    BY <1>1, <1>2, <1>3, <1>4, <1>5, <1>6, <1>7, <1>8, <1>9, <1>10, <1>11, <1>12,
       <1>13, <1>14, <1>15, <1>16, <1>17, <1>18, <1>19, <1>20, <1>21, <1>22, <1>23,
       <1>24, <1>25, <1>26, <1>27, <1>28, <1>29, <1>30, <1>31, <1>32, <1>33, <1>34,
       <1>35, <1>36, <1>37, <1>38, <1>39, <1>40, <1>41, <1>42, <1>43, <1>44, <1>45,
       <1>46, <1>47, <1>48, <1>49, <1>50, <1>51, <1>52, <1>53, <1>54, <1>55, <1>56,
       <1>57, <1>58, <1>59 DEF TeachingRoutes, LocksPlaceOnly, LocksNothing,
       WritesOwnRows, NotesTransfers, CountsCalls, OpenToAll

\* The routes of administrators, organisations, support and workers, but for the named ones.
LEMMA PlainOfficeRoutes ==
    \A route \in OfficeRoutes \ (LocksPlaceOnly \cup LocksNothing \cup WritesOwnRows
                  \cup NotesTransfers \cup CountsCalls \cup {PostOnboard} \cup OpenToAll) :
        Plain(route)
<1> USE DEF Plain, Locks, Implied, RefusesFirst, Identifies
<1>1. Plain(GetMe)  BY DEF GetMe
<1>2. Plain(GetRoleApplications)  BY DEF GetRoleApplications
<1>3. Plain(PostRoleApplication)  BY DEF PostRoleApplication
<1>4. Plain(GetAudit)  BY DEF GetAudit
<1>5. Plain(GetDenaExams)  BY DEF GetDenaExams
<1>6. Plain(PostDenaExam)  BY DEF PostDenaExam
<1>7. Plain(PatchDenaExam)  BY DEF PatchDenaExam
<1>8. Plain(GetDenaReport)
  <2>1. GetDenaReport \in Seq(RouteStep) /\ Locks(GetDenaReport, {})
    BY DEF GetDenaReport
  <2>2. RefusesFirst(GetDenaReport) /\ Identifies(GetDenaReport)
    BY DEF GetDenaReport
  <2> QED
    BY <2>1, <2>2
<1>9. Plain(GetMediaOperations)  BY DEF GetMediaOperations
<1>10. Plain(GetOverview)
  <2>1. GetOverview \in Seq(RouteStep)
    BY DEF GetOverview, Configured
  <2>2. Locks(GetOverview, {})
    BY DEF GetOverview, Configured
  <2>3. RefusesFirst(GetOverview)
    BY DEF GetOverview, Configured
  <2>4. Identifies(GetOverview)
    BY DEF GetOverview, Configured
  <2> QED
    BY <2>1, <2>2, <2>3, <2>4
<1>11. Plain(GetDenaCollaborations)  BY DEF GetDenaCollaborations
<1>12. Plain(PostDenaDecision)  BY DEF PostDenaDecision
<1>13. Plain(GetDenaQuestions)  BY DEF GetDenaQuestions
<1>14. Plain(PostDenaQuestion)  BY DEF PostDenaQuestion
<1>15. Plain(PatchDenaQuestion)  BY DEF PatchDenaQuestion
<1>16. Plain(GetRoleRequests)  BY DEF GetRoleRequests
<1>17. Plain(PostRoleDecision)  BY DEF PostRoleDecision
<1>18. Plain(GetBenefactor)  BY DEF GetBenefactor
<1>19. Plain(GetOrganization)  BY DEF GetOrganization
<1>20. Plain(GetApiKeys)  BY DEF GetApiKeys
<1>21. Plain(PostApiKey)  BY DEF PostApiKey
<1>22. Plain(DeleteApiKey)  BY DEF DeleteApiKey
<1>23. Plain(GetStudents)  BY DEF GetStudents
<1>24. Plain(PostStudent)  BY DEF PostStudent
<1>25. Plain(DeleteStudent)  BY DEF DeleteStudent
<1>26. Plain(PostImport)  BY DEF PostImport
<1>27. Plain(GetNotifications)  BY DEF GetNotifications, Supported, Configured
<1>28. Plain(PatchNotification)  BY DEF PatchNotification, Supporting, Supported,
    Configured
<1>29. Plain(GetTickets)  BY DEF GetTickets, Supported, Configured
<1>30. Plain(PostTicket)  BY DEF PostTicket, Supporting, Supported, Configured, Body
<1>31. Plain(GetTicket)  BY DEF GetTicket, Supported, Configured
<1>32. Plain(PostTicketReply)  BY DEF PostTicketReply, Supporting, Supported,
    Configured, Body
<1>33. Plain(GetInbox)  BY DEF GetInbox, Supported, Configured
<1>34. Plain(PatchTicket)  BY DEF PatchTicket, Supporting, Supported, Configured, Body
<1>35. Plain(GetAttachment)  BY DEF GetAttachment, Supported, Configured
<1>36. Plain(PostQuotaSweep)  BY DEF PostQuotaSweep
<1>37. Plain(PostCleanup)  BY DEF PostCleanup
<1>38. Plain(PostIngestComplete)  BY DEF PostIngestComplete
<1>39. Plain(PostMediaComplete)  BY DEF PostMediaComplete
<1>40. Plain(PostJobFail)  BY DEF PostJobFail
<1>41. Plain(PostJobClaim)  BY DEF PostJobClaim
<1>42. Plain(PostScanResult)  BY DEF PostScanResult
<1>43. Plain(GetScanSource)  BY DEF GetScanSource
<1>44. Plain(GetScanQueue)  BY DEF GetScanQueue
<1>45. Plain(PostWebhook)  BY DEF PostWebhook
<1> HIDE DEF Plain, Locks, Implied, RefusesFirst, Identifies
<1> QED
    BY <1>1, <1>2, <1>3, <1>4, <1>5, <1>6, <1>7, <1>8, <1>9, <1>10, <1>11, <1>12,
       <1>13, <1>14, <1>15, <1>16, <1>17, <1>18, <1>19, <1>20, <1>21, <1>22, <1>23,
       <1>24, <1>25, <1>26, <1>27, <1>28, <1>29, <1>30, <1>31, <1>32, <1>33, <1>34,
       <1>35, <1>36, <1>37, <1>38, <1>39, <1>40, <1>41, <1>42, <1>43, <1>44,
       <1>45 DEF OfficeRoutes, LocksPlaceOnly, LocksNothing, WritesOwnRows,
       NotesTransfers, CountsCalls, OpenToAll

Losable == {"member", "role", "place"}

\* The enrolment is locked, the membership is not.
LEMMA LocksPlaceOnlySteps ==
    \A route \in LocksPlaceOnly :
        /\ route \in Seq(RouteStep) /\ Locks(route, {"member", "role"})
        /\ RefusesFirst(route) /\ Identifies(route)
<1> USE DEF Locks, Implied, RefusesFirst, Identifies, Losable
<1>1. /\ PostCompletion \in Seq(RouteStep) /\ Locks(PostCompletion, {"member", "role"})
      /\ RefusesFirst(PostCompletion) /\ Identifies(PostCompletion)
    BY DEF PostCompletion, Video, InCourse
<1>2. /\ DeleteCompletion \in Seq(RouteStep) /\ Locks(DeleteCompletion, {"member", "role"})
      /\ RefusesFirst(DeleteCompletion) /\ Identifies(DeleteCompletion)
    BY DEF DeleteCompletion, Video, InCourse
<1>3. /\ PutNote \in Seq(RouteStep) /\ Locks(PutNote, {"member", "role"})
      /\ RefusesFirst(PutNote) /\ Identifies(PutNote)
    BY DEF PutNote, Video, InCourse
<1>4. /\ DeleteNote \in Seq(RouteStep) /\ Locks(DeleteNote, {"member", "role"})
      /\ RefusesFirst(DeleteNote) /\ Identifies(DeleteNote)
    BY DEF DeleteNote, Video, InCourse
<1>5. /\ PostAttempt \in Seq(RouteStep) /\ Locks(PostAttempt, {"member", "role"})
      /\ RefusesFirst(PostAttempt) /\ Identifies(PostAttempt)
    BY DEF PostAttempt, InCourse
<1>6. /\ PostAttemptAnswers \in Seq(RouteStep) /\ Locks(PostAttemptAnswers, {"member", "role"})
      /\ RefusesFirst(PostAttemptAnswers) /\ Identifies(PostAttemptAnswers)
    BY DEF PostAttemptAnswers, InCourse
<1>7. /\ PostLessonReview \in Seq(RouteStep) /\ Locks(PostLessonReview, {"member", "role"})
      /\ RefusesFirst(PostLessonReview) /\ Identifies(PostLessonReview)
    BY DEF PostLessonReview, InCourse
<1>8. /\ PostMessage \in Seq(RouteStep) /\ Locks(PostMessage, {"member", "role"})
      /\ RefusesFirst(PostMessage) /\ Identifies(PostMessage)
    BY DEF PostMessage, InCourse
<1>9. /\ PostProblem \in Seq(RouteStep) /\ Locks(PostProblem, {"member", "role"})
      /\ RefusesFirst(PostProblem) /\ Identifies(PostProblem)
    BY DEF PostProblem, InCourse
<1> HIDE DEF Locks, Implied, RefusesFirst, Identifies, Losable
<1> QED
    BY <1>1, <1>2, <1>3, <1>4, <1>5, <1>6, <1>7, <1>8, <1>9 DEF LocksPlaceOnly

\* Nothing is locked.
LEMMA LocksNothingSteps ==
    \A route \in LocksNothing :
        /\ route \in Seq(RouteStep) /\ Locks(route, Losable)
        /\ RefusesFirst(route) /\ Identifies(route)
<1> USE DEF Locks, Implied, RefusesFirst, Identifies, Losable
<1>1. /\ PostCallEnd \in Seq(RouteStep) /\ Locks(PostCallEnd, Losable)
      /\ RefusesFirst(PostCallEnd) /\ Identifies(PostCallEnd)
    BY DEF PostCallEnd
<1>2. /\ PostAiPermission \in Seq(RouteStep) /\ Locks(PostAiPermission, Losable)
      /\ RefusesFirst(PostAiPermission) /\ Identifies(PostAiPermission)
    BY DEF PostAiPermission
<1>3. /\ PostAiTranscript \in Seq(RouteStep) /\ Locks(PostAiTranscript, Losable)
      /\ RefusesFirst(PostAiTranscript) /\ Identifies(PostAiTranscript)
    BY DEF PostAiTranscript
<1>4. /\ PostCourseTeam \in Seq(RouteStep) /\ Locks(PostCourseTeam, Losable)
      /\ RefusesFirst(PostCourseTeam) /\ Identifies(PostCourseTeam)
    BY DEF PostCourseTeam
<1>5. /\ DeleteCourseTeam \in Seq(RouteStep) /\ Locks(DeleteCourseTeam, Losable)
      /\ RefusesFirst(DeleteCourseTeam) /\ Identifies(DeleteCourseTeam)
    BY DEF DeleteCourseTeam
<1>6. /\ PatchCourseTeam \in Seq(RouteStep) /\ Locks(PatchCourseTeam, Losable)
      /\ RefusesFirst(PatchCourseTeam) /\ Identifies(PatchCourseTeam)
    BY DEF PatchCourseTeam
<1>7. /\ PostInstituteCall \in Seq(RouteStep) /\ Locks(PostInstituteCall, Losable)
      /\ RefusesFirst(PostInstituteCall) /\ Identifies(PostInstituteCall)
    <2>1. PostInstituteCall \in Seq(RouteStep) /\ Locks(PostInstituteCall, Losable)
        BY DEF PostInstituteCall
    <2>2. RefusesFirst(PostInstituteCall) /\ Identifies(PostInstituteCall)
        BY DEF PostInstituteCall
    <2> QED
        BY <2>1, <2>2
<1>8. /\ PostFollowUp \in Seq(RouteStep) /\ Locks(PostFollowUp, Losable)
      /\ RefusesFirst(PostFollowUp) /\ Identifies(PostFollowUp)
    BY DEF PostFollowUp
<1>9. /\ PostCalls \in Seq(RouteStep) /\ Locks(PostCalls, Losable)
      /\ RefusesFirst(PostCalls) /\ Identifies(PostCalls)
    BY DEF PostCalls
<1>10. /\ PostConsent \in Seq(RouteStep) /\ Locks(PostConsent, Losable)
      /\ RefusesFirst(PostConsent) /\ Identifies(PostConsent)
    BY DEF PostConsent
<1>11. /\ PatchProblemRequest \in Seq(RouteStep) /\ Locks(PatchProblemRequest, Losable)
      /\ RefusesFirst(PatchProblemRequest) /\ Identifies(PatchProblemRequest)
    BY DEF PatchProblemRequest
<1>12. /\ PatchProblemSession \in Seq(RouteStep) /\ Locks(PatchProblemSession, Losable)
      /\ RefusesFirst(PatchProblemSession) /\ Identifies(PatchProblemSession)
    BY DEF PatchProblemSession
<1> HIDE DEF Locks, Implied, RefusesFirst, Identifies, Losable
<1> QED
    BY <1>1, <1>2, <1>3, <1>4, <1>5, <1>6, <1>7, <1>8, <1>9, <1>10, <1>11,
       <1>12 DEF LocksNothing

\* What is not locked matters to the caller only.
LEMMA WritesOwnRowsSteps ==
    \A route \in WritesOwnRows \ {PostPhoneRequest, PostPhoneVerify} :
        /\ route \in Seq(RouteStep) /\ Locks(route, Losable)
        /\ RefusesFirst(route) /\ Identifies(route)
<1> USE DEF Locks, Implied, RefusesFirst, Identifies, Losable
<1>1. /\ PostCancel \in Seq(RouteStep) /\ Locks(PostCancel, Losable)
      /\ RefusesFirst(PostCancel) /\ Identifies(PostCancel)
    BY DEF PostCancel
<1>2. /\ DeletePrivateNotes \in Seq(RouteStep) /\ Locks(DeletePrivateNotes, Losable)
      /\ RefusesFirst(DeletePrivateNotes) /\ Identifies(DeletePrivateNotes)
    BY DEF DeletePrivateNotes
<1>3. /\ DeleteAffiliation \in Seq(RouteStep) /\ Locks(DeleteAffiliation, Losable)
      /\ RefusesFirst(DeleteAffiliation) /\ Identifies(DeleteAffiliation)
    BY DEF DeleteAffiliation
<1>4. /\ PostPractice \in Seq(RouteStep) /\ Locks(PostPractice, Losable)
      /\ RefusesFirst(PostPractice) /\ Identifies(PostPractice)
    BY DEF PostPractice, InCourse
<1>5. /\ PostTutor \in Seq(RouteStep) /\ Locks(PostTutor, Losable)
      /\ RefusesFirst(PostTutor) /\ Identifies(PostTutor)
    BY DEF PostTutor
<1>6. /\ PostTutorPractice \in Seq(RouteStep) /\ Locks(PostTutorPractice, Losable)
      /\ RefusesFirst(PostTutorPractice) /\ Identifies(PostTutorPractice)
    BY DEF PostTutorPractice
<1>7. /\ PostTutorProfile \in Seq(RouteStep) /\ Locks(PostTutorProfile, Losable)
      /\ RefusesFirst(PostTutorProfile) /\ Identifies(PostTutorProfile)
    BY DEF PostTutorProfile
<1>8. /\ DeleteTutorProfile \in Seq(RouteStep) /\ Locks(DeleteTutorProfile, Losable)
      /\ RefusesFirst(DeleteTutorProfile) /\ Identifies(DeleteTutorProfile)
    BY DEF DeleteTutorProfile
<1>9. /\ PostVideoFeedback \in Seq(RouteStep) /\ Locks(PostVideoFeedback, Losable)
      /\ RefusesFirst(PostVideoFeedback) /\ Identifies(PostVideoFeedback)
    BY DEF PostVideoFeedback
<1> HIDE DEF Locks, Implied, RefusesFirst, Identifies, Losable
<1> QED
    BY <1>1, <1>2, <1>3, <1>4, <1>5, <1>6, <1>7, <1>8, <1>9 DEF WritesOwnRows

\* These refuse after a commit too.
LEMMA RefusingSteps ==
    \A route \in NotesTransfers \cup {PostPhoneRequest, PostPhoneVerify} :
        /\ route \in Seq(RouteStep) /\ Locks(route, Losable)
        /\ Identifies(route)
<1> USE DEF Locks, Implied, RefusesFirst, Identifies, Losable
<1>1. /\ PostPhoneRequest \in Seq(RouteStep) /\ Locks(PostPhoneRequest, Losable)
      /\ Identifies(PostPhoneRequest)
    BY DEF PostPhoneRequest
<1>2. /\ PostPhoneVerify \in Seq(RouteStep) /\ Locks(PostPhoneVerify, Losable)
      /\ Identifies(PostPhoneVerify)
    BY DEF PostPhoneVerify
<1>3. /\ PutEducatorIngest \in Seq(RouteStep) /\ Locks(PutEducatorIngest, Losable)
      /\ Identifies(PutEducatorIngest)
    BY DEF PutEducatorIngest, Receive, Transfer
<1>4. /\ PutProviderIngest \in Seq(RouteStep) /\ Locks(PutProviderIngest, Losable)
      /\ Identifies(PutProviderIngest)
    BY DEF PutProviderIngest, Receive, Transfer
<1>5. /\ PutProviderMedia \in Seq(RouteStep) /\ Locks(PutProviderMedia, Losable)
      /\ Identifies(PutProviderMedia)
    BY DEF PutProviderMedia, Receive, Transfer
<1>6. /\ PostAttachments \in Seq(RouteStep) /\ Locks(PostAttachments, Losable)
      /\ Identifies(PostAttachments)
    BY DEF PostAttachments, Supporting, Supported, Configured, Body, Upload
<1> HIDE DEF Locks, Implied, RefusesFirst, Identifies, Losable
<1> QED
    BY <1>1, <1>2, <1>3, <1>4, <1>5, <1>6 DEF NotesTransfers

\* The last step tells the routes that lock the enrolment from the others.
LEMMA PlaceIsLast == \A route \in LocksPlaceOnly : Last(route).facts = {"place"}
<1> USE DEF Last
<1>1. Last(PostCompletion).facts = {"place"}  BY DEF PostCompletion, Video, InCourse
<1>2. Last(DeleteCompletion).facts = {"place"}  BY DEF DeleteCompletion, Video, InCourse
<1>3. Last(PutNote).facts = {"place"}  BY DEF PutNote, Video, InCourse
<1>4. Last(DeleteNote).facts = {"place"}  BY DEF DeleteNote, Video, InCourse
<1>5. Last(PostAttempt).facts = {"place"}  BY DEF PostAttempt, InCourse
<1>6. Last(PostAttemptAnswers).facts = {"place"}  BY DEF PostAttemptAnswers, InCourse
<1>7. Last(PostLessonReview).facts = {"place"}  BY DEF PostLessonReview, InCourse
<1>8. Last(PostMessage).facts = {"place"}  BY DEF PostMessage, InCourse
<1>9. Last(PostProblem).facts = {"place"}  BY DEF PostProblem, InCourse
<1> HIDE DEF Last
<1> QED
    BY <1>1, <1>2, <1>3, <1>4, <1>5, <1>6, <1>7, <1>8, <1>9 DEF LocksPlaceOnly

LEMMA NothingIsLast ==
    \A route \in LocksNothing \cup WritesOwnRows \cup NotesTransfers : Last(route).facts = {}
<1> USE DEF Last
<1>1. Last(PostCallEnd).facts = {}  BY DEF PostCallEnd
<1>2. Last(PostAiPermission).facts = {}  BY DEF PostAiPermission
<1>3. Last(PostAiTranscript).facts = {}  BY DEF PostAiTranscript
<1>4. Last(PostCourseTeam).facts = {}  BY DEF PostCourseTeam
<1>5. Last(DeleteCourseTeam).facts = {}  BY DEF DeleteCourseTeam
<1>6. Last(PatchCourseTeam).facts = {}  BY DEF PatchCourseTeam
<1>7. Last(PostInstituteCall).facts = {}  BY DEF PostInstituteCall
<1>8. Last(PostFollowUp).facts = {}  BY DEF PostFollowUp
<1>9. Last(PostCalls).facts = {}  BY DEF PostCalls
<1>10. Last(PostConsent).facts = {}  BY DEF PostConsent
<1>11. Last(PatchProblemRequest).facts = {}  BY DEF PatchProblemRequest
<1>12. Last(PatchProblemSession).facts = {}  BY DEF PatchProblemSession
<1>13. Last(PostCancel).facts = {}  BY DEF PostCancel
<1>14. Last(DeletePrivateNotes).facts = {}  BY DEF DeletePrivateNotes
<1>15. Last(DeleteAffiliation).facts = {}  BY DEF DeleteAffiliation
<1>16. Last(PostPhoneRequest).facts = {}  BY DEF PostPhoneRequest
<1>17. Last(PostPhoneVerify).facts = {}  BY DEF PostPhoneVerify
<1>18. Last(PostPractice).facts = {}  BY DEF PostPractice, InCourse
<1>19. Last(PostTutor).facts = {}  BY DEF PostTutor
<1>20. Last(PostTutorPractice).facts = {}  BY DEF PostTutorPractice
<1>21. Last(PostTutorProfile).facts = {}  BY DEF PostTutorProfile
<1>22. Last(DeleteTutorProfile).facts = {}  BY DEF DeleteTutorProfile
<1>23. Last(PostVideoFeedback).facts = {}  BY DEF PostVideoFeedback
<1>24. Last(PutEducatorIngest).facts = {}  BY DEF PutEducatorIngest, Receive, Transfer
<1>25. Last(PutProviderIngest).facts = {}  BY DEF PutProviderIngest, Receive, Transfer
<1>26. Last(PutProviderMedia).facts = {}  BY DEF PutProviderMedia, Receive, Transfer
<1>27. Last(PostAttachments).facts = {}  BY DEF PostAttachments, Supporting,
    Supported, Configured, Body, Upload
<1> HIDE DEF Last
<1> QED
    BY <1>1, <1>2, <1>3, <1>4, <1>5, <1>6, <1>7, <1>8, <1>9, <1>10, <1>11, <1>12,
       <1>13, <1>14, <1>15, <1>16, <1>17, <1>18, <1>19, <1>20, <1>21, <1>22, <1>23,
       <1>24, <1>25, <1>26, <1>27 DEF LocksNothing, WritesOwnRows, NotesTransfers

LEMMA RoutesAreDisciplined == \A route \in Routes : Disciplined(route)
<1>1. \A route \in LocksPlaceOnly : Disciplined(route)
    <2>1. \A route \in LocksPlaceOnly : MayLose(route) = {"member", "role"}
        BY DEF MayLose
    <2> QED
        BY <2>1, LocksPlaceOnlySteps DEF Disciplined
<1>2. \A route \in LocksNothing \cup WritesOwnRows \cup NotesTransfers :
          MayLose(route) = Losable
    <2>1. \A route \in LocksNothing \cup WritesOwnRows \cup NotesTransfers :
              route \notin LocksPlaceOnly
        BY PlaceIsLast, NothingIsLast
    <2> QED
        BY <2>1 DEF MayLose, Losable
<1>3. \A route \in LocksNothing \cup WritesOwnRows \cup NotesTransfers : Disciplined(route)
    <2>1. NotesTransfers \cup {PostPhoneRequest, PostPhoneVerify} \subseteq RefusesAfterWriting
        BY DEF RefusesAfterWriting
    <2> QED
        BY <1>2, <2>1, LocksNothingSteps, WritesOwnRowsSteps, RefusingSteps DEF Disciplined
<1>4. Disciplined(PostKeyedStudent)
    <2>1. Last(PostKeyedStudent).facts = {"role", "key"}
        BY DEF Last, PostKeyedStudent
    <2>2. MayLose(PostKeyedStudent) = {"key"}
        BY <2>1, PlaceIsLast, NothingIsLast DEF MayLose, CountsCalls
    <2>3. PostKeyedStudent \in Seq(RouteStep) /\ Locks(PostKeyedStudent, {"key"})
        BY DEF Locks, Implied, PostKeyedStudent
    <2>4. Identifies(PostKeyedStudent)
        BY DEF Identifies, PostKeyedStudent
    <2> QED
        BY <2>2, <2>3, <2>4 DEF Disciplined, RefusesAfterWriting, CountsCalls
<1>5. Disciplined(PostOnboard)
    <2>1. PostOnboard \in Seq(RouteStep) /\ Locks(PostOnboard, {}) /\ Identifies(PostOnboard)
        BY DEF Locks, Implied, Identifies, PostOnboard
    <2> QED
        BY <2>1, LosesMore DEF Disciplined, RefusesAfterWriting
<1>6. \A route \in OpenToAll : Disciplined(route)
    <2>1. /\ GetLive \in Seq(RouteStep) /\ Locks(GetLive, {}) /\ RefusesFirst(GetLive)
          /\ GetReady \in Seq(RouteStep) /\ Locks(GetReady, {}) /\ RefusesFirst(GetReady)
        BY DEF Locks, Implied, RefusesFirst, GetLive, GetReady
    <2> QED
        BY <2>1, LosesMore DEF Disciplined, OpenToAll
<1>7. \A route \in Routes \ (LocksPlaceOnly \cup LocksNothing \cup WritesOwnRows
              \cup NotesTransfers \cup CountsCalls \cup {PostOnboard} \cup OpenToAll) :
          Plain(route)
    BY PlainStudentRoutes, PlainTeachingRoutes, PlainOfficeRoutes DEF Routes
<1> QED
    BY <1>1, <1>3, <1>4, <1>5, <1>6, <1>7, PlainIsDisciplined DEF CountsCalls

HIDE DEF Step, Check, Origin, Named, Written, Session, Member, Role, Secret, Key, Reads,
         Asks, HasPlace, Commits, Viewer, Sender, Facts, RouteStep

\* A request that wrote has a commit behind it; a token that was shown is still there.
Progress ==
    /\ handled.wrote =>
          \E i \in 1..(handled.at - 1) : handled.route[i].does = "commit"
    /\ "token" \in Asked => "token" \in caller

RequestsIInv == RequestsTypeOK /\ Progress /\ WritesUnderAuthority /\ AnswersAreHonest

LEMMA RouteTypes ==
    ASSUME RequestsTypeOK
    PROVE  /\ handled.route \in Routes /\ Disciplined(handled.route)
           /\ handled.route \in Seq(RouteStep) /\ Len(handled.route) \in Nat
           /\ DOMAIN handled.route = 1..Len(handled.route)
           /\ \A i \in DOMAIN handled.route : handled.route[i] \in RouteStep
           /\ handled.at \in 1..(Len(handled.route) + 1)
           /\ caller \subseteq Facts /\ Asked \subseteq Facts
           /\ "role" \in caller => "member" \in caller
<1>1. handled.route \in Routes /\ handled.at \in 1..(Len(handled.route) + 1)
    BY DEF RequestsTypeOK
<1>2. Disciplined(handled.route) /\ handled.route \in Seq(RouteStep)
    BY <1>1, RoutesAreDisciplined DEF Disciplined
<1>3. /\ Len(handled.route) \in Nat /\ DOMAIN handled.route = 1..Len(handled.route)
      /\ \A i \in DOMAIN handled.route : handled.route[i] \in RouteStep
    BY <1>2
<1>4. \A i \in DOMAIN handled.route : handled.route[i].facts \subseteq Facts
    BY <1>3 DEF RouteStep
<1>5. Mentions(handled.route) \subseteq Facts
    BY <1>4 DEF Mentions
<1>6. caller \subseteq Facts /\ ("role" \in caller => "member" \in caller)
    BY <1>5 DEF RequestsTypeOK, Callers, Facts
<1>7. Asked \subseteq Facts
    BY <1>1, <1>3, <1>4 DEF Asked
<1> QED
    BY <1>1, <1>2, <1>3, <1>6, <1>7

LEMMA RequestsInitEstablishes == RequestsInit => RequestsIInv
<1> SUFFICES ASSUME NEW route \in Routes, NEW facts \in Callers(route),
                    caller = facts, handled = Arrived(route, facts)
             PROVE  RequestsIInv
    BY DEF RequestsInit
<1>1. Len(route) \in Nat
    BY RoutesAreDisciplined DEF Disciplined
<1>2. /\ handled.route = route /\ handled.at = 1 /\ handled.known = {} /\ handled.lost = {}
      /\ handled.consulted = FALSE /\ handled.wrote = FALSE /\ handled.answer = 0
    BY DEF Arrived
<1>3. RequestsTypeOK
    <2>1. 0 \in Answers(route) /\ 1 \in 1..(Len(route) + 1)
        BY <1>1 DEF Answers
    <2>2. handled \in [route : {route}, at : {1}, known : {{}}, consulted : BOOLEAN,
                       wrote : BOOLEAN, lost : {{}}, answer : {0}]
        BY DEF Arrived
    <2> QED
        BY <1>2, <2>1, <2>2 DEF RequestsTypeOK
<1>4. Asked = {}
    BY <1>2 DEF Asked
<1> QED
    BY <1>2, <1>3, <1>4 DEF RequestsIInv, Progress, WritesUnderAuthority, AnswersAreHonest

\* After a step its facts have been asked too.
LEMMA AdvanceAsks ==
    ASSUME RequestsTypeOK, AtStep, NEW next, handled' = next,
           next.at = handled.at + 1, next.route = handled.route
    PROVE  /\ handled.at \in DOMAIN handled.route /\ Current \in RouteStep
           /\ Asked' = Asked \cup Current.facts
<1>1. handled.at \in DOMAIN handled.route /\ Current \in RouteStep
    BY RouteTypes DEF AtStep, AtEnd, Current
<1>2. 1..((handled.at + 1) - 1) = (1..(handled.at - 1)) \cup {handled.at}
    BY RouteTypes
<1>3. Asked' = UNION {handled.route[i].facts : i \in (1..(handled.at - 1)) \cup {handled.at}}
    BY <1>2 DEF Asked
<1> QED
    BY <1>1, <1>3 DEF Asked, Current

\* Before the database is asked, a session, a token or a key has been.
LEMMA AskedBeforeConsulting ==
    ASSUME RequestsIInv, handled.consulted \/ (AtStep /\ UsesDatabase),
           handled.route \notin OpenToAll
    PROVE  Asked \cap {"session", "token", "key"} # {}
<1>1. CASE handled.consulted
    BY <1>1 DEF RequestsIInv, AnswersAreHonest
<1>2. CASE AtStep /\ UsesDatabase
    <2>1. handled.at \in DOMAIN handled.route
        BY <1>2, RouteTypes DEF RequestsIInv, AtStep, AtEnd
    <2>2. PICK j \in 1..(handled.at - 1) :
              handled.route[j].facts \cap {"session", "token", "key"} # {}
        BY <1>2, <2>1, RouteTypes
        DEF RequestsIInv, Disciplined, Identifies, UsesDatabase, Current
    <2> QED
        BY <2>2 DEF Asked
<1> QED
    BY <1>1, <1>2

\* The request after a step that goes on.
Went(known, lost, wrote) ==
    [Advanced EXCEPT !.known = known, !.lost = lost, !.wrote = wrote]

\* What every step that goes on keeps.
LEMMA AdvanceKeeps ==
    ASSUME RequestsIInv, AtStep, UNCHANGED caller,
           NEW known \in SUBSET Facts, NEW lost \in SUBSET MayLose(handled.route),
           NEW wrote \in BOOLEAN, lost \subseteq Facts,
           handled' = Went(known, lost, wrote),
           wrote => handled.wrote \/ Current.does = "commit",
           "token" \in Current.facts => "token" \in caller
    PROVE  RequestsIInv'
<1>1. RequestsTypeOK /\ handled.at \in DOMAIN handled.route /\ handled.answer = 0
    BY RouteTypes DEF RequestsIInv, AtStep, AtEnd, Pending
<1>2. /\ handled'.route = handled.route /\ handled'.at = handled.at + 1
      /\ handled'.consulted = (handled.consulted \/ UsesDatabase)
      /\ handled'.known = known /\ handled'.lost = lost /\ handled'.wrote = wrote
      /\ handled'.answer = 0
    BY <1>1 DEF Went, Advanced, RequestsTypeOK
<1>3. Asked' = Asked \cup Current.facts
    BY <1>1, <1>2, AdvanceAsks
<1>4. RequestsTypeOK'
    <2>1. handled.at + 1 \in 1..(Len(handled.route) + 1)
        BY <1>1, RouteTypes
    <2>2. (handled.consulted \/ UsesDatabase) \in BOOLEAN
        BY <1>1 DEF RequestsTypeOK, UsesDatabase
    <2> QED
        BY <1>1, <2>1, <2>2 DEF RequestsTypeOK, Went, Advanced
<1>5. Progress'
    <2>1. ASSUME wrote
          PROVE  \E i \in 1..((handled.at + 1) - 1) : handled.route[i].does = "commit"
        <3>1. CASE handled.wrote
            BY <1>1, <3>1, RouteTypes DEF RequestsIInv, Progress
        <3>2. CASE Current.does = "commit"
            BY <1>1, <3>2, RouteTypes DEF Current
        <3> QED
            BY <2>1, <3>1, <3>2
    <2> QED
        BY <1>2, <1>3, <2>1 DEF RequestsIInv, Progress
<1>6. WritesUnderAuthority'
    BY <1>2 DEF WritesUnderAuthority
<1>7. AnswersAreHonest'
    <2>1. handled'.consulted /\ handled.route \notin OpenToAll =>
              Asked \cap {"session", "token", "key"} # {}
        BY <1>2, AskedBeforeConsulting
    <2>2. handled'.answer \notin 400..499
        BY <1>2
    <2> QED
        BY <1>2, <1>3, <2>1, <2>2 DEF AnswersAreHonest
<1> QED
    BY <1>4, <1>5, <1>6, <1>7 DEF RequestsIInv

LEMMA PassKeeps == ASSUME RequestsIInv, Pass PROVE RequestsIInv'
<1> DEFINE known == IF Current.does = "member" THEN caller ELSE handled.known
<1>1. /\ AtStep /\ Satisfied /\ UNCHANGED caller
      /\ handled' = [Advanced EXCEPT !.known = known]
    BY DEF Pass, Advanced, RequestsIInv, RequestsTypeOK
<1>2. RequestsTypeOK /\ caller \subseteq Facts
    BY RouteTypes DEF RequestsIInv
<1>3. /\ known \in SUBSET Facts /\ handled.lost \in SUBSET MayLose(handled.route)
      /\ handled.lost \subseteq Facts /\ handled.wrote \in BOOLEAN
    BY <1>2 DEF RequestsIInv, RequestsTypeOK, WritesUnderAuthority
<1>4. handled' = Went(known, handled.lost, handled.wrote)
    BY <1>1, <1>2 DEF Went, Advanced, RequestsTypeOK
<1>5. "token" \in Current.facts => "token" \in caller
    <2>1. "token" \in Current.facts => Current.does = "session"
        BY <1>1, <1>2, RouteTypes DEF Disciplined, Locks, AtStep, AtEnd, Current
    <2> QED
        BY <1>1, <2>1 DEF Satisfied
<1> HIDE DEF known
<1> QED
    BY <1>1, <1>3, <1>4, <1>5, AdvanceKeeps

\* A transaction holds what was asked before it, but for what the route may lose.
LEMMA CommitHolds ==
    ASSUME RequestsIInv, AtStep, Current.does = "commit"
    PROVE  /\ "token" \notin Current.facts
           /\ Satisfied => Asked \ (caller \cup {"session"}) \subseteq MayLose(handled.route)
<1>1. /\ handled.at \in DOMAIN handled.route /\ Disciplined(handled.route)
      /\ "role" \in caller => "member" \in caller
    BY RouteTypes DEF RequestsIInv, AtStep, AtEnd
<1>2. "token" \notin Current.facts
    BY <1>1 DEF Disciplined, Locks, Current
<1>3. \A j \in 1..(handled.at - 1) : handled.route[j].facts \subseteq
          Implied(Current) \cup {"session", "token"} \cup MayLose(handled.route)
    BY <1>1 DEF Disciplined, Locks, Current
<1>4. Asked \subseteq Implied(Current) \cup {"session", "token"} \cup MayLose(handled.route)
    BY <1>3 DEF Asked
<1>5. Satisfied => Implied(Current) \subseteq caller
    BY <1>1 DEF Satisfied, Implied
<1> QED
    BY <1>2, <1>4, <1>5 DEF RequestsIInv, Progress

LEMMA CommitKeeps == ASSUME RequestsIInv, Commit PROVE RequestsIInv'
<1> DEFINE lost == handled.lost \cup (Asked \ (caller \cup {"session"}))
<1>1. /\ AtStep /\ Current.does = "commit" /\ Satisfied /\ UNCHANGED caller
      /\ RequestsTypeOK
    BY DEF Commit, RequestsIInv
<1>2. handled' = Went(handled.known, lost, TRUE)
    BY <1>1 DEF Commit, Went, Advanced, RequestsTypeOK
<1>3. lost \in SUBSET MayLose(handled.route)
    BY <1>1, CommitHolds DEF RequestsIInv, WritesUnderAuthority
<1>4. lost \subseteq Facts /\ handled.known \in SUBSET Facts
    BY <1>1, RouteTypes DEF RequestsTypeOK
<1> HIDE DEF lost
<1> QED
    BY <1>1, <1>2, <1>3, <1>4, CommitHolds, AdvanceKeeps

LEMMA CommitNothingKeeps == ASSUME RequestsIInv, CommitNothing PROVE RequestsIInv'
<1>1. AtStep /\ Current.does = "commit" /\ UNCHANGED caller /\ RequestsTypeOK
    BY DEF CommitNothing, RequestsIInv
<1>2. handled' = Went(handled.known, handled.lost, handled.wrote)
    BY <1>1 DEF CommitNothing, Went, Advanced, RequestsTypeOK
<1>3. /\ handled.lost \in SUBSET MayLose(handled.route) /\ handled.lost \subseteq Facts
      /\ handled.known \in SUBSET Facts /\ handled.wrote \in BOOLEAN
    BY <1>1 DEF RequestsIInv, RequestsTypeOK, WritesUnderAuthority
<1> QED
    BY <1>1, <1>2, <1>3, CommitHolds, AdvanceKeeps

\* An answer ends the request; a refusal after a commit is one the route may give.
LEMMA AnsweringKeeps ==
    ASSUME RequestsIInv, Pending, UNCHANGED caller, NEW code, handled' = Answered(code),
           code \in {200, 500} \/ (AtStep /\ code \in Current.refusals)
    PROVE  RequestsIInv'
<1>1. RequestsTypeOK
    BY DEF RequestsIInv
<1>2. /\ handled'.route = handled.route /\ handled'.at = handled.at
      /\ handled'.consulted = (handled.consulted \/ (AtStep /\ UsesDatabase))
      /\ handled'.lost = handled.lost /\ handled'.wrote = handled.wrote
      /\ handled'.known = handled.known /\ handled'.answer = code
      /\ handled' \in [route : {handled.route}, at : {handled.at}, known : {handled.known},
                       consulted : BOOLEAN, lost : {handled.lost}, wrote : {handled.wrote},
                       answer : {code}]
    BY <1>1 DEF Answered, RequestsTypeOK
<1>3. Asked' = Asked
    BY <1>2 DEF Asked
<1>4. AtStep => handled.at \in DOMAIN handled.route
    BY <1>1, RouteTypes DEF AtStep, AtEnd
<1>5. RequestsTypeOK'
    <2>1. code \in Answers(handled.route)
        BY <1>4 DEF Answers, Current
    <2> QED
        BY <1>1, <1>2, <2>1 DEF RequestsTypeOK
<1>6. Progress' /\ WritesUnderAuthority'
    BY <1>2, <1>3 DEF RequestsIInv, Progress, WritesUnderAuthority
<1>7. ASSUME code \in 400..499, handled.wrote
      PROVE  handled.route \in RefusesAfterWriting
    <2>1. AtStep /\ code \in Current.refusals
        BY <1>7
    <2>2. PICK i \in 1..(handled.at - 1) : handled.route[i].does = "commit"
        BY <1>7 DEF RequestsIInv, Progress
    <2>3. i \in DOMAIN handled.route /\ i < handled.at
        BY <1>1, <1>4, <2>1, RouteTypes
    <2>4. ~RefusesFirst(handled.route)
        BY <1>4, <1>7, <2>1, <2>2, <2>3 DEF RefusesFirst, Current
    <2>5. Disciplined(handled.route)
        BY <1>1, RouteTypes
    <2> QED
        BY <2>4, <2>5 DEF Disciplined
<1>8. AnswersAreHonest'
    BY <1>2, <1>3, <1>7, AskedBeforeConsulting DEF AnswersAreHonest
<1> QED
    BY <1>5, <1>6, <1>8 DEF RequestsIInv

\* What happens to the caller, tokens apart, leaves the request as it is.
LEMMA UntouchedKeeps ==
    ASSUME RequestsIInv, handled' = handled, caller' \in Callers(handled.route),
           "token" \in caller => "token" \in caller'
    PROVE  RequestsIInv'
<1>1. RequestsTypeOK'
    BY DEF RequestsIInv, RequestsTypeOK
<1>2. Asked' = Asked
    BY DEF Asked
<1>3. Progress'
    BY <1>2 DEF RequestsIInv, Progress
<1>4. WritesUnderAuthority'
    BY DEF RequestsIInv, WritesUnderAuthority
<1>5. AnswersAreHonest'
    BY <1>2 DEF RequestsIInv, AnswersAreHonest
<1> QED
    BY <1>1, <1>3, <1>4, <1>5 DEF RequestsIInv

LEMMA RequestsStepKeeps == RequestsIInv /\ [RequestsNext]_requestVars => RequestsIInv'
<1> SUFFICES ASSUME RequestsIInv, [RequestsNext]_requestVars PROVE RequestsIInv'
    OBVIOUS
<1>1. RequestsTypeOK
    BY DEF RequestsIInv
<1>2. CASE UNCHANGED requestVars
    <2>1. handled' = handled /\ caller' = caller
        BY <1>2 DEF requestVars
    <2>2. caller' \in Callers(handled.route)
        BY <1>1, <2>1 DEF RequestsTypeOK
    <2> QED
        BY <2>1, <2>2, UntouchedKeeps
<1>3. CASE Refuse
    BY <1>3, AnsweringKeeps DEF Refuse, AtStep
<1>4. CASE Fail
    BY <1>4, AnsweringKeeps DEF Fail, AtStep
<1>5. CASE Done
    BY <1>5, AnsweringKeeps DEF Done
<1>6. CASE CallerChanges
    <2>1. caller' \in Callers(handled.route) /\ handled' = handled
        BY <1>6 DEF CallerChanges
    <2>2. "token" \in caller => "token" \in caller'
        BY <1>6 DEF CallerChanges
    <2> QED
        BY <2>1, <2>2, UntouchedKeeps
<1> QED
    BY <1>2, <1>3, <1>4, <1>5, <1>6, PassKeeps, CommitKeeps, CommitNothingKeeps
    DEF RequestsNext

LEMMA RequestsInductive == RequestsSpec => []RequestsIInv
BY RequestsInitEstablishes, RequestsStepKeeps, PTL DEF RequestsSpec

\* A request is at a step of its route, and its answer is one that route may give.
THEOREM RequestsTypeCorrect == RequestsSpec => []RequestsTypeOK
<1>1. RequestsIInv => RequestsTypeOK
    BY DEF RequestsIInv
<1> QED
    BY <1>1, RequestsInductive, PTL

\* Whatever others do to memberships, enrolments and keys between the steps of a handler:
\* what it has asked still holds when it commits, but for the routes named in Requests.
THEOREM WritesHaveAuthority == RequestsSpec => []WritesUnderAuthority
<1>1. RequestsIInv => WritesUnderAuthority
    BY DEF RequestsIInv
<1> QED
    BY <1>1, RequestsInductive, PTL

\* Whoever is refused has changed nothing, but on the routes named in Requests, and no
\* row is read for somebody who has shown nothing.
THEOREM RefusalsAreHonest == RequestsSpec => []AnswersAreHonest
<1>1. RequestsIInv => AnswersAreHonest
    BY DEF RequestsIInv
<1> QED
    BY <1>1, RequestsInductive, PTL

--------------------------------------------------------------------------------
(***************************************************************************)
(* Exams, lessons, tickets, files and requests side by side, as in         *)
(* MCStudents: a part that is not chosen waits, and waiting is a step it   *)
(* allows.                                                                 *)
(***************************************************************************)
studentVars == <<examVars, learningVars, supportVars, attachmentVars, requestVars, chosen>>

LEMMA StudentSteps ==
    [Next]_studentVars =>
        /\ [ExamsNext]_examVars /\ [LearningNext]_learningVars
        /\ [SupportNext]_supportVars /\ [AttachmentsNext]_attachmentVars
        /\ [RequestsNext]_requestVars
<1> SUFFICES ASSUME [Next]_studentVars
             PROVE  /\ [ExamsNext]_examVars /\ [LearningNext]_learningVars
                    /\ [SupportNext]_supportVars /\ [AttachmentsNext]_attachmentVars
                    /\ [RequestsNext]_requestVars
    OBVIOUS
<1>1. CASE Next
    <2>1. chosen = "exam" \/ UNCHANGED examVars
        BY <1>1 DEF Next, Waits
    <2>2. chosen = "course" \/ UNCHANGED learningVars
        BY <1>1 DEF Next, Waits
    <2>3. chosen = "ticket" \/ UNCHANGED supportVars
        BY <1>1 DEF Next, Waits
    <2>4. chosen = "file" \/ UNCHANGED attachmentVars
        BY <1>1 DEF Next, Waits
    <2>5. chosen = "request" \/ UNCHANGED requestVars
        BY <1>1 DEF Next, Waits
    <2> QED
        BY <1>1, <2>1, <2>2, <2>3, <2>4, <2>5 DEF Next
<1>2. CASE UNCHANGED studentVars
    BY <1>2 DEF studentVars
<1> QED
    BY <1>1, <1>2

\* Every part behaves by its own specification, whichever is chosen.
THEOREM StudentsImplementParts ==
    Spec => ExamsSpec /\ LearningSpec /\ SupportSpec /\ AttachmentsSpec /\ RequestsSpec
<1>1. Init => ExamsInit /\ LearningInit /\ SupportInit /\ AttachmentsInit
    BY DEF Init
<1>2. Init => RequestsInit
    <2>1. GetLive \in Routes
        BY DEF Routes, OfficeRoutes
    <2>2. {} \in Callers(GetLive)
        BY DEF Callers
    <2> QED
        BY <2>1, <2>2 DEF Init, RequestsInit
<1> QED
    BY <1>1, <1>2, StudentSteps, PTL
    DEF Spec, studentVars, ExamsSpec, LearningSpec, SupportSpec, AttachmentsSpec,
        RequestsSpec

\* Rows are of their tables, for any values of the constants.
THEOREM StudentsTypeCorrect == Spec => []TypeOK
<1>1. ExamsIInv => ExamsTypeOK
    BY DEF ExamsIInv
<1>2. SupportIInv => SupportTypeOK
    BY DEF SupportIInv
<1>3. AttachmentsIInv => AttachmentsTypeOK
    BY DEF AttachmentsIInv
<1>4. LearningIInv => LearningTypeOK
    BY DEF LearningIInv, RowsOK, PoolInv, Open, LearningTypeOK
<1>5. ExamsTypeOK /\ LearningTypeOK /\ SupportTypeOK /\ AttachmentsTypeOK
          /\ RequestsTypeOK => TypeOK
    BY DEF TypeOK
<1> QED
    BY <1>1, <1>2, <1>3, <1>4, <1>5, StudentsImplementParts, ExamsInductive,
       LearningInductive, SupportInductive, AttachmentsInductive, RequestsTypeCorrect, PTL

\* Support answers within the time it has promised, with files that are few and clean,
\* whatever requesters, operators, uploads and the scanner do and in any order.
THEOREM SupportKeepsWord == Spec => []SupportKeepsItsWord
<1>1. PromisedTimeIsKept /\ FilesAreFewAndClean => SupportKeepsItsWord
    BY DEF SupportKeepsItsWord
<1> QED
    BY <1>1, StudentsImplementParts, PromisesAreKept, FilesStayFewAndClean, PTL

\* What the run of MCStudents checks on a small instance, for every instance.
THEOREM StudentsAreSafe ==
    Spec => /\ [](/\ AttemptsAreSound /\ ExercisesAreSound /\ SupportKeepsItsWord
                  /\ WritesUnderAuthority /\ AnswersAreHonest)
            /\ ClosedIsFrozen /\ AnswersStand
BY StudentsImplementParts, ExamsAreFair, ExercisesStaySound, SupportKeepsWord,
   ClosedAttemptsStay, StudentAnswersStand, WritesHaveAuthority, RefusalsAreHonest, PTL
================================================================================
