----------------------------- MODULE ServiceCalls -----------------------------
(***************************************************************************)
(* The calls of one paid service order: booking, the media room, the       *)
(* presence events the media server reports about it, and the seconds that *)
(* are taken off the order's grant.                                        *)
(*                                                                         *)
(* Every transaction locks the order row first, so each is one action.     *)
(* The media server is outside the code: people join and leave with the    *)
(* token they hold, a room appears with the first of them, events arrive   *)
(* late, repeated and in any order, and a request to close a room may fail.*)
(* One unit of time is a second, the precision of the events.  The window  *)
(* of a run is far shorter than the hour a join token lives.               *)
(***************************************************************************)
EXTENDS Integers, FiniteSets, FiniteSetsExt

CONSTANTS
    Calls,          \* idempotency keys of bookings; each names one call
    Student,        \* the student of the order
    Staff,          \* active members of the institute
    Grant,          \* seconds granted when the order was paid
    Validity,       \* last second at which the order may be used
    MaxTime,        \* bound on time
    MaxMoves,       \* bound on how often people join or leave one call
    Reports,        \* seconds another usage provider may report (none exists)
    Volatile,       \* people whose membership may be suspended and restored
    Prompt,         \* events, sweeps and closings take less than a second
    JoinAfterEnd    \* people use a token they hold after the call has ended

People == {Student} \cup Staff

ASSUME StaffAssumption == IsFiniteSet(Staff) /\ Student \notin Staff
ASSUME CallsAssumption == IsFiniteSet(Calls)
ASSUME NumbersAssumption ==
    Grant \in Nat /\ Validity \in Nat /\ MaxTime \in Nat /\ MaxMoves \in Nat
ASSUME ReportsAssumption == Reports \subseteq Nat \ {0}
ASSUME VolatileAssumption == Volatile \subseteq People
ASSUME FlagsAssumption == {Prompt, JoinAfterEnd} \subseteq BOOLEAN

VARIABLES
    now,
    member,     \* people with an active membership
    status,     \* status of each call, "none" before it is booked
    slot,       \* second a call is booked for
    tokens,     \* pairs <<call, person>>: join tokens handed out
    room,       \* people connected to the room of a call
    open,       \* calls whose room exists on the media server
    sent,       \* events the media server has produced
    recorded,   \* events stored by the webhook
    connected,  \* connected_seconds of each call
    consumed,   \* seconds of the call's consume entry, 0 while there is none
    closing,    \* calls with a close request on its way
    talk,       \* history: seconds both sides really shared the first room
    overtime    \* history: seconds <<call, second>> in which something was late

lifecycle == <<status, slot>>
media == <<room, open, sent>>
billing == <<recorded, connected, consumed>>
history == <<talk, overtime>>
vars == <<now, member, status, slot, tokens, room, open, sent, recorded,
          connected, consumed, closing, talk, overtime>>

Event == [call : Calls, who : People \cup {"system"},
          kind : {"joined", "left", "room_finished"},
          at : 0..MaxTime, rank : Nat]

(***************************************************************************)
(* What the stored events of a call add up to.  They are sorted by second, *)
(* events of one second by their id; nothing counts after the room ended.  *)
(***************************************************************************)
Before(e, f) == e.at < f.at \/ (e.at = f.at /\ e.rank < f.rank)

Of(c, events) == {e \in events : e.call = c}

Finishes(events) == {e \in events : e.kind = "room_finished"}

Counted(events) ==
    {e \in events : \A f \in Finishes(events) : ~Before(f, e)}

\* p's latest event up to second t is a join.
Present(p, events, t) ==
    \E e \in events :
        /\ e.who = p /\ e.kind = "joined" /\ e.at <= t
        /\ \A f \in events : f.who = p /\ f.at <= t => ~Before(e, f)

Together(events, t) ==
    /\ Present(Student, events, t)
    /\ \E p \in Staff : Present(p, events, t)

\* Fault: the sum goes on after the room has ended.
CountsPastTheEnd(events) ==
    Cardinality({t \in 0..MaxTime :
                    (\E e \in events : t < e.at) /\ Together(events, t)})

\* The seconds before the last event in which both sides are there.
ConnectedSeconds(events) ==
    Cardinality({t \in 0..MaxTime :
                    /\ \E e \in Counted(events) : t < e.at
                    /\ Together(Counted(events), t)})

LastEventAt(events) == Max({e.at : e \in Counted(events)} \cup {0})

ActiveOverlap(events) ==
    /\ Finishes(events) = {}
    /\ Together(events, MaxTime)

\* Every second of every consume entry, and how many they are.
ConsumedSeconds == UNION {{c} \X (1..consumed[c]) : c \in Calls}
Consumption == Cardinality(ConsumedSeconds)

\* What a read of the ledger returns; never shown below zero.
Balance == IF Consumption >= Grant THEN 0 ELSE Grant - Consumption

Open(c) == status[c] \in {"scheduled", "started"}

Init ==
    /\ now = 0
    /\ member = People
    /\ status = [c \in Calls |-> "none"]
    /\ slot = [c \in Calls |-> 0]
    /\ tokens = {}
    /\ room = [c \in Calls |-> {}]
    /\ open = {}
    /\ sent = {}
    /\ recorded = {}
    /\ connected = [c \in Calls |-> 0]
    /\ consumed = [c \in Calls |-> 0]
    /\ closing = {}
    /\ talk = [c \in Calls |-> 0]
    /\ overtime = {}

(***************************************************************************)
(* Booking and the life cycle of a call.                                   *)
(***************************************************************************)
\* Fault: only a call in progress stands in the way of another one.
NothingStarted == \A c \in Calls : status[c] # "started"

NothingOpen == \A c \in Calls : ~Open(c)

InstituteActs == Staff \cap member # {}

Schedule(c, t) ==
    /\ InstituteActs
    /\ Balance > 0
    /\ status[c] = "none"
    /\ NothingOpen
    /\ t > now
    /\ status' = [status EXCEPT ![c] = "scheduled"]
    /\ slot' = [slot EXCEPT ![c] = t]
    /\ UNCHANGED <<now, member, tokens, media, billing, closing, history>>

Start(c) ==
    /\ InstituteActs
    /\ Balance > 0
    /\ status[c] = "scheduled"
    /\ now >= slot[c]
    /\ status' = [status EXCEPT ![c] = "started"]
    /\ UNCHANGED <<now, member, slot, tokens, media, billing, closing, history>>

Cancel(c) ==
    /\ InstituteActs
    /\ status[c] = "scheduled"
    /\ status' = [status EXCEPT ![c] = "cancelled"]
    /\ UNCHANGED <<now, member, slot, tokens, media, billing, closing, history>>

\* The institute or the student ends the call; whoever asks again after the
\* end asks the media server once more.
End(c) ==
    /\ InstituteActs \/ Student \in member
    /\ status[c] \in {"started", "ended"}
    /\ status' = [status EXCEPT ![c] = "ended"]
    /\ closing' = closing \cup {c}
    /\ UNCHANGED <<now, member, slot, tokens, media, billing, history>>

IssueToken(c, p) ==
    /\ p \in member
    /\ status[c] = "started"
    /\ now <= Validity
    /\ Balance > connected[c]
    /\ tokens' = tokens \cup {<<c, p>>}
    /\ UNCHANGED <<now, member, lifecycle, media, billing, closing, history>>

(***************************************************************************)
(* The media server.                                                       *)
(***************************************************************************)
Sent(c) == Of(c, sent)

\* Ids are random: among the events of this second a new one comes anywhere.  Only
\* the order of one person's events matters to the sums, and events of different
\* people keep none.  Nobody has more than MaxMoves events, so the middle of every
\* gap between the ranks taken is free.
Ranks(c, who) ==
    LET taken == {e.rank : e \in {f \in Sent(c) : f.at = now /\ f.who = who}}
        ends == taken \cup {0, 2^MaxMoves}
    IN {n \in 1..(2^MaxMoves - 1) \ taken :
            \E lo, hi \in ends :
                /\ lo < hi /\ lo + hi = 2 * n
                /\ \A m \in taken : m <= lo \/ hi <= m}

Emit(c, who, kind) ==
    \E n \in Ranks(c, who) :
        sent' = sent \cup {[call |-> c, who |-> who, kind |-> kind,
                            at |-> now, rank |-> n]}

\* People may still come and go (the bound of the model).
MayMove(c) ==
    Cardinality(Sent(c) \ Finishes(Sent(c))) < MaxMoves

\* The first to join makes the room.
Join(c, p) ==
    /\ <<c, p>> \in tokens
    /\ p \notin room[c]
    /\ MayMove(c)
    /\ JoinAfterEnd \/ status[c] = "started"
    /\ room' = [room EXCEPT ![c] = @ \cup {p}]
    /\ open' = open \cup {c}
    /\ Emit(c, p, "joined")
    /\ UNCHANGED <<now, member, lifecycle, tokens, billing, closing, history>>

Leave(c, p) ==
    /\ p \in room[c]
    /\ MayMove(c)
    /\ room' = [room EXCEPT ![c] = @ \ {p}]
    /\ Emit(c, p, "left")
    /\ UNCHANGED <<now, member, lifecycle, tokens, open, billing, closing,
                   history>>

\* An empty room is given up by the media server.
RoomExpires(c) ==
    /\ c \in open
    /\ room[c] = {}
    /\ open' = open \ {c}
    /\ Emit(c, "system", "room_finished")
    /\ UNCHANGED <<now, member, lifecycle, tokens, room, billing, closing,
                   history>>

\* A close request arrives: everybody is disconnected at that instant.
CloseRoom(c) ==
    /\ c \in closing
    /\ closing' = closing \ {c}
    /\ IF c \in open
       THEN /\ open' = open \ {c}
            /\ room' = [room EXCEPT ![c] = {}]
            /\ Emit(c, "system", "room_finished")
       ELSE UNCHANGED media
    /\ UNCHANGED <<now, member, lifecycle, tokens, billing, history>>

\* The media server cannot be reached; the caller gets an error.
CloseFails(c) ==
    /\ ~Prompt
    /\ c \in closing
    /\ closing' = closing \ {c}
    /\ UNCHANGED <<now, member, lifecycle, tokens, media, billing, history>>

(***************************************************************************)
(* The webhook.                                                            *)
(***************************************************************************)
Verified(e) ==
    CASE e.kind = "joined" -> e.who \in member
      [] e.kind = "left" -> \E f \in Of(e.call, recorded) :
                                f.who = e.who /\ f.kind = "joined"
      [] OTHER -> TRUE

Acceptable(e) == status[e.call] \in {"started", "ended"} /\ Verified(e)

\* A room is closed by the webhook itself when the stored seconds use up what
\* the ledger still holds.
UsesUpBalance(seconds, balance) == balance > 0 /\ seconds >= balance

\* Fault: a second end of the room bills the call again.
BillsEveryEnd(c, seconds) == seconds

\* Fault: a second end of the room books the difference to the first one.
BillsTheDifference(c, seconds) == seconds - consumed[c]

\* One consume entry per call: a second insert is ignored.
BilledOnce(c, seconds) == IF consumed[c] = 0 THEN seconds ELSE consumed[c]

RecordPresenceEvent(e) ==
    LET c == e.call
        events == Of(c, recorded \cup {e})
        seconds == ConnectedSeconds(events)
    IN
    /\ e \notin recorded
    /\ Acceptable(e)
    /\ recorded' = recorded \cup {e}
    /\ connected' = [connected EXCEPT ![c] = seconds]
    /\ IF e.kind = "room_finished"
       THEN /\ status' = [status EXCEPT ![c] = "ended"]
            /\ consumed' = [consumed EXCEPT ![c] = BilledOnce(c, seconds)]
            /\ UNCHANGED closing
       ELSE /\ closing' = IF UsesUpBalance(seconds, Balance)
                          THEN closing \cup {c} ELSE closing
            /\ UNCHANGED <<status, consumed>>
    /\ UNCHANGED <<now, member, slot, tokens, media, history>>

\* An event that is already stored only repeats the check of the balance.
RepeatPresenceEvent(e) ==
    /\ e \in recorded
    /\ e.kind # "room_finished"
    /\ UsesUpBalance(connected[e.call], Balance)
    /\ closing' = closing \cup {e.call}
    /\ UNCHANGED <<now, member, lifecycle, tokens, media, billing, history>>

(***************************************************************************)
(* The quota worker, once a second, and the usage boundary of another      *)
(* provider.                                                               *)
(***************************************************************************)
\* Fault: the seconds since the last event are forgotten.
StoredSecondsOnly(c, elapsed) == connected[c] < Balance

\* Fault: the room may run for the second in which the time is used up.
OneSecondLate(c, elapsed) == connected[c] + elapsed <= Balance

WithinBalance(c, elapsed) == connected[c] + elapsed < Balance

\* The worker takes the seconds from the stored events; they are the ones the
\* last write of the call stored.
Due(c) ==
    LET events == Of(c, recorded) IN
    /\ status[c] = "started"
    /\ ActiveOverlap(events)
    /\ ~WithinBalance(c, now - LastEventAt(events))

EnforceQuota(c) ==
    /\ Due(c)
    /\ closing' = closing \cup {c}
    /\ UNCHANGED <<now, member, lifecycle, tokens, media, billing, history>>

RecordUsage(c, seconds) ==
    /\ status[c] = "ended"
    /\ consumed[c] = 0
    /\ consumed' = [consumed EXCEPT ![c] = seconds]
    /\ UNCHANGED <<now, member, lifecycle, tokens, media, recorded, connected,
                   closing, history>>

(***************************************************************************)
(* Time and memberships.                                                   *)
(***************************************************************************)
Overlap(c) == Student \in room[c] /\ Staff \cap room[c] # {}

Settled ==
    /\ closing = {}
    /\ \A e \in sent \ recorded : ~Acceptable(e)
    /\ \A c \in Calls : ~Due(c)

\* Nothing is late: every event is stored, the sweep leaves no call to close, and
\* the room of an ended call has been closed.
OnTime ==
    /\ sent \subseteq recorded
    /\ \A c \in Calls : ~Due(c)
    /\ \A c \in open : status[c] = "ended" => Finishes(Sent(c)) # {}

\* The media server has announced something of the call, and its end is not stored.
Running(c) == Sent(c) # {} /\ Finishes(Of(c, recorded)) = {}

Tick ==
    /\ now < MaxTime
    /\ Prompt => Settled
    /\ now' = now + 1
    /\ talk' = [c \in Calls |->
                   IF Overlap(c) /\ Finishes(Sent(c)) = {}
                   THEN talk[c] + 1 ELSE talk[c]]
    /\ overtime' = IF OnTime THEN overtime
                   ELSE overtime \cup {<<c, now>> : c \in {d \in Calls : Running(d)}}
    /\ UNCHANGED <<member, lifecycle, tokens, media, billing, closing>>

MembershipChanges(p) ==
    /\ member' = IF p \in member THEN member \ {p} ELSE member \cup {p}
    /\ UNCHANGED <<now, lifecycle, tokens, media, billing, closing, history>>

Next ==
    \/ \E c \in Calls :
        \/ \E t \in 1..MaxTime : Schedule(c, t)
        \/ Start(c) \/ Cancel(c) \/ End(c)
        \/ \E p \in People : IssueToken(c, p) \/ Join(c, p) \/ Leave(c, p)
        \/ RoomExpires(c) \/ CloseRoom(c) \/ CloseFails(c)
        \/ EnforceQuota(c)
        \/ \E s \in Reports : RecordUsage(c, s)
    \/ \E e \in sent : RecordPresenceEvent(e) \/ RepeatPresenceEvent(e)
    \/ \E p \in Volatile : MembershipChanges(p)
    \/ Tick

Spec == Init /\ [][Next]_vars

\* The worker calls the sweep every second for ever; the media server does not
\* refuse every close.
Fairness ==
    \A c \in Calls : WF_vars(EnforceQuota(c)) /\ SF_vars(CloseRoom(c))

FairSpec == Spec /\ Fairness
------------------------------------------------------------------------------
(***************************************************************************)
(* Properties.                                                             *)
(***************************************************************************)
TypeOK ==
    /\ now \in 0..MaxTime
    /\ member \subseteq People
    /\ status \in [Calls -> {"none", "scheduled", "started", "ended",
                             "cancelled"}]
    /\ slot \in [Calls -> 0..MaxTime]
    /\ tokens \subseteq Calls \X People
    /\ room \in [Calls -> SUBSET People]
    /\ open \subseteq Calls
    /\ sent \subseteq Event
    /\ recorded \subseteq sent
    /\ connected \in [Calls -> Nat]
    /\ consumed \in [Calls -> Nat]
    /\ closing \subseteq Calls
    /\ talk \in [Calls -> Nat]
    /\ overtime \subseteq Calls \X (0..MaxTime)

\* At most one call of the order is booked or in progress.
OneOpenCall == \A c, d \in Calls : Open(c) /\ Open(d) => c = d

\* Nobody has two events in one second, the precision in which the code orders them.
Untied(c) ==
    \A p \in People : \A e, f \in Sent(c) :
        e.who = p /\ f.who = p /\ e.at = f.at => e = f

\* Whatever the order the events arrived in, once they are all stored the
\* seconds of the call plus those since the last event are the seconds both
\* sides really shared.
Exact(c) ==
    LET events == Of(c, recorded) IN
    Sent(c) \subseteq recorded =>
        talk[c] = connected[c] +
            (IF ActiveOverlap(events) THEN now - LastEventAt(events) ELSE 0)

\* The stored seconds of a call are exact where nobody joins and leaves within one
\* second: two events of one person in a second are sorted by their random ids, and
\* the later may lose.  Nothing else, no delay, loss or order of delivery, harms them.
ExactUnlessTied == \A c \in Calls : Untied(c) => Exact(c)

\* Only an ended call is billed, and nothing bills it twice or differently.
BilledOnceAfterEnd ==
    [][\A c \in Calls :
          /\ consumed[c] # 0 => consumed'[c] = consumed[c]
          /\ consumed'[c] # 0 => status'[c] = "ended"]_vars

\* The seconds taken off the grant never exceed it.
ConsumptionWithinGrant == Consumption <= Grant

\* However late events, sweeps and closings are and whoever rejoins an ended call,
\* the grant is exceeded by no more than the seconds in which something was late.
OverrunIsLate == Consumption <= Grant + Cardinality(overtime)

\* Both sides are connected, every event of the call is stored, no two of them are
\* of one person in one second, and the seconds shared are all that the ledger
\* still holds.
UsedUp(c) ==
    /\ status[c] = "started"
    /\ Overlap(c)
    /\ Sent(c) \subseteq recorded
    /\ Untied(c)
    /\ talk[c] >= Balance

\* A call that has used up the paid time does not go on for ever, although no
\* event arrives any more and closing the room may fail.
UsedUpCallStops == \A c \in Calls : UsedUp(c) ~> ~UsedUp(c)

\* No second passes with both sides connected once the paid time is used up.
NoTalkWithoutBalance ==
    [][now' # now => \A c \in Calls : Overlap(c) => Balance > 0]_vars
==============================================================================
