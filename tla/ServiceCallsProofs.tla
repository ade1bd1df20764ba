--------------------------- MODULE ServiceCallsProofs ---------------------------
(***************************************************************************)
(* Theorems about ServiceCalls for every order, every set of staff, every  *)
(* grant, and media servers as late and unreliable as they like.           *)
(***************************************************************************)
EXTENDS ServiceCalls, FiniteSetTheorems, TLAPS

\* Only ended calls are billed.
BilledIsEnded == \A c \in Calls : consumed[c] # 0 => status[c] = "ended"

SentIsFinite == IsFiniteSet(sent)

IInv == TypeOK /\ SentIsFinite /\ BilledIsEnded /\ OneOpenCall

\* The presence seconds of any set of events are a natural number.
LEMMA SecondsAreNat ==
    ASSUME NEW events
    PROVE  ConnectedSeconds(events) \in Nat
<1> DEFINE shared == {t \in 0..MaxTime :
                        /\ \E e \in Counted(events) : t < e.at
                        /\ Together(Counted(events), t)}
<1>1. IsFiniteSet(0..MaxTime)
  BY FS_Interval, NumbersAssumption
<1>2. IsFiniteSet(shared)
  BY <1>1, FS_Subset
<1>3. Cardinality(shared) \in Nat
  BY <1>2, FS_CardinalityType
<1> QED
  BY <1>3 DEF ConnectedSeconds

\* An event the media server produces is an event, and there are finitely many.
LEMMA EmitIsTyped ==
    ASSUME TypeOK, SentIsFinite, NEW c \in Calls, NEW who \in People \cup {"system"},
           NEW kind \in {"joined", "left", "room_finished"}, Emit(c, who, kind)
    PROVE  /\ sent' \subseteq Event
           /\ sent \subseteq sent'
           /\ IsFiniteSet(sent')
<1>1. PICK n \in Ranks(c, who) :
          sent' = sent \cup {[call |-> c, who |-> who, kind |-> kind,
                              at |-> now, rank |-> n]}
  BY DEF Emit
<1>2. n \in Nat
  BY DEF Ranks
<1>3. [call |-> c, who |-> who, kind |-> kind, at |-> now, rank |-> n] \in Event
  BY <1>2 DEF Event, TypeOK
<1> QED
  BY <1>1, <1>3, FS_AddElement DEF TypeOK, SentIsFinite

-----------------------------------------------------------------------------
(***************************************************************************)
(* The strengthened invariant is inductive.                                *)
(***************************************************************************)
LEMMA InitIInv == Init => IInv
BY NumbersAssumption, FS_EmptySet
   DEF Init, IInv, TypeOK, SentIsFinite, BilledIsEnded, OneOpenCall, Open, People

\* Booking: the only action that opens a call looks at all of them first.
LEMMA ScheduleIInv ==
    ASSUME IInv, NEW c \in Calls, NEW t \in 1..MaxTime, Schedule(c, t)
    PROVE  IInv'
<1> USE DEF IInv, Schedule, lifecycle, media, billing, history
<1>1. TypeOK'
  BY NumbersAssumption DEF TypeOK
<1>2. SentIsFinite'
  BY DEF SentIsFinite
<1>3. BilledIsEnded'
  BY DEF BilledIsEnded, TypeOK
<1>4. OneOpenCall'
  BY DEF OneOpenCall, NothingOpen, Open, TypeOK
<1> QED
  BY <1>1, <1>2, <1>3, <1>4

\* The other actions on the status never open a call, and never take one out
\* of "ended".
LEMMA LifecycleIInv ==
    ASSUME IInv, NEW c \in Calls, Start(c) \/ Cancel(c) \/ End(c)
    PROVE  IInv'
<1> USE DEF IInv, lifecycle, media, billing, history
<1>1. CASE Start(c)
  BY <1>1 DEF Start, TypeOK, SentIsFinite, BilledIsEnded, OneOpenCall, Open
<1>2. CASE Cancel(c)
  BY <1>2 DEF Cancel, TypeOK, SentIsFinite, BilledIsEnded, OneOpenCall, Open
<1>3. CASE End(c)
  BY <1>3 DEF End, TypeOK, SentIsFinite, BilledIsEnded, OneOpenCall, Open
<1> QED
  BY <1>1, <1>2, <1>3

\* Nothing the media server does touches the status or the bill.
LEMMA MediaIInv ==
    ASSUME IInv, NEW c \in Calls, NEW p \in People,
           \/ IssueToken(c, p) \/ Join(c, p) \/ Leave(c, p)
           \/ RoomExpires(c) \/ CloseRoom(c) \/ CloseFails(c)
    PROVE  IInv'
<1> USE DEF IInv, lifecycle, media, billing, history
<1>1. UNCHANGED <<now, member, status, slot, connected, consumed, recorded,
                  talk, overtime>>
  BY DEF IssueToken, Join, Leave, RoomExpires, CloseRoom, CloseFails
<1>2. BilledIsEnded' /\ OneOpenCall'
  BY <1>1 DEF BilledIsEnded, OneOpenCall, Open
<1>3. /\ tokens' \subseteq Calls \X People
      /\ room' \in [Calls -> SUBSET People]
      /\ open' \subseteq Calls
      /\ closing' \subseteq Calls
  BY DEF IssueToken, Join, Leave, RoomExpires, CloseRoom, CloseFails, TypeOK
<1>4. sent' = sent \/ \E who \in People \cup {"system"},
                        kind \in {"joined", "left", "room_finished"} :
                            Emit(c, who, kind)
  BY DEF IssueToken, Join, Leave, RoomExpires, CloseRoom, CloseFails
<1>5. sent' \subseteq Event /\ sent \subseteq sent' /\ IsFiniteSet(sent')
  BY <1>4, EmitIsTyped DEF TypeOK, SentIsFinite
<1>6. TypeOK'
  BY <1>1, <1>3, <1>5 DEF TypeOK
<1>7. SentIsFinite'
  BY <1>5 DEF SentIsFinite
<1> QED
  BY <1>2, <1>6, <1>7

\* The webhook bills a call only in the step that leaves it ended.
LEMMA WebhookIInv ==
    ASSUME IInv, NEW e \in sent, RecordPresenceEvent(e) \/ RepeatPresenceEvent(e)
    PROVE  IInv'
<1> USE DEF IInv, lifecycle, media, billing, history
<1>1. CASE RecordPresenceEvent(e)
  <2> DEFINE c == e.call
             seconds == ConnectedSeconds(Of(c, recorded \cup {e}))
  <2> HIDE DEF seconds
  <2>1. c \in Calls
    BY DEF TypeOK, Event
  <2>2. seconds \in Nat
    BY SecondsAreNat DEF seconds
  <2>3. /\ recorded' = recorded \cup {e}
        /\ connected' = [connected EXCEPT ![c] = seconds]
        /\ UNCHANGED <<now, member, slot, tokens, room, open, sent, talk, overtime>>
        /\ status[c] \in {"started", "ended"}
    BY <1>1 DEF RecordPresenceEvent, Acceptable, seconds
  <2>4. CASE e.kind = "room_finished"
    <3>1. /\ status' = [status EXCEPT ![c] = "ended"]
          /\ consumed' = [consumed EXCEPT ![c] = BilledOnce(c, seconds)]
          /\ UNCHANGED closing
      BY <1>1, <2>4 DEF RecordPresenceEvent, seconds
    <3>2. BilledOnce(c, seconds) \in Nat
      BY <2>1, <2>2 DEF BilledOnce, TypeOK
    <3>3. TypeOK'
      BY <2>1, <2>2, <2>3, <3>1, <3>2 DEF TypeOK
    <3>4. BilledIsEnded' /\ OneOpenCall'
      BY <2>1, <2>3, <3>1 DEF BilledIsEnded, OneOpenCall, Open, TypeOK
    <3> QED
      BY <2>3, <3>3, <3>4 DEF SentIsFinite
  <2>5. CASE e.kind # "room_finished"
    <3>1. /\ UNCHANGED <<status, consumed>>
          /\ closing' \subseteq Calls
      BY <1>1, <2>1, <2>5 DEF RecordPresenceEvent, TypeOK
    <3>2. TypeOK'
      BY <2>1, <2>2, <2>3, <3>1 DEF TypeOK
    <3> QED
      BY <2>3, <3>1, <3>2 DEF SentIsFinite, BilledIsEnded, OneOpenCall, Open
  <2> QED
    BY <2>4, <2>5
<1>2. CASE RepeatPresenceEvent(e)
  <2>1. e.call \in Calls
    BY DEF TypeOK, Event
  <2> QED
    BY <1>2, <2>1 DEF RepeatPresenceEvent, TypeOK, SentIsFinite, BilledIsEnded,
                      OneOpenCall, Open
<1> QED
  BY <1>1, <1>2

\* The worker, the other provider's report, time and memberships.
LEMMA OtherIInv ==
    ASSUME IInv,
           \/ \E c \in Calls : EnforceQuota(c)
           \/ \E c \in Calls, s \in Reports : RecordUsage(c, s)
           \/ \E p \in Volatile : p \in People /\ MembershipChanges(p)
           \/ Tick
    PROVE  IInv'
<1> USE DEF IInv, lifecycle, media, billing, history
<1>1. ASSUME NEW c \in Calls, EnforceQuota(c) PROVE IInv'
  BY <1>1 DEF EnforceQuota, TypeOK, SentIsFinite, BilledIsEnded, OneOpenCall, Open
<1>2. ASSUME NEW c \in Calls, NEW s \in Reports, RecordUsage(c, s) PROVE IInv'
  BY <1>2, ReportsAssumption
     DEF RecordUsage, TypeOK, SentIsFinite, BilledIsEnded, OneOpenCall, Open
<1>3. ASSUME NEW p \in People, MembershipChanges(p) PROVE IInv'
  BY <1>3 DEF MembershipChanges, TypeOK, SentIsFinite, BilledIsEnded, OneOpenCall, Open
<1>4. CASE Tick
  <2>1. /\ now' \in 0..MaxTime /\ talk' \in [Calls -> Nat]
        /\ overtime' \subseteq Calls \X (0..MaxTime)
    BY <1>4, NumbersAssumption DEF Tick, TypeOK
  <2> QED
    BY <1>4, <2>1 DEF Tick, TypeOK, SentIsFinite, BilledIsEnded, OneOpenCall, Open
<1> QED
  BY <1>1, <1>2, <1>3, <1>4

LEMMA NextIInv == IInv /\ [Next]_vars => IInv'
<1> SUFFICES ASSUME IInv, [Next]_vars PROVE IInv'
  OBVIOUS
<1>1. CASE UNCHANGED vars
  BY <1>1 DEF vars, IInv, TypeOK, SentIsFinite, BilledIsEnded, OneOpenCall, Open
<1>2. CASE Next
  BY <1>2, ScheduleIInv, LifecycleIInv, MediaIInv, WebhookIInv, OtherIInv,
     VolatileAssumption DEF Next, People
<1> QED
  BY <1>1, <1>2

THEOREM Inductive == Spec => []IInv
BY InitIInv, NextIInv, PTL DEF Spec

\* Every variable keeps its type.
THEOREM CallsTypeCorrect == Spec => []TypeOK
BY Inductive, PTL DEF IInv

\* An order never has two calls booked or in progress (the partial unique index
\* and the check of scheduleInstituteServiceCall agree).
THEOREM OneCallAtATime == Spec => []OneOpenCall
BY Inductive, PTL DEF IInv

\* The two parts of the promise about the bill, for every step.
LEMMA BillStep ==
    ASSUME IInv, [Next]_vars, NEW c \in Calls
    PROVE  consumed[c] # 0 => consumed'[c] = consumed[c]
<1>1. consumed' = consumed \/ \E d \in Calls : \E n :
          /\ consumed' = [consumed EXCEPT ![d] = n]
          /\ consumed[d] # 0 => n = consumed[d]
  <2>1. CASE \E d \in Calls, s \in Reports : RecordUsage(d, s)
    BY <2>1 DEF RecordUsage
  <2>2. CASE \E e \in sent : RecordPresenceEvent(e)
    <3>1. PICK e \in sent : RecordPresenceEvent(e)
      BY <2>2
    <3>2. e.call \in Calls
      BY DEF IInv, TypeOK, Event
    <3> QED
      BY <3>1, <3>2 DEF RecordPresenceEvent, BilledOnce
  <2> QED
    BY <2>1, <2>2
       DEF Next, vars, lifecycle, media, billing, history, Schedule, Start, Cancel, End,
           IssueToken, Join, Leave, RoomExpires, CloseRoom, CloseFails,
           EnforceQuota, RepeatPresenceEvent, MembershipChanges, Tick
<1> QED
  BY <1>1 DEF IInv, TypeOK

\* A call is billed at most once, only after it has ended, whatever is
\* delivered late, twice, or from another provider.
THEOREM BillIsFinal == Spec => BilledOnceAfterEnd
<1>1. ASSUME IInv, IInv', [Next]_vars
      PROVE  [\A c \in Calls :
                /\ consumed[c] # 0 => consumed'[c] = consumed[c]
                /\ consumed'[c] # 0 => status'[c] = "ended"]_vars
  BY <1>1, BillStep DEF IInv, BilledIsEnded
<1> QED
  BY <1>1, Inductive, PTL DEF Spec, BilledOnceAfterEnd

-----------------------------------------------------------------------------
(***************************************************************************)
(* The stored seconds are exact.  While a call has not been ended by the   *)
(* media server, its room holds the people whose last event is a join, and *)
(* its talk is the number of seconds in which the events so far show both  *)
(* sides; an event is of the present second, so it changes none that has   *)
(* passed, and it decides where its person is unless that person had       *)
(* another event in this second.  Afterwards the first end of the room is  *)
(* the last second that counts.                                            *)
(***************************************************************************)
\* The seconds before n in which the events show both sides.
Shared(events, n) == {t \in 0..MaxTime : t < n /\ Together(events, t)}

FirstFinish(f, events) ==
    f \in Finishes(events) /\ \A g \in Finishes(events) : ~Before(g, f)

\* What has happened before n decides the seconds before n.
LEMMA SameBefore ==
    ASSUME NEW S \in SUBSET Event, NEW T \in SUBSET Event, NEW n \in Nat,
           \A e \in Event : e.at < n => (e \in S <=> e \in T)
    PROVE  /\ \A t \in Nat : t < n => (Together(S, t) <=> Together(T, t))
           /\ Shared(S, n) = Shared(T, n)
<1>1. ASSUME NEW t \in Nat, t < n PROVE Together(S, t) <=> Together(T, t)
  <2>1. \A e \in Event : e.at \in Nat
    BY NumbersAssumption DEF Event
  <2>2. \A e \in Event : e.at <= t => (e \in S <=> e \in T)
    BY <1>1, <2>1
  <2>3. ASSUME NEW p PROVE Present(p, S, t) <=> Present(p, T, t)
    BY <2>2 DEF Present
  <2> QED
    BY <2>3 DEF Together
<1> QED
  BY <1>1, NumbersAssumption DEF Shared

LEMMA SecondsAreFinite ==
    ASSUME NEW seconds \in SUBSET (0..MaxTime)
    PROVE  IsFiniteSet(seconds) /\ Cardinality(seconds) \in Nat
<1>1. IsFiniteSet(0..MaxTime)
  BY FS_Interval, NumbersAssumption
<1>2. IsFiniteSet(seconds)
  BY <1>1, FS_Subset
<1> QED
  BY <1>2, FS_CardinalityType

LEMMA DisjointUnion ==
    ASSUME NEW A, NEW B, IsFiniteSet(A), IsFiniteSet(B), A \cap B = {}
    PROVE  /\ IsFiniteSet(A \cup B)
           /\ Cardinality(A \cup B) = Cardinality(A) + Cardinality(B)
<1>1. Cardinality(A) \in Nat /\ Cardinality(B) \in Nat
  BY FS_CardinalityType
<1>2. Cardinality(A \cap B) = 0
  BY FS_EmptySet
<1>3. /\ IsFiniteSet(A \cup B)
      /\ Cardinality(A \cup B) = Cardinality(A) + Cardinality(B) - Cardinality(A \cap B)
  BY FS_Union
<1> QED
  BY <1>1, <1>2, <1>3

\* What is stored once a first end of the room is stored, with all that happened in
\* the seconds before it, counts the seconds until that end.
LEMMA CountsUntilEnd ==
    ASSUME NEW S \in SUBSET Event, NEW E \in SUBSET S, NEW f \in E,
           FirstFinish(f, E), \A e \in S : e.at < f.at => e \in E
    PROVE  ConnectedSeconds(E) = Cardinality(Shared(S, f.at))
<1>1. \A e \in S : e.at \in Nat /\ e \in Event /\ e.rank \in Nat
  BY NumbersAssumption DEF Event
<1>2. f \in Counted(E) /\ f.kind = "room_finished" /\ f.at \in Nat
  BY <1>1 DEF FirstFinish, Counted, Finishes
<1>3. \A e \in Counted(E) : e \in E /\ e.at <= f.at
  BY <1>1 DEF FirstFinish, Counted, Finishes, Before
<1>4. \A e \in S : e.at < f.at => e \in Counted(E)
  <2> SUFFICES ASSUME NEW e \in S, e.at < f.at, NEW g \in Finishes(E), Before(g, e)
               PROVE  FALSE
    BY DEF Counted
  <2>1. g \in S
    BY DEF Finishes
  <2>2. g.at < f.at
    BY <1>1, <2>1 DEF Before
  <2> QED
    BY <1>1, <2>1, <2>2 DEF Before, FirstFinish
<1>5. \A e \in Event : e.at < f.at => (e \in Counted(E) <=> e \in S)
  BY <1>4 DEF Counted
<1>6. Counted(E) \in SUBSET Event
  BY DEF Counted
<1>7. \A t \in Nat : t < f.at => (Together(Counted(E), t) <=> Together(S, t))
  BY <1>2, <1>5, <1>6, SameBefore
<1>8. \A t \in 0..MaxTime : (\E e \in Counted(E) : t < e.at) <=> t < f.at
  BY <1>1, <1>2, <1>3, NumbersAssumption
<1> DEFINE counted == {t \in 0..MaxTime : /\ \E e \in Counted(E) : t < e.at
                                          /\ Together(Counted(E), t)}
<1>9. counted = Shared(S, f.at)
  BY <1>7, <1>8 DEF Shared
<1> QED
  BY <1>9 DEF ConnectedSeconds

\* Before the room has ended, the seconds until now are the ones until the last event
\* and, if both sides are there, all seconds since.
LEMMA SecondsSinceLast ==
    ASSUME NEW S \in SUBSET Event, Finishes(S) = {}, NEW n \in 0..MaxTime,
           \A e \in S : e.at <= n,
           \E m \in {e.at : e \in S} \cup {0} : \A k \in {e.at : e \in S} \cup {0} : m >= k
    PROVE  Cardinality(Shared(S, n)) =
               ConnectedSeconds(S) + (IF ActiveOverlap(S) THEN n - LastEventAt(S) ELSE 0)
<1> DEFINE last == LastEventAt(S)
           times == {e.at : e \in S} \cup {0}
           early == {t \in 0..MaxTime : /\ \E e \in S : t < e.at
                                        /\ Together(S, t)}
           late == IF ActiveOverlap(S) THEN last..(n - 1) ELSE {}
<1>1. Counted(S) = S
  BY DEF Counted
<1>2. last \in times /\ \A k \in times : last >= k
  BY <1>1 DEF LastEventAt, Max
<1>3. \A e \in S : e.at \in Nat
  BY NumbersAssumption DEF Event
<1>4. last \in Nat /\ last <= n /\ \A e \in S : e.at <= last
  BY <1>2, <1>3, NumbersAssumption
<1> HIDE DEF last
<1>5. \A t \in Nat : t >= last => (Together(S, t) <=> Together(S, MaxTime))
  <2>1. ASSUME NEW t \in Nat, t >= last, NEW p
        PROVE  Present(p, S, t) <=> Present(p, S, MaxTime)
    <3>1. \A e \in S : e.at <= t /\ e.at <= MaxTime
      BY <1>3, <1>4, <2>1, NumbersAssumption
    <3> QED
      BY <3>1 DEF Present
  <2> QED
    BY <2>1 DEF Together
<1>6. \A t \in 0..MaxTime : (\E e \in S : t < e.at) <=> t < last
  <2>1. last > 0 => \E e \in S : e.at = last
    BY <1>2
  <2> QED
    BY <1>3, <1>4, <2>1, NumbersAssumption
<1>7. ActiveOverlap(S) <=> Together(S, MaxTime)
  BY DEF ActiveOverlap
<1>8. Shared(S, n) = early \cup late
  <2>1. ASSUME NEW t \in 0..MaxTime
        PROVE  t \in Shared(S, n) <=> t \in early \/ t \in late
    <3>1. CASE t < last
      BY <1>4, <1>6, <2>1, <3>1, NumbersAssumption DEF Shared
    <3>2. CASE t >= last
      BY <1>4, <1>5, <1>6, <1>7, <2>1, <3>2, NumbersAssumption DEF Shared
    <3> QED
      BY <3>1, <3>2, <1>4, NumbersAssumption
  <2>2. Shared(S, n) \subseteq 0..MaxTime /\ early \subseteq 0..MaxTime
            /\ late \subseteq 0..MaxTime
    BY <1>4, NumbersAssumption DEF Shared
  <2> QED
    BY <2>1, <2>2
<1>9. early \cap late = {}
  BY <1>6, <1>4, NumbersAssumption
<1>10. IsFiniteSet(early)
  <2>1. early \in SUBSET (0..MaxTime)
    OBVIOUS
  <2> HIDE DEF early
  <2> QED
    BY <2>1, SecondsAreFinite
<1>11. IsFiniteSet(late)
           /\ Cardinality(late) = IF ActiveOverlap(S) THEN n - last ELSE 0
  <2>1. CASE ActiveOverlap(S)
    <3>1. IsFiniteSet(last..(n - 1))
              /\ Cardinality(last..(n - 1)) = IF last > n - 1 THEN 0 ELSE n - 1 - last + 1
      BY <1>4, FS_Interval, NumbersAssumption
    <3> QED
      BY <1>4, <2>1, <3>1, NumbersAssumption
  <2>2. CASE ~ActiveOverlap(S)
    BY <2>2, FS_EmptySet
  <2> QED
    BY <2>1, <2>2
<1>12. Cardinality(early \cup late) = Cardinality(early) + Cardinality(late)
  <2> HIDE DEF early, late
  <2> QED
    BY <1>9, <1>10, <1>11, DisjointUnion
<1>13. ConnectedSeconds(S) = Cardinality(early)
  BY <1>1 DEF ConnectedSeconds
<1> QED
  BY <1>8, <1>11, <1>12, <1>13 DEF last

\* Events were sent until now.
EventsInOrder == \A c \in Calls : \A e \in Sent(c) : e.at <= now

\* The seconds of a call's events have a latest one.
LastKnown ==
    \A c \in Calls : \E m \in {e.at : e \in Sent(c)} \cup {0} :
        \A k \in {e.at : e \in Sent(c)} \cup {0} : m >= k

\* In a room that has not finished are those whose latest event is that they joined.
RoomIsEvents ==
    \A c \in Calls : Untied(c) /\ Finishes(Sent(c)) = {} =>
        \A p \in People : p \in room[c] <=> Present(p, Sent(c), now)

\* What was talked is what the sent events share, until now or until the room finished.
TalkIsShared ==
    \A c \in Calls : Untied(c) =>
        \/ Finishes(Sent(c)) = {} /\ talk[c] = Cardinality(Shared(Sent(c), now))
        \/ \E f \in Sent(c) : /\ FirstFinish(f, Sent(c))
                              /\ talk[c] = Cardinality(Shared(Sent(c), f.at))

\* The column is recomputed from the stored events whenever one is stored.
StoredIsCounted == \A c \in Calls : connected[c] = ConnectedSeconds(Of(c, recorded))

TalkInv ==
    /\ IInv
    /\ EventsInOrder /\ LastKnown /\ RoomIsEvents /\ TalkIsShared /\ StoredIsCounted

LEMMA TalkInit == Init => TalkInv
<1> SUFFICES ASSUME Init PROVE TalkInv
  OBVIOUS
<1>1. \A c \in Calls : Sent(c) = {} /\ Of(c, recorded) = {}
  BY DEF Init, Sent, Of
<1>2. EventsInOrder
  BY <1>1 DEF EventsInOrder
<1>3. LastKnown
  BY <1>1 DEF LastKnown
<1>4. RoomIsEvents
  BY <1>1 DEF Init, RoomIsEvents, Present
<1>5. \A n : Shared({}, n) = {}
  BY DEF Shared, Together, Present
<1>6. ConnectedSeconds({}) = 0
  <2>1. {t \in 0..MaxTime : /\ \E e \in Counted({}) : t < e.at
                            /\ Together(Counted({}), t)} = {}
    BY DEF Counted
  <2> QED
    BY <2>1, FS_EmptySet DEF ConnectedSeconds
<1>7. TalkIsShared
  BY <1>1, <1>5, FS_EmptySet DEF Init, TalkIsShared, Finishes
<1>8. StoredIsCounted
  BY <1>1, <1>6 DEF Init, StoredIsCounted
<1> QED
  BY <1>2, <1>3, <1>4, <1>7, <1>8, InitIInv DEF TalkInv

\* What the media server announces is a new event of this second.
LEMMA EmitIsNew ==
    ASSUME TalkInv, NEW c \in Calls, NEW who \in People \cup {"system"},
           NEW kind \in {"joined", "left", "room_finished"}, Emit(c, who, kind),
           now' = now
    PROVE  \E e \in Event :
               /\ e.call = c /\ e.who = who /\ e.kind = kind /\ e.at = now
               /\ e \notin Sent(c)
               /\ sent' = sent \cup {e}
               /\ Sent(c)' = Sent(c) \cup {e}
               /\ \A d \in Calls : d # c => Sent(d)' = Sent(d)
               /\ EventsInOrder'
<1>1. PICK n \in Ranks(c, who) :
          sent' = sent \cup {[call |-> c, who |-> who, kind |-> kind,
                              at |-> now, rank |-> n]}
  BY DEF Emit
<1> DEFINE e == [call |-> c, who |-> who, kind |-> kind, at |-> now, rank |-> n]
<1>2. n \in Nat /\ \A f \in Sent(c) : f.at = now /\ f.who = who => f.rank # n
  BY DEF Ranks
<1>3. e \in Event
  BY <1>2 DEF Event, TalkInv, IInv, TypeOK
<1>4. /\ e.call = c /\ e.who = who /\ e.kind = kind /\ e.at = now /\ e.rank = n
      /\ sent' = sent \cup {e}
  BY <1>1
<1> HIDE DEF e
<1>5. e \notin Sent(c)
  BY <1>2, <1>4
<1>6. Sent(c)' = Sent(c) \cup {e} /\ \A d \in Calls : d # c => Sent(d)' = Sent(d)
  BY <1>4 DEF Sent, Of
<1>7. now \in Nat
  BY NumbersAssumption DEF TalkInv, IInv, TypeOK
<1>8. EventsInOrder'
  <2> SUFFICES ASSUME NEW d \in Calls, NEW f \in Sent(d)' PROVE f.at <= now
    BY DEF EventsInOrder
  <2>1. CASE f \in Sent(d)
    BY <2>1 DEF TalkInv, EventsInOrder
  <2>2. CASE f = e
    BY <1>4, <1>7, <2>2
  <2> QED
    BY <1>6, <2>1, <2>2
<1> QED
  BY <1>3, <1>4, <1>5, <1>6, <1>8

LEMMA EventTypes ==
    ASSUME TalkInv, NEW c \in Calls
    PROVE  /\ now \in Nat /\ Sent(c) \in SUBSET Event
           /\ \A f \in Event : f.at \in Nat /\ f.rank \in Nat
           /\ \A f \in Sent(c) : f.at <= now
<1>1. now \in Nat
  BY NumbersAssumption DEF TalkInv, IInv, TypeOK
<1>2. Sent(c) \in SUBSET Event
  BY DEF TalkInv, IInv, TypeOK, Sent, Of
<1>3. \A f \in Event : f.at \in Nat /\ f.rank \in Nat
  BY NumbersAssumption DEF Event
<1>4. \A f \in Sent(c) : f.at <= now
  BY DEF TalkInv, EventsInOrder
<1> QED
  BY <1>1, <1>2, <1>3, <1>4

\* Whoever an event is about is there after it if it is a join and the only event of
\* that person in this second; nothing changes for the others.
LEMMA EventMoves ==
    ASSUME NEW S, NEW e, now \in Nat, e.at = now,
           \A f \in S : f.at \in Nat /\ f.at <= now, ~Before(e, e), NEW p,
           e.who = p => \A f \in S : f.who = p => f.at # now
    PROVE  Present(p, S \cup {e}, now) <=>
               IF e.who = p THEN e.kind = "joined" ELSE Present(p, S, now)
<1>1. e.at <= now
  OBVIOUS
<1>2. CASE e.who = p
  <2>1. \A f \in S : f.who = p => Before(f, e) /\ ~Before(e, f)
    BY <1>2 DEF Before
  <2>2. CASE e.kind = "joined"
    BY <1>1, <1>2, <2>1, <2>2 DEF Present
  <2>3. CASE e.kind # "joined"
    BY <1>1, <1>2, <2>1, <2>3 DEF Present
  <2> QED
    BY <1>2, <2>2, <2>3
<1>3. CASE e.who # p
  BY <1>1, <1>3 DEF Present
<1> QED
  BY <1>2, <1>3

\* A call with two events of one person in a second stays one.
LEMMA TiesRemain ==
    ASSUME NEW c \in Calls, Sent(c) \subseteq Sent(c)', Untied(c)'
    PROVE  Untied(c)
BY DEF Untied

\* The first end stays the first end or a new one of the same second takes its place.
LEMMA NewFinish ==
    ASSUME NEW S \in SUBSET Event, NEW e \in Event, NEW f \in S, FirstFinish(f, S)
    PROVE  \/ FirstFinish(f, S \cup {e})
           \/ FirstFinish(e, S \cup {e}) /\ e.at <= f.at
<1>1. \A g \in Event : g.at \in Nat /\ g.rank \in Nat
  BY NumbersAssumption DEF Event
<1>2. CASE e.kind # "room_finished" \/ ~Before(e, f)
  BY <1>2 DEF FirstFinish, Finishes
<1>3. CASE e.kind = "room_finished" /\ Before(e, f)
  <2>1. \A g \in Finishes(S) : g \in Event /\ ~Before(g, f)
    BY DEF FirstFinish, Finishes
  <2>2. \A g \in Finishes(S) : ~Before(g, e)
    BY <1>1, <1>3, <2>1 DEF Before
  <2>3. ~Before(e, e)
    BY <1>1 DEF Before
  <2>4. FirstFinish(e, S \cup {e})
    BY <1>3, <2>2, <2>3 DEF FirstFinish, Finishes
  <2> QED
    BY <1>1, <1>3, <2>4 DEF Before
<1> QED
  BY <1>2, <1>3

\* An event of call c leaves the seconds that have passed as they were.
LEMMA EmitKeepsTalk ==
    ASSUME TalkInv, NEW c \in Calls, UNCHANGED <<now, talk>>, NEW e \in Event, e.at = now,
           Sent(c)' = Sent(c) \cup {e},
           \A d \in Calls : d # c => Sent(d)' = Sent(d)
    PROVE  LastKnown' /\ TalkIsShared'
<1>1. /\ now \in Nat /\ Sent(c) \in SUBSET Event /\ Sent(c) \cup {e} \in SUBSET Event
      /\ \A f \in Event : f.at \in Nat /\ f.rank \in Nat
      /\ \A f \in Sent(c) : f.at <= now
  BY EventTypes
<1>2. ASSUME NEW d \in Calls, d = c PROVE Sent(d)' = Sent(c) \cup {e}
  BY <1>2 DEF Sent
<1>3. LastKnown'
  <2> SUFFICES ASSUME NEW d \in Calls
               PROVE  \E m \in {f.at : f \in Sent(d)'} \cup {0} :
                          \A k \in {f.at : f \in Sent(d)'} \cup {0} : m >= k
    BY DEF LastKnown
  <2>1. CASE d = c
    <3>1. now \in {f.at : f \in Sent(d)'} \cup {0}
      BY <1>2, <2>1
    <3>2. \A k \in {f.at : f \in Sent(d)'} \cup {0} : now >= k
      BY <1>1, <1>2, <2>1
    <3> QED
      BY <3>1, <3>2
  <2>2. CASE d # c
    BY <2>2 DEF TalkInv, LastKnown
  <2> QED
    BY <2>1, <2>2
<1>4. \A n \in Nat : n <= now => Shared(Sent(c) \cup {e}, n) = Shared(Sent(c), n)
  <2> SUFFICES ASSUME NEW n \in Nat, n <= now
               PROVE  Shared(Sent(c) \cup {e}, n) = Shared(Sent(c), n)
    OBVIOUS
  <2>1. \A f \in Event : f.at < n => (f \in Sent(c) \cup {e} <=> f \in Sent(c))
    BY <1>1
  <2> QED
    BY <1>1, <2>1, SameBefore
<1>5. TalkIsShared'
  <2> SUFFICES ASSUME NEW d \in Calls, Untied(d)'
               PROVE  \/ /\ Finishes(Sent(d)') = {}
                         /\ talk[d] = Cardinality(Shared(Sent(d)', now))
                      \/ \E f \in Sent(d)' :
                            /\ FirstFinish(f, Sent(d)')
                            /\ talk[d] = Cardinality(Shared(Sent(d)', f.at))
    BY DEF TalkIsShared
  <2>5. Untied(d)
    BY <1>2, TiesRemain
  <2>1. CASE d # c
    BY <2>1, <2>5 DEF TalkInv, TalkIsShared
  <2>2. CASE d = c /\ Finishes(Sent(c)) = {} /\ e.kind # "room_finished"
    <3>1. Finishes(Sent(c) \cup {e}) = {}
      BY <2>2 DEF Finishes
    <3>2. talk[c] = Cardinality(Shared(Sent(c), now))
      BY <2>2, <2>5 DEF TalkInv, TalkIsShared, FirstFinish
    <3>3. Shared(Sent(c) \cup {e}, now) = Shared(Sent(c), now)
      <4>1. now \in Nat /\ now <= now
        BY <1>1
      <4> QED
        BY <1>4, <4>1
    <3>4. Sent(d)' = Sent(c) \cup {e}
      BY <1>2, <2>2
    <3>5. Finishes(Sent(d)') = {} /\ Shared(Sent(d)', now) = Shared(Sent(c), now)
      BY <3>1, <3>3, <3>4
    <3> QED
      BY <2>2, <3>2, <3>5
  <2>3. CASE d = c /\ Finishes(Sent(c)) = {} /\ e.kind = "room_finished"
    <3>1. Finishes(Sent(c) \cup {e}) = {e}
      BY <2>3 DEF Finishes
    <3>2. FirstFinish(e, Sent(c) \cup {e})
      <4>1. ~Before(e, e)
        BY <1>1 DEF Before
      <4> QED
        BY <3>1, <4>1 DEF FirstFinish
    <3>3. talk[c] = Cardinality(Shared(Sent(c), now))
      BY <2>3, <2>5 DEF TalkInv, TalkIsShared, FirstFinish
    <3>4. Shared(Sent(c) \cup {e}, e.at) = Shared(Sent(c), now)
      <4>1. now \in Nat /\ now <= now
        BY <1>1
      <4> QED
        BY <1>4, <4>1
    <3>5. Sent(d)' = Sent(c) \cup {e}
      BY <1>2, <2>3
    <3> QED
      BY <2>3, <3>2, <3>3, <3>4, <3>5
  <2>4. CASE d = c /\ Finishes(Sent(c)) # {}
    <3>1. PICK f \in Sent(c) : /\ FirstFinish(f, Sent(c))
                               /\ talk[c] = Cardinality(Shared(Sent(c), f.at))
      BY <2>4, <2>5 DEF TalkInv, TalkIsShared
    <3>2. PICK g \in Sent(c) \cup {e} : /\ FirstFinish(g, Sent(c) \cup {e})
                                        /\ g.at = f.at
      <4>1. f.at <= e.at /\ f.at \in Nat /\ e.at \in Nat
        BY <1>1
      <4>2. \/ FirstFinish(f, Sent(c) \cup {e})
            \/ FirstFinish(e, Sent(c) \cup {e}) /\ e.at <= f.at
        BY <1>1, <3>1, NewFinish
      <4>3. CASE FirstFinish(f, Sent(c) \cup {e})
        BY <4>3
      <4>4. CASE FirstFinish(e, Sent(c) \cup {e}) /\ e.at <= f.at
        <5>1. e.at = f.at
          BY <4>1, <4>4
        <5> QED
          BY <4>4, <5>1
      <4> QED
        BY <4>2, <4>3, <4>4
    <3>3. f.at \in Nat /\ f.at <= now
      BY <1>1
    <3> QED
      BY <1>4, <1>2, <2>4, <3>1, <3>2, <3>3
  <2> QED
    BY <2>1, <2>2, <2>3, <2>4
<1> QED
  BY <1>3, <1>5

\* What the media server does is in the events.
LEMMA MediaKeepsTalk ==
    ASSUME TalkInv, NEW c \in Calls, NEW p \in People,
           Join(c, p) \/ Leave(c, p) \/ RoomExpires(c) \/ (CloseRoom(c) /\ c \in open)
    PROVE  TalkInv'
<1> USE DEF lifecycle, media, billing, history
<1>1. UNCHANGED <<now, talk, recorded, connected>>
  BY DEF Join, Leave, RoomExpires, CloseRoom
<1>2. PICK who \in People \cup {"system"}, kind \in {"joined", "left", "room_finished"} :
          /\ Emit(c, who, kind)
          /\ Join(c, p) => who = p /\ kind = "joined"
          /\ Leave(c, p) => who = p /\ kind = "left"
          /\ ~Join(c, p) /\ ~Leave(c, p) => kind = "room_finished"
  <2>1. CASE Join(c, p) /\ ~Leave(c, p)
    BY <2>1 DEF Join
  <2>2. CASE Leave(c, p) /\ ~Join(c, p)
    BY <2>2 DEF Leave
  <2>3. CASE ~Join(c, p) /\ ~Leave(c, p)
    BY <2>3 DEF RoomExpires, CloseRoom
  <2>4. ~(Join(c, p) /\ Leave(c, p))
    BY DEF Join, Leave
  <2> QED
    BY <2>1, <2>2, <2>3, <2>4
<1>3. PICK e \in Event :
          /\ e.call = c /\ e.who = who /\ e.kind = kind /\ e.at = now
          /\ sent' = sent \cup {e}
          /\ e \notin Sent(c)
          /\ Sent(c)' = Sent(c) \cup {e}
          /\ \A d \in Calls : d # c => Sent(d)' = Sent(d)
          /\ EventsInOrder'
  BY <1>1, <1>2, EmitIsNew
<1>4. LastKnown' /\ TalkIsShared'
  BY <1>1, <1>3, EmitKeepsTalk
<1>5. StoredIsCounted'
  BY <1>1 DEF TalkInv, StoredIsCounted, Of
<1>6. Untied(c)' => \A q \in People : Present(q, Sent(c)', now) <=>
          IF who = q THEN kind = "joined" ELSE Present(q, Sent(c), now)
  <2> SUFFICES ASSUME Untied(c)', NEW q \in People
               PROVE  Present(q, Sent(c)', now) <=>
                          IF who = q THEN kind = "joined" ELSE Present(q, Sent(c), now)
    OBVIOUS
  <2>1. now \in Nat /\ e.rank \in Nat /\ \A f \in Sent(c) : f.at \in Nat /\ f.at <= now
    BY EventTypes
  <2>2. ~Before(e, e)
    BY <1>3, <2>1 DEF Before
  <2>3. e.who = q => \A f \in Sent(c) : f.who = q => f.at # now
    BY <1>3 DEF Untied
  <2> QED
    BY <1>3, <2>1, <2>2, <2>3, EventMoves
<1>7. RoomIsEvents'
  <2> SUFFICES ASSUME NEW d \in Calls, Untied(d)', Finishes(Sent(d)') = {},
                      NEW q \in People
               PROVE  q \in room'[d] <=> Present(q, Sent(d)', now)
    BY <1>1 DEF RoomIsEvents
  <2>1. room'[d] = room[d] \/ d = c
    BY DEF Join, Leave, RoomExpires, CloseRoom, TalkInv, IInv, TypeOK
  <2>4. Untied(d)
    <3>1. Sent(d) \subseteq Sent(d)'
      BY <1>3 DEF Sent, Of
    <3> QED
      BY <3>1, TiesRemain
  <2>2. CASE d # c
    BY <1>3, <2>1, <2>2, <2>4 DEF TalkInv, RoomIsEvents
  <2>3. CASE d = c
    <3>1. kind # "room_finished" /\ Finishes(Sent(c)) = {}
      BY <1>3, <2>3 DEF Finishes
    <3>2. q \in room[c] <=> Present(q, Sent(c), now)
      BY <2>3, <2>4, <3>1 DEF TalkInv, RoomIsEvents
    <3>3. CASE Join(c, p)
      <4>1. q \in room'[c] <=> q = p \/ q \in room[c]
        BY <3>3 DEF Join, TalkInv, IInv, TypeOK
      <4> QED
        BY <1>2, <1>6, <2>3, <3>2, <3>3, <4>1
    <3>4. CASE Leave(c, p)
      <4>1. q \in room'[c] <=> q # p /\ q \in room[c]
        BY <3>4 DEF Leave, TalkInv, IInv, TypeOK
      <4>2. who = p /\ kind # "joined"
        BY <1>2, <3>4
      <4> QED
        BY <1>6, <2>3, <3>2, <4>1, <4>2
    <3> QED
      BY <1>2, <3>1, <3>3, <3>4
  <2> QED
    BY <2>2, <2>3
<1>8. IInv'
  BY MediaIInv DEF TalkInv
<1> QED
  BY <1>3, <1>4, <1>5, <1>7, <1>8 DEF TalkInv

\* An event is counted with all others of its call.
LEMMA WebhookKeepsTalk ==
    ASSUME TalkInv, NEW e \in sent, RecordPresenceEvent(e)
    PROVE  TalkInv'
<1> DEFINE c == e.call
           events == Of(c, recorded \cup {e})
<1>1. /\ recorded' = recorded \cup {e}
      /\ connected' = [connected EXCEPT ![c] = ConnectedSeconds(events)]
      /\ UNCHANGED <<now, room, sent, talk>>
  BY DEF RecordPresenceEvent, media, history
<1>2. c \in Calls
  BY DEF TalkInv, IInv, TypeOK, Event
<1>3. StoredIsCounted'
  <2> SUFFICES ASSUME NEW d \in Calls
               PROVE  connected'[d] = ConnectedSeconds(Of(d, recorded'))
    BY DEF StoredIsCounted
  <2>1. CASE d = c
    <3>1. Of(d, recorded') = events
      BY <1>1, <2>1
    <3> HIDE DEF events
    <3> QED
      BY <1>1, <2>1, <3>1 DEF TalkInv, IInv, TypeOK
  <2>2. CASE d # c
    <3>1. Of(d, recorded') = Of(d, recorded)
      BY <1>1, <2>2 DEF Of
    <3> HIDE DEF events
    <3> QED
      BY <1>1, <2>2, <3>1 DEF TalkInv, IInv, TypeOK, StoredIsCounted
  <2> QED
    BY <2>1, <2>2
<1>4. EventsInOrder' /\ LastKnown' /\ RoomIsEvents' /\ TalkIsShared'
  BY <1>1 DEF TalkInv, EventsInOrder, LastKnown, RoomIsEvents, TalkIsShared, Untied, Sent
<1>5. IInv'
  BY WebhookIInv DEF TalkInv
<1> QED
  BY <1>3, <1>4, <1>5 DEF TalkInv

\* A second passes: it is one more second of talk where both sides are in the room.
LEMMA TickKeepsTalk ==
    ASSUME TalkInv, Tick
    PROVE  TalkInv'
<1>1. /\ now < MaxTime /\ now' = now + 1
      /\ talk' = [c \in Calls |-> IF Overlap(c) /\ Finishes(Sent(c)) = {}
                                  THEN talk[c] + 1 ELSE talk[c]]
      /\ UNCHANGED <<room, sent, recorded, connected>>
  BY DEF Tick, media, billing
<1>2. now \in 0..MaxTime /\ now \in Nat
  BY NumbersAssumption DEF TalkInv, IInv, TypeOK
<1>3. \A c \in Calls : Sent(c)' = Sent(c) /\ (Untied(c)' <=> Untied(c))
  BY <1>1 DEF Sent, Untied
<1>4. EventsInOrder'
  <2> SUFFICES ASSUME NEW c \in Calls, NEW e \in Sent(c)
               PROVE  e.at <= now + 1 /\ e.at # now + 1
    BY <1>1, <1>3 DEF EventsInOrder
  <2> QED
    BY <1>2, EventTypes
<1>5. LastKnown'
  BY <1>1 DEF TalkInv, LastKnown, Sent
<1>6. ASSUME NEW c \in Calls, NEW p
      PROVE  Present(p, Sent(c), now + 1) <=> Present(p, Sent(c), now)
  <2>1. \A e \in Sent(c) : e.at <= now + 1 /\ e.at <= now
    BY <1>2, EventTypes
  <2> QED
    BY <2>1 DEF Present
<1>7. RoomIsEvents'
  <2> SUFFICES ASSUME NEW c \in Calls, Untied(c), Finishes(Sent(c)) = {},
                      NEW p \in People
               PROVE  p \in room[c] <=> Present(p, Sent(c), now + 1)
    BY <1>1, <1>3 DEF RoomIsEvents
  <2> QED
    BY <1>6 DEF TalkInv, RoomIsEvents
<1>8. TalkIsShared'
  <2> SUFFICES ASSUME NEW c \in Calls, Untied(c)
               PROVE  \/ /\ Finishes(Sent(c)) = {}
                         /\ talk'[c] = Cardinality(Shared(Sent(c), now + 1))
                      \/ \E f \in Sent(c) :
                            /\ FirstFinish(f, Sent(c))
                            /\ talk'[c] = Cardinality(Shared(Sent(c), f.at))
    BY <1>1, <1>3 DEF TalkIsShared
  <2>1. CASE Finishes(Sent(c)) # {}
    <3>1. talk'[c] = talk[c]
      BY <1>1, <2>1
    <3> QED
      BY <2>1, <3>1 DEF TalkInv, TalkIsShared
  <2>2. CASE Finishes(Sent(c)) = {}
    <3>1. talk[c] = Cardinality(Shared(Sent(c), now))
      BY <2>2 DEF TalkInv, TalkIsShared, FirstFinish
    <3>2. Overlap(c) <=> Together(Sent(c), now)
      BY <2>2 DEF TalkInv, RoomIsEvents, Overlap, Together, People
    <3>3. CASE Overlap(c)
      <4>1. Shared(Sent(c), now + 1) = Shared(Sent(c), now) \cup {now}
        BY <1>1, <1>2, <3>2, <3>3, NumbersAssumption DEF Shared
      <4>2. now \notin Shared(Sent(c), now) /\ Shared(Sent(c), now) \in SUBSET (0..MaxTime)
        BY <1>2 DEF Shared
      <4>3. IsFiniteSet(Shared(Sent(c), now))
        BY <4>2, SecondsAreFinite
      <4>4. Cardinality(Shared(Sent(c), now + 1)) = Cardinality(Shared(Sent(c), now)) + 1
        BY <4>1, <4>2, <4>3, FS_AddElement
      <4>5. talk'[c] = talk[c] + 1
        BY <1>1, <2>2, <3>3
      <4> QED
        BY <2>2, <3>1, <4>4, <4>5
    <3>4. CASE ~Overlap(c)
      <4>1. Shared(Sent(c), now + 1) = Shared(Sent(c), now)
        BY <1>1, <1>2, <3>2, <3>4, NumbersAssumption DEF Shared
      <4>2. talk'[c] = talk[c]
        BY <1>1, <3>4
      <4> QED
        BY <2>2, <3>1, <4>1, <4>2
    <3> QED
      BY <3>3, <3>4
  <2> QED
    BY <2>1, <2>2
<1>9. StoredIsCounted'
  BY <1>1 DEF TalkInv, StoredIsCounted
<1>10. IInv'
  BY OtherIInv DEF TalkInv
<1> QED
  BY <1>4, <1>5, <1>7, <1>8, <1>9, <1>10 DEF TalkInv

LEMMA NextTalkInv ==
    ASSUME TalkInv, [Next]_vars
    PROVE  TalkInv'
<1>1. ASSUME UNCHANGED <<now, room, sent, recorded, connected, talk>> PROVE TalkInv'
  <2>1. IInv'
    BY NextIInv DEF TalkInv
  <2>2. EventsInOrder' /\ LastKnown' /\ RoomIsEvents' /\ TalkIsShared'
    BY <1>1 DEF TalkInv, EventsInOrder, LastKnown, RoomIsEvents, TalkIsShared,
       Untied, Sent
  <2>3. StoredIsCounted'
    BY <1>1 DEF TalkInv, StoredIsCounted
  <2> QED
    BY <2>1, <2>2, <2>3 DEF TalkInv
<1>2. CASE \E c \in Calls, p \in People :
               Join(c, p) \/ Leave(c, p) \/ RoomExpires(c) \/ (CloseRoom(c) /\ c \in open)
  BY <1>2, MediaKeepsTalk
<1>3. CASE \E e \in sent : RecordPresenceEvent(e)
  BY <1>3, WebhookKeepsTalk
<1>4. CASE Tick
  BY <1>4, TickKeepsTalk
<1>5. CASE \/ UNCHANGED vars
           \/ \E c \in Calls :
                 \/ \E t \in 1..MaxTime : Schedule(c, t)
                 \/ Start(c) \/ Cancel(c) \/ End(c)
                 \/ \E p \in People : IssueToken(c, p)
                 \/ (CloseRoom(c) /\ c \notin open) \/ CloseFails(c) \/ EnforceQuota(c)
                 \/ \E s \in Reports : RecordUsage(c, s)
           \/ \E e \in sent : RepeatPresenceEvent(e)
           \/ \E p \in Volatile : MembershipChanges(p)
  <2>1. UNCHANGED <<now, room, sent, recorded, connected, talk>>
    BY <1>5 DEF vars, lifecycle, media, billing, history, Schedule, Start, Cancel, End, IssueToken,
       CloseRoom, CloseFails, EnforceQuota, RecordUsage, RepeatPresenceEvent,
       MembershipChanges
  <2> QED
    BY <1>1, <2>1
<1>6. Student \in People
  BY DEF People
<1> QED
  BY <1>2, <1>3, <1>4, <1>5, <1>6 DEF Next

LEMMA TalkInductive == Spec => []TalkInv
BY TalkInit, NextTalkInv, PTL DEF Spec

LEMMA ExactSeconds == TalkInv => ExactUnlessTied
<1> SUFFICES ASSUME TalkInv, NEW c \in Calls, Untied(c), Sent(c) \subseteq recorded
             PROVE  talk[c] = connected[c] +
                        (IF ActiveOverlap(Of(c, recorded))
                         THEN now - LastEventAt(Of(c, recorded)) ELSE 0)
  BY DEF ExactUnlessTied, Exact
<1>1. Of(c, recorded) = Sent(c)
  BY DEF TalkInv, IInv, TypeOK, Sent, Of
<1>2. connected[c] = ConnectedSeconds(Sent(c))
  BY <1>1 DEF TalkInv, StoredIsCounted
<1>3. CASE Finishes(Sent(c)) = {}
  <2>1. talk[c] = Cardinality(Shared(Sent(c), now))
    BY <1>3 DEF TalkInv, TalkIsShared, FirstFinish
  <2>2. now \in 0..MaxTime
    BY DEF TalkInv, IInv, TypeOK
  <2>3. \E m \in {e.at : e \in Sent(c)} \cup {0} :
            \A k \in {e.at : e \in Sent(c)} \cup {0} : m >= k
    BY DEF TalkInv, LastKnown
  <2> QED
    BY <1>1, <1>2, <1>3, <2>1, <2>2, <2>3, EventTypes, SecondsSinceLast
<1>4. CASE Finishes(Sent(c)) # {}
  <2>1. PICK f \in Sent(c) : /\ FirstFinish(f, Sent(c))
                             /\ talk[c] = Cardinality(Shared(Sent(c), f.at))
    BY <1>4 DEF TalkInv, TalkIsShared
  <2>2. ConnectedSeconds(Sent(c)) = Cardinality(Shared(Sent(c), f.at))
    BY <2>1, EventTypes, CountsUntilEnd
  <2>3. ~ActiveOverlap(Sent(c)) /\ connected[c] \in Nat
    BY <1>4 DEF ActiveOverlap, TalkInv, IInv, TypeOK
  <2> QED
    BY <1>1, <1>2, <2>1, <2>2, <2>3
<1> QED
  BY <1>3, <1>4

\* Whatever the delays, repetitions and order in which events arrive and however their
\* ids sort, the stored seconds of a call are the seconds both sides really shared,
\* once all its events have arrived, unless one person has two events in one second.
THEOREM StoredSecondsAreExact == Spec => []ExactUnlessTied
BY TalkInductive, ExactSeconds, PTL

-----------------------------------------------------------------------------
(***************************************************************************)
(* How far the grant can be exceeded.  A second of a call is fair if the   *)
(* stored events show both sides in it, no end of the room is stored by    *)
(* then and nothing was late as it passed.  An event stored afterwards     *)
(* makes no second fair or unfair: as those seconds passed it was late.  A *)
(* second becomes fair only in the one call in progress, after the worker  *)
(* has compared its seconds with what the bills of the others have left.   *)
(***************************************************************************)
\* Pairs of a call and one of its seconds, and pairs of a call and a number.
Pairs(A) == {p \in Calls \X (0..MaxTime) : p[2] \in A[p[1]]}

Numbers(n) == UNION {{c} \X (1..n[c]) : c \in Calls}

\* There are as many pairs as the numbers of seconds of all calls add up to.
LEMMA PairsAreNumbered ==
    ASSUME NEW A \in [Calls -> SUBSET (0..MaxTime)]
    PROVE  LET n == [c \in Calls |-> Cardinality(A[c])]
           IN  /\ n \in [Calls -> Nat]
               /\ IsFiniteSet(Pairs(A)) /\ IsFiniteSet(Numbers(n))
               /\ Cardinality(Numbers(n)) = Cardinality(Pairs(A))
<1> DEFINE n == [c \in Calls |-> Cardinality(A[c])]
           g == [c \in Calls |-> CHOOSE f : f \in Bijection(1..n[c], A[c])]
<1>1. \A c \in Calls : n[c] \in Nat /\ g[c] \in Bijection(1..n[c], A[c])
  <2> TAKE c \in Calls
  <2>1. A[c] \in SUBSET (0..MaxTime)
    OBVIOUS
  <2>2. IsFiniteSet(A[c]) /\ Cardinality(A[c]) \in Nat
    BY <2>1, SecondsAreFinite
  <2>3. ExistsBijection(1..Cardinality(A[c]), A[c])
    BY <2>2, FS_CardinalityType
  <2>4. \E f : f \in Bijection(1..n[c], A[c])
    BY <2>3 DEF ExistsBijection
  <2>5. g[c] \in Bijection(1..n[c], A[c])
    BY <2>4
  <2> QED
    BY <2>2, <2>5
<1>2. n \in [Calls -> Nat]
  BY <1>1
<1> HIDE DEF n, g
<1>3. \A c \in Calls : /\ g[c] \in [1..n[c] -> A[c]]
                       /\ \A k, m \in 1..n[c] : g[c][k] = g[c][m] => k = m
                       /\ \A t \in A[c] : \E k \in 1..n[c] : g[c][k] = t
  BY <1>1 DEF Bijection, Injection, Surjection, IsInjective
<1>4. IsFiniteSet(Pairs(A))
  <2>1. IsFiniteSet(0..MaxTime)
    BY FS_Interval, NumbersAssumption
  <2>2. IsFiniteSet(Calls \X (0..MaxTime))
    BY <2>1, CallsAssumption, FS_Product
  <2>3. Pairs(A) \in SUBSET (Calls \X (0..MaxTime))
    BY DEF Pairs
  <2> QED
    BY <2>2, <2>3, FS_Subset
<1> DEFINE F == [p \in Numbers(n) |-> <<p[1], g[p[1]][p[2]]>>]
<1>5. \A p \in Numbers(n) : /\ p = <<p[1], p[2]>>
                            /\ p[1] \in Calls /\ p[2] \in 1..n[p[1]]
  BY DEF Numbers
<1>6. \A c \in Calls : \A k \in 1..n[c] : <<c, k>> \in Numbers(n)
  BY DEF Numbers
<1>7. F \in [Numbers(n) -> Pairs(A)]
  <2> SUFFICES ASSUME NEW p \in Numbers(n)
               PROVE  <<p[1], g[p[1]][p[2]]>> \in Pairs(A)
    OBVIOUS
  <2>1. p[1] \in Calls /\ p[2] \in 1..n[p[1]]
    BY <1>5
  <2>2. g[p[1]] \in [1..n[p[1]] -> A[p[1]]]
    BY <1>3, <2>1
  <2>3. g[p[1]][p[2]] \in A[p[1]]
    BY <2>1, <2>2
  <2>4. A[p[1]] \in SUBSET (0..MaxTime)
    BY <2>1
  <2> QED
    BY <2>1, <2>3, <2>4 DEF Pairs
<1>8. \A p, q \in Numbers(n) : F[p] = F[q] => p = q
  <2> SUFFICES ASSUME NEW p \in Numbers(n), NEW q \in Numbers(n), F[p] = F[q]
               PROVE  p = q
    OBVIOUS
  <2>1. p[1] = q[1] /\ g[p[1]][p[2]] = g[q[1]][q[2]]
    OBVIOUS
  <2>2. p[2] = q[2]
    BY <1>3, <1>5, <2>1
  <2> QED
    BY <1>5, <2>1, <2>2
<1>9. \A r \in Pairs(A) : \E p \in Numbers(n) : F[p] = r
  <2> SUFFICES ASSUME NEW r \in Pairs(A) PROVE \E p \in Numbers(n) : F[p] = r
    OBVIOUS
  <2>1. r = <<r[1], r[2]>> /\ r[1] \in Calls /\ r[2] \in A[r[1]]
    BY DEF Pairs
  <2>2. PICK k \in 1..n[r[1]] : g[r[1]][k] = r[2]
    BY <1>3, <2>1
  <2>3. <<r[1], k>> \in Numbers(n)
    BY <1>6, <2>1
  <2>4. F[<<r[1], k>>] = r
    BY <2>1, <2>2, <2>3
  <2> QED
    BY <2>3, <2>4
<1> HIDE DEF F
<1>10. F \in Injection(Numbers(n), Pairs(A)) /\ F \in Surjection(Numbers(n), Pairs(A))
  BY <1>7, <1>8, <1>9 DEF Injection, Surjection, IsInjective
<1>11. /\ IsFiniteSet(Numbers(n))
       /\ Cardinality(Numbers(n)) = Cardinality(Pairs(A))
  BY <1>4, <1>10, FS_Injection
<1> QED
  BY <1>2, <1>4, <1>11 DEF n

LEMMA NumbersGrow ==
    ASSUME NEW m \in [Calls -> Nat], NEW n \in [Calls -> Nat],
           \A c \in Calls : m[c] <= n[c], IsFiniteSet(Numbers(n))
    PROVE  /\ IsFiniteSet(Numbers(m))
           /\ Cardinality(Numbers(m)) \in Nat
           /\ Cardinality(Numbers(n)) \in Nat
           /\ Cardinality(Numbers(m)) <= Cardinality(Numbers(n))
<1>1. Numbers(m) \in SUBSET Numbers(n)
  <2> SUFFICES ASSUME NEW c \in Calls PROVE 1..m[c] \subseteq 1..n[c]
    BY DEF Numbers
  <2>1. m[c] \in Nat /\ n[c] \in Nat /\ m[c] <= n[c]
    OBVIOUS
  <2> QED
    BY <2>1
<1> QED
  BY <1>1, FS_Subset, FS_CardinalityType

\* A stored end of call c is not after second t.
EndStored(c, t) == \E f \in Finishes(Of(c, recorded)) : f.at <= t

\* The seconds that the stored events of a call would bill now.
Billable(c) == {t \in Shared(Of(c, recorded), now) : ~EndStored(c, t)}

OvertimeOf(c) == {t \in 0..MaxTime : <<c, t>> \in overtime}

Fair == [c \in Calls |-> Billable(c) \ OvertimeOf(c)]
Owed == [c \in Calls |-> Billable(c) \cup OvertimeOf(c)]

\* As the seconds since an event passed that is not stored yet, it was late.
LateIsOvertime ==
    \A e \in sent \ recorded : \A t \in 0..MaxTime :
        e.at <= t /\ t < now => t \in OvertimeOf(e.call) \/ EndStored(e.call, t)

\* The room of a call is open from its first event to its end.
RoomsAreOpen ==
    \A c \in Calls :
        /\ room[c] # {} => c \in open
        /\ Sent(c) # {} /\ Finishes(Sent(c)) = {} => c \in open

\* Tokens lead into rooms of calls that were started, and events are of these.
CallsWereStarted ==
    \A c \in Calls :
        \/ c \in open \/ Sent(c) # {} \/ \E p \in People : <<c, p>> \in tokens
        => status[c] \in {"started", "ended"}

\* Among the stored ends of a call is a first one.
EndsAreKnown ==
    \A c \in Calls : Finishes(Of(c, recorded)) # {} =>
        \E f \in Of(c, recorded) : FirstFinish(f, Of(c, recorded))

\* A call whose end is stored is billed for its fair seconds at least, and for no more
\* than those and its overtime; any other is not billed.
Bills ==
    \A c \in Calls :
        IF Finishes(Of(c, recorded)) = {} THEN consumed[c] = 0
        ELSE Cardinality(Fair[c]) <= consumed[c] /\ consumed[c] <= Cardinality(Owed[c])

FairWithinGrant == Cardinality(Pairs(Fair)) <= Grant

LateInv ==
    /\ TalkInv
    /\ LateIsOvertime /\ RoomsAreOpen /\ CallsWereStarted
    /\ EndsAreKnown /\ Bills /\ FairWithinGrant

LEMMA SecondsOfCalls ==
    /\ Fair \in [Calls -> SUBSET (0..MaxTime)]
    /\ Owed \in [Calls -> SUBSET (0..MaxTime)]
    /\ \A c \in Calls : Billable(c) \in SUBSET (0..MaxTime)
BY DEF Fair, Owed, Billable, OvertimeOf, Shared

LEMMA LateInit == Init => LateInv
<1> SUFFICES ASSUME Init PROVE LateInv
  OBVIOUS
<1>1. LateIsOvertime
  BY DEF Init, LateIsOvertime
<1>2. RoomsAreOpen /\ CallsWereStarted
  BY DEF Init, RoomsAreOpen, CallsWereStarted, Sent, Of
<1>3. \A c \in Calls : Finishes(Of(c, recorded)) = {}
  BY DEF Init, Finishes, Of
<1>4. EndsAreKnown
  BY <1>3 DEF EndsAreKnown
<1>5. Bills
  BY <1>3 DEF Init, Bills
<1>6. Pairs(Fair) = {}
  <2> SUFFICES ASSUME NEW c \in Calls PROVE Fair[c] = {}
    BY DEF Pairs
  <2>1. Of(c, recorded) = {}
    BY DEF Init, Of
  <2>2. Shared({}, now) = {}
    BY DEF Shared, Together, Present
  <2> QED
    BY <2>1, <2>2 DEF Fair, Billable
<1>7. FairWithinGrant
  BY <1>6, FS_EmptySet, NumbersAssumption DEF FairWithinGrant
<1> QED
  BY <1>1, <1>2, <1>4, <1>5, <1>7, TalkInit DEF LateInv

\* What is fair, owed and billed depends on what is stored alone.
LEMMA StoredDecides ==
    ASSUME LateInv, UNCHANGED <<now, recorded, consumed, overtime>>
    PROVE  EndsAreKnown' /\ Bills' /\ FairWithinGrant'
<1>1. Fair' = Fair /\ Owed' = Owed
  BY DEF Fair, Owed, Billable, OvertimeOf, EndStored
<1>2. EndsAreKnown'
  BY DEF LateInv, EndsAreKnown
<1>3. Bills' /\ FairWithinGrant'
  BY <1>1 DEF LateInv, Bills, FairWithinGrant, Pairs
<1> QED
  BY <1>2, <1>3

\* Steps in which no event happens or is stored.
LEMMA QuietKeepsLate ==
    ASSUME LateInv, TalkInv',
           UNCHANGED <<now, room, open, sent, recorded, consumed, overtime>>,
           \A c \in Calls, p \in People : <<c, p>> \in tokens' =>
               <<c, p>> \in tokens \/ status[c] = "started",
           \A c \in Calls : status[c] \in {"started", "ended"} =>
               status'[c] \in {"started", "ended"}
    PROVE  LateInv'
<1>1. LateIsOvertime'
  BY DEF LateInv, LateIsOvertime, OvertimeOf, EndStored
<1>2. RoomsAreOpen' /\ CallsWereStarted'
  BY DEF LateInv, RoomsAreOpen, CallsWereStarted, Sent
<1> QED
  BY <1>1, <1>2, StoredDecides DEF LateInv

\* A new event is of this second, so no second has passed since.
LEMMA MediaKeepsLate ==
    ASSUME LateInv, NEW c \in Calls, NEW p \in People,
           Join(c, p) \/ Leave(c, p) \/ RoomExpires(c) \/ (CloseRoom(c) /\ c \in open)
    PROVE  LateInv'
<1>1. UNCHANGED <<now, status, tokens, recorded, consumed, overtime>>
  BY DEF Join, Leave, RoomExpires, CloseRoom, lifecycle, billing, history
<1>2. TalkInv'
  BY MediaKeepsTalk DEF LateInv
<1>3. PICK who \in People \cup {"system"}, kind \in {"joined", "left", "room_finished"} :
          /\ Emit(c, who, kind)
          /\ kind # "room_finished" => c \in open'
  BY DEF Join, Leave, RoomExpires, CloseRoom, LateInv, RoomsAreOpen
<1>4. PICK e \in Event :
          /\ e.call = c /\ e.kind = kind /\ e.at = now
          /\ sent' = sent \cup {e}
          /\ Sent(c)' = Sent(c) \cup {e}
          /\ \A d \in Calls : d # c => Sent(d)' = Sent(d)
  BY <1>1, <1>3, EmitIsNew DEF LateInv
<1>5. LateIsOvertime'
  <2> SUFFICES ASSUME NEW f \in sent' \ recorded, NEW t \in 0..MaxTime,
                      f.at <= t, t < now
               PROVE  t \in OvertimeOf(f.call) \/ EndStored(f.call, t)
    BY <1>1 DEF LateIsOvertime, OvertimeOf, EndStored
  <2>1. f # e
    <3>1. now \in Nat /\ t \in Nat
      BY NumbersAssumption DEF LateInv, TalkInv, IInv, TypeOK
    <3> QED
      BY <1>4, <3>1
  <2> QED
    BY <1>4, <2>1 DEF LateInv, LateIsOvertime
<1>6. \A d \in Calls : d # c => (d \in open' <=> d \in open) /\ room'[d] = room[d]
  BY DEF Join, Leave, RoomExpires, CloseRoom, LateInv, TalkInv, IInv, TypeOK
<1>7. room'[c] # {} => c \in open'
  BY DEF Join, Leave, RoomExpires, CloseRoom, LateInv, RoomsAreOpen, TalkInv, IInv, TypeOK
<1>8. RoomsAreOpen'
  <2> SUFFICES ASSUME NEW d \in Calls
               PROVE  /\ room'[d] # {} => d \in open'
                      /\ Sent(d)' # {} /\ Finishes(Sent(d)') = {} => d \in open'
    BY DEF RoomsAreOpen
  <2>1. CASE d # c
    BY <1>4, <1>6, <2>1 DEF LateInv, RoomsAreOpen
  <2>2. CASE d = c
    <3>1. kind = "room_finished" => Finishes(Sent(c)') # {}
      BY <1>4 DEF Finishes
    <3> QED
      BY <1>3, <1>7, <2>2, <3>1 DEF Sent
  <2> QED
    BY <2>1, <2>2
<1>9. status[c] \in {"started", "ended"}
  BY DEF Join, Leave, RoomExpires, CloseRoom, LateInv, RoomsAreOpen, CallsWereStarted
<1>10. CallsWereStarted'
  BY <1>1, <1>4, <1>6, <1>9 DEF LateInv, CallsWereStarted
<1> QED
  BY <1>1, <1>2, <1>5, <1>8, <1>10, StoredDecides DEF LateInv

\* Storing an event makes no second of its call fair that was not, nor any unfair.
LEMMA FairStays ==
    ASSUME LateInv, NEW e \in sent, e \notin recorded, recorded' = recorded \cup {e},
           UNCHANGED <<now, overtime>>
    PROVE  /\ \A c \in Calls : OvertimeOf(c)' = OvertimeOf(c)
           /\ Fair' = Fair
           /\ \A c \in Calls : c # e.call => Owed'[c] = Owed[c]
           /\ Finishes(Of(e.call, recorded)) # {} => Owed'[e.call] = Owed[e.call]
<1> DEFINE S(c) == Of(c, recorded)
<1>1. \A c \in Calls : OvertimeOf(c)' = OvertimeOf(c)
  BY DEF OvertimeOf
<1>2. now \in Nat /\ e \in Event /\ recorded \in SUBSET Event /\ e.call \in Calls
  BY NumbersAssumption DEF LateInv, TalkInv, IInv, TypeOK, Event
<1>3. \A f \in Event : f.at \in Nat
  BY NumbersAssumption DEF Event
<1>4. \A c \in Calls : /\ c # e.call => Of(c, recorded') = Of(c, recorded)
                       /\ c = e.call => Of(c, recorded') = Of(c, recorded) \cup {e}
  BY DEF Of
<1>5. ASSUME NEW c \in Calls, c # e.call PROVE Billable(c)' = Billable(c)
  BY <1>4, <1>5 DEF Billable, EndStored
<1> DEFINE c == e.call
<1>6. ASSUME NEW t \in 0..MaxTime, t < now
      PROVE  /\ t < e.at => (t \in Billable(c)' <=> t \in Billable(c))
             /\ t >= e.at => t \in OvertimeOf(c) \/ EndStored(c, t)
             /\ EndStored(c, t) => t \notin Billable(c) /\ t \notin Billable(c)'
  <2>1. t \in Nat /\ e.at \in Nat
    BY <1>2, <1>3, <1>6
  <2>2. ASSUME t < e.at PROVE t \in Billable(c)' <=> t \in Billable(c)
    <3>1. \A f \in Event : f.at < e.at => (f \in Of(c, recorded) <=> f \in Of(c, recorded'))
      BY <1>2, <1>4, <2>1
    <3>2. Of(c, recorded) \in SUBSET Event /\ Of(c, recorded') \in SUBSET Event
      BY <1>2, <1>4 DEF Of
    <3>3. Together(Of(c, recorded), t) <=> Together(Of(c, recorded'), t)
      BY <2>1, <2>2, <3>1, <3>2, SameBefore
    <3>4. EndStored(c, t)' <=> EndStored(c, t)
      <4>1. ~(e.at <= t)
        BY <2>1, <2>2
      <4>2. Of(c, recorded') = Of(c, recorded) \cup {e}
        BY <1>2, <1>4
      <4>3. EndStored(c, t)' <=> \E f \in Finishes(Of(c, recorded')) : f.at <= t
        BY DEF EndStored
      <4> QED
        BY <4>1, <4>2, <4>3 DEF EndStored, Finishes
    <3> QED
      BY <3>3, <3>4 DEF Billable, Shared
  <2>3. t >= e.at => t \in OvertimeOf(c) \/ EndStored(c, t)
    BY <1>6, <2>1 DEF LateInv, LateIsOvertime
  <2>4. EndStored(c, t) => EndStored(c, t)'
    BY <1>2, <1>4 DEF EndStored, Finishes
  <2> QED
    BY <2>2, <2>3, <2>4 DEF Billable
<1>7. \A t \in 0..MaxTime : t < now => (t < e.at \/ t >= e.at)
  BY <1>2, <1>3
<1>8. \A t : t \in Billable(c) \/ t \in Billable(c)' => t \in 0..MaxTime /\ t < now
  BY DEF Billable, Shared
<1>9. \A d \in Calls : Fair'[d] = Fair[d]
  <2> SUFFICES ASSUME NEW d \in Calls
               PROVE  Billable(d)' \ OvertimeOf(d)' = Billable(d) \ OvertimeOf(d)
    BY DEF Fair
  <2>1. CASE d = c
    BY <1>1, <1>6, <1>7, <1>8, <2>1
  <2>2. CASE d # c
    BY <1>1, <1>5, <2>2
  <2> QED
    BY <2>1, <2>2
<1>10. Fair' = Fair
  BY <1>9 DEF Fair
<1>11. ASSUME NEW d \in Calls, d # c PROVE Owed'[d] = Owed[d]
  BY <1>1, <1>5, <1>11 DEF Owed
<1>12. ASSUME Finishes(Of(c, recorded)) # {} PROVE Owed'[c] = Owed[c]
  <2>1. Billable(c)' \cup OvertimeOf(c)' = Billable(c) \cup OvertimeOf(c)
    BY <1>1, <1>2, <1>6, <1>7, <1>8
  <2> QED
    BY <1>2, <2>1 DEF Owed
<1> QED
  BY <1>1, <1>10, <1>11, <1>12

\* When an end of the room is stored, what the stored events bill are the billable
\* seconds of the call.
LEMMA FinishBills ==
    ASSUME NEW S \in SUBSET Event, NEW f \in S, FirstFinish(f, S),
           NEW n \in Nat, f.at <= n
    PROVE  ConnectedSeconds(S) =
               Cardinality({t \in Shared(S, n) : ~\E g \in Finishes(S) : g.at <= t})
<1>1. \A e \in Event : e.at \in Nat /\ e.rank \in Nat
  BY NumbersAssumption DEF Event
<1>2. f \in Finishes(S) /\ \A g \in Finishes(S) : g \in Event /\ ~Before(g, f)
  BY DEF FirstFinish, Finishes
<1>3. \A g \in Finishes(S) : f.at <= g.at
  BY <1>1, <1>2 DEF Before
<1>4. \A t \in Nat : (\E g \in Finishes(S) : g.at <= t) <=> f.at <= t
  BY <1>1, <1>2, <1>3
<1>5. {t \in Shared(S, n) : ~\E g \in Finishes(S) : g.at <= t} = Shared(S, f.at)
  BY <1>1, <1>4, NumbersAssumption DEF Shared
<1>6. ConnectedSeconds(S) = Cardinality(Shared(S, f.at))
  BY <1>1, CountsUntilEnd
<1> QED
  BY <1>5, <1>6

LEMMA FewerSeconds ==
    ASSUME NEW S \in SUBSET (0..MaxTime), NEW T \in SUBSET (0..MaxTime), S \subseteq T
    PROVE  /\ Cardinality(S) \in Nat /\ Cardinality(T) \in Nat
           /\ Cardinality(S) <= Cardinality(T)
<1>1. IsFiniteSet(T) /\ Cardinality(S) \in Nat /\ Cardinality(T) \in Nat
  BY SecondsAreFinite
<1> QED
  BY <1>1, FS_Subset

\* The end of a room bills what the stored events show; those are all the fair seconds
\* and otherwise overtime.
LEMMA WebhookKeepsLate ==
    ASSUME LateInv, NEW e \in sent, RecordPresenceEvent(e)
    PROVE  LateInv'
<1> DEFINE c == e.call
<1>1. /\ e \notin recorded /\ recorded' = recorded \cup {e} /\ c \in Calls
      /\ UNCHANGED <<now, tokens, room, open, sent, overtime>>
      /\ status[c] \in {"started", "ended"}
      /\ status' = status \/ status' = [status EXCEPT ![c] = "ended"]
      /\ consumed' = IF e.kind = "room_finished"
                     THEN [consumed EXCEPT
                              ![c] = BilledOnce(c, ConnectedSeconds(Of(c, recorded')))]
                     ELSE consumed
  BY DEF RecordPresenceEvent, Acceptable, media, history, LateInv, TalkInv, IInv, TypeOK, Event
<1>2. TalkInv'
  BY WebhookKeepsTalk DEF LateInv
<1>3. /\ Fair' = Fair
      /\ \A d \in Calls : OvertimeOf(d)' = OvertimeOf(d)
      /\ \A d \in Calls : d # c => Owed'[d] = Owed[d]
      /\ Finishes(Of(c, recorded)) # {} => Owed'[c] = Owed[c]
  BY <1>1, FairStays
<1>4. /\ \A d \in Calls : d # c => Of(d, recorded') = Of(d, recorded)
      /\ Of(c, recorded') = Of(c, recorded) \cup {e}
  BY <1>1 DEF Of
<1>5. LateIsOvertime'
  <2> SUFFICES ASSUME NEW f \in sent \ recorded', NEW t \in 0..MaxTime,
                      f.at <= t, t < now
               PROVE  t \in OvertimeOf(f.call)' \/ EndStored(f.call, t)'
    BY <1>1 DEF LateIsOvertime
  <2>1. f \in sent \ recorded /\ f.call \in Calls
    BY <1>1 DEF LateInv, TalkInv, IInv, TypeOK, Event
  <2>2. t \in OvertimeOf(f.call) \/ EndStored(f.call, t)
    BY <2>1 DEF LateInv, LateIsOvertime
  <2>3. EndStored(f.call, t) => EndStored(f.call, t)'
    BY <1>1 DEF EndStored, Finishes, Of
  <2> QED
    BY <1>3, <2>1, <2>2, <2>3
<1>6. RoomsAreOpen' /\ CallsWereStarted'
  <2>1. \A d \in Calls : status[d] \in {"started", "ended"} =>
                             status'[d] \in {"started", "ended"}
    BY <1>1 DEF LateInv, TalkInv, IInv, TypeOK
  <2> QED
    BY <1>1, <2>1 DEF LateInv, RoomsAreOpen, CallsWereStarted, Sent
<1>7. /\ now \in Nat /\ Of(c, recorded) \in SUBSET Event /\ e \in Event
      /\ \A f \in Event : f.at \in Nat /\ f.rank \in Nat
      /\ \A f \in Sent(c) : f.at <= now
      /\ Of(c, recorded) \subseteq Sent(c) /\ e \in Sent(c)
  BY <1>1, EventTypes DEF LateInv, TalkInv, IInv, TypeOK, Sent, Of
<1>8. EndsAreKnown'
  <2> SUFFICES ASSUME NEW d \in Calls, Finishes(Of(d, recorded')) # {}
               PROVE  \E f \in Of(d, recorded') : FirstFinish(f, Of(d, recorded'))
    BY DEF EndsAreKnown
  <2>1. CASE d # c
    BY <1>4, <2>1 DEF LateInv, EndsAreKnown
  <2>2. CASE d = c /\ Finishes(Of(c, recorded)) = {}
    <3>1. Finishes(Of(c, recorded')) = {e} /\ ~Before(e, e)
      BY <1>4, <1>7, <2>2 DEF Finishes, Before
    <3> QED
      BY <1>4, <2>2, <3>1 DEF FirstFinish
  <2>3. CASE d = c /\ Finishes(Of(c, recorded)) # {}
    <3>1. PICK f \in Of(c, recorded) : FirstFinish(f, Of(c, recorded))
      BY <1>1, <2>3 DEF LateInv, EndsAreKnown
    <3>2. \/ FirstFinish(f, Of(c, recorded) \cup {e})
          \/ FirstFinish(e, Of(c, recorded) \cup {e})
      BY <1>7, <3>1, NewFinish
    <3> QED
      BY <1>4, <2>3, <3>2
  <2> QED
    BY <2>1, <2>2, <2>3
<1>9. ASSUME e.kind = "room_finished"
      PROVE  /\ Finishes(Of(c, recorded')) # {}
             /\ ConnectedSeconds(Of(c, recorded')) = Cardinality(Billable(c)')
             /\ Billable(c)' \in SUBSET (0..MaxTime)
             /\ Fair'[c] \subseteq Billable(c)' /\ Billable(c)' \subseteq Owed'[c]
             /\ Fair'[c] \in SUBSET (0..MaxTime) /\ Owed'[c] \in SUBSET (0..MaxTime)
  <2>1. Finishes(Of(c, recorded')) # {}
    BY <1>4, <1>9 DEF Finishes
  <2>2. PICK f \in Of(c, recorded') : FirstFinish(f, Of(c, recorded'))
    BY <1>1, <1>8, <2>1 DEF EndsAreKnown
  <2>3. Of(c, recorded') \in SUBSET Event /\ f.at <= now
    BY <1>4, <1>7
  <2> DEFINE billed == {t \in Shared(Of(c, recorded'), now) :
                            ~\E g \in Finishes(Of(c, recorded')) : g.at <= t}
  <2>4. ConnectedSeconds(Of(c, recorded')) = Cardinality(billed)
    BY <1>7, <2>2, <2>3, FinishBills
  <2>5. Billable(c)' = billed
    BY <1>1 DEF Billable, EndStored
  <2>6. billed \in SUBSET (0..MaxTime)
    BY DEF Shared
  <2> HIDE DEF billed
  <2>7. Fair'[c] = Billable(c)' \ OvertimeOf(c)' /\ Owed'[c] = Billable(c)' \cup OvertimeOf(c)'
    BY <1>1 DEF Fair, Owed
  <2>8. OvertimeOf(c)' \in SUBSET (0..MaxTime)
    BY DEF OvertimeOf
  <2> QED
    BY <2>1, <2>4, <2>5, <2>6, <2>7, <2>8
<1>10. Bills'
  <2> SUFFICES ASSUME NEW d \in Calls
               PROVE  IF Finishes(Of(d, recorded')) = {} THEN consumed'[d] = 0
                      ELSE /\ Cardinality(Fair'[d]) <= consumed'[d]
                           /\ consumed'[d] <= Cardinality(Owed'[d])
    BY DEF Bills
  <2>1. CASE d # c
    <3>1. consumed'[d] = consumed[d]
      BY <1>1, <2>1 DEF LateInv, TalkInv, IInv, TypeOK
    <3> QED
      BY <1>3, <1>4, <2>1, <3>1 DEF LateInv, Bills
  <2>2. CASE d = c /\ e.kind # "room_finished"
    <3>1. consumed' = consumed /\ Finishes(Of(c, recorded')) = Finishes(Of(c, recorded))
      BY <1>1, <1>4, <2>2 DEF Finishes
    <3> QED
      BY <1>3, <2>2, <3>1 DEF LateInv, Bills
  <2>3. CASE d = c /\ e.kind = "room_finished"
    <3>1. consumed'[c] = BilledOnce(c, ConnectedSeconds(Of(c, recorded')))
      BY <1>1, <2>3 DEF LateInv, TalkInv, IInv, TypeOK
    <3>2. CASE consumed[c] = 0
      <4>1. consumed'[c] = Cardinality(Billable(c)')
        BY <1>9, <2>3, <3>1, <3>2 DEF BilledOnce
      <4>2. Cardinality(Fair'[c]) <= Cardinality(Billable(c)')
        BY <1>9, <2>3, FewerSeconds
      <4>3. Cardinality(Billable(c)') <= Cardinality(Owed'[c])
        BY <1>9, <2>3, FewerSeconds
      <4> QED
        BY <1>9, <2>3, <4>1, <4>2, <4>3
    <3>3. CASE consumed[c] # 0
      <4>1. consumed'[c] = consumed[c] /\ Finishes(Of(c, recorded)) # {}
        BY <1>1, <3>1, <3>3 DEF BilledOnce, LateInv, Bills
      <4> QED
        BY <1>1, <1>3, <1>9, <2>3, <4>1 DEF LateInv, Bills
    <3> QED
      BY <3>2, <3>3
  <2> QED
    BY <2>1, <2>2, <2>3
<1>11. FairWithinGrant'
  BY <1>3 DEF LateInv, FairWithinGrant, Pairs
<1> QED
  BY <1>2, <1>5, <1>6, <1>8, <1>10, <1>11 DEF LateInv

\* What is consumed is owed.
LEMMA ConsumedIsOwed ==
    ASSUME LateInv
    PROVE  /\ consumed \in [Calls -> Nat]
           /\ IsFiniteSet(Numbers(consumed)) /\ Consumption = Cardinality(Numbers(consumed))
           /\ IsFiniteSet(Pairs(Owed))
           /\ Consumption \in Nat /\ Consumption <= Cardinality(Pairs(Owed))
<1> DEFINE n == [c \in Calls |-> Cardinality(Owed[c])]
<1>1. /\ n \in [Calls -> Nat] /\ IsFiniteSet(Pairs(Owed)) /\ IsFiniteSet(Numbers(n))
      /\ Cardinality(Numbers(n)) = Cardinality(Pairs(Owed))
  BY SecondsOfCalls, PairsAreNumbered
<1>2. consumed \in [Calls -> Nat]
  BY DEF LateInv, TalkInv, IInv, TypeOK
<1>3. ASSUME NEW c \in Calls PROVE consumed[c] <= n[c]
  <2>1. n[c] \in Nat /\ n[c] = Cardinality(Owed[c])
    BY <1>1
  <2> HIDE DEF n
  <2> QED
    BY <2>1 DEF LateInv, Bills
<1> HIDE DEF n
<1>4. /\ IsFiniteSet(Numbers(consumed)) /\ Cardinality(Numbers(consumed)) \in Nat
      /\ Cardinality(Numbers(consumed)) <= Cardinality(Numbers(n))
  BY <1>1, <1>2, <1>3, NumbersGrow
<1>5. Consumption = Cardinality(Numbers(consumed))
  BY DEF Consumption, ConsumedSeconds, Numbers
<1> QED
  BY <1>1, <1>2, <1>4, <1>5

\* In a second in which nothing is late and both sides are shown in a call whose end is
\* not stored, that call is in progress and every other one has been billed.
LEMMA OnlyOneGrows ==
    ASSUME LateInv, OnTime, NEW c \in Calls, Together(Of(c, recorded), now),
           Finishes(Of(c, recorded)) = {}
    PROVE  /\ status[c] = "started" /\ Of(c, recorded) = Sent(c)
           /\ \A d \in Calls : d # c => Cardinality(Fair[d]) <= consumed[d]
<1>1. \A d \in Calls : Of(d, recorded) = Sent(d)
  BY DEF OnTime, LateInv, TalkInv, IInv, TypeOK, Sent, Of
<1>2. ASSUME NEW d \in Calls, Sent(d) # {}, Finishes(Sent(d)) = {}
      PROVE  status[d] = "started"
  BY <1>2 DEF OnTime, LateInv, RoomsAreOpen, CallsWereStarted
<1>3. Sent(c) # {}
  BY <1>1 DEF Together, Present
<1>4. status[c] = "started"
  BY <1>1, <1>2, <1>3
<1>5. ASSUME NEW d \in Calls, d # c PROVE Cardinality(Fair[d]) <= consumed[d]
  <2>1. CASE Finishes(Of(d, recorded)) # {}
    BY <2>1 DEF LateInv, Bills
  <2>2. CASE Finishes(Of(d, recorded)) = {}
    <3>1. status[d] # "started"
      BY <1>4, <1>5 DEF LateInv, TalkInv, IInv, OneOpenCall, Open
    <3>2. Of(d, recorded) = {}
      BY <1>1, <1>2, <2>2, <3>1
    <3>3. Shared({}, now) = {}
      BY DEF Shared, Together, Present
    <3>4. Fair[d] = {}
      BY <3>2, <3>3 DEF Fair, Billable
    <3>5. Cardinality(Fair[d]) = 0 /\ consumed[d] = 0
      BY <2>2, <3>4, FS_EmptySet DEF LateInv, Bills
    <3> QED
      BY <3>5
  <2> QED
    BY <2>1, <2>2
<1> QED
  BY <1>1, <1>4, <1>5

\* The worker has compared the fair seconds of that call with what the bills leave.
LEMMA FairIsBelowGrant ==
    ASSUME LateInv, OnTime, NEW c \in Calls, Together(Of(c, recorded), now),
           Finishes(Of(c, recorded)) = {}
    PROVE  /\ IsFiniteSet(Pairs(Fair)) /\ Cardinality(Pairs(Fair)) \in Nat
           /\ Cardinality(Pairs(Fair)) < Grant
<1> DEFINE S == Of(c, recorded)
           last == LastEventAt(S)
           A == [d \in Calls |-> IF d = c THEN {} ELSE Fair[d]]
           m == [d \in Calls |-> Cardinality(A[d])]
           mine == {c} \X Fair[c]
<1>1. /\ now \in 0..MaxTime /\ now \in Nat /\ S \in SUBSET Event /\ S = Sent(c)
      /\ \A e \in Event : e.at \in Nat
      /\ \A e \in S : e.at <= now
  BY OnlyOneGrows, EventTypes DEF LateInv, TalkInv, IInv, TypeOK
<1>2. ActiveOverlap(S)
  <2>1. \A e \in S : e.at <= now /\ e.at <= MaxTime
    BY <1>1, NumbersAssumption
  <2>2. \A p : Present(p, S, now) <=> Present(p, S, MaxTime)
    BY <2>1 DEF Present
  <2> QED
    BY <2>2 DEF ActiveOverlap, Together
<1>3. connected[c] + (now - last) < Balance
  BY <1>2, OnlyOneGrows DEF OnTime, Due, WithinBalance
<1>4. connected[c] = ConnectedSeconds(S)
  BY DEF LateInv, TalkInv, StoredIsCounted
<1>5. Cardinality(Shared(S, now)) = ConnectedSeconds(S) + (now - last)
  <2>1. \E k \in {e.at : e \in S} \cup {0} : \A l \in {e.at : e \in S} \cup {0} : k >= l
    BY <1>1 DEF LateInv, TalkInv, LastKnown
  <2> QED
    BY <1>1, <1>2, <2>1, SecondsSinceLast
<1>6. Cardinality(Shared(S, now)) < Balance
  BY <1>3, <1>4, <1>5
<1>7. /\ Cardinality(Fair[c]) \in Nat /\ IsFiniteSet(Fair[c])
      /\ Cardinality(Shared(S, now)) \in Nat
      /\ Cardinality(Fair[c]) <= Cardinality(Shared(S, now))
  <2>1. Fair[c] \subseteq Shared(S, now) /\ Shared(S, now) \in SUBSET (0..MaxTime)
    BY DEF Fair, Billable, Shared
  <2> HIDE DEF S
  <2> QED
    BY <2>1, FewerSeconds, SecondsAreFinite
<1>8. consumed \in [Calls -> Nat] /\ Consumption \in Nat
      /\ IsFiniteSet(Numbers(consumed)) /\ Consumption = Cardinality(Numbers(consumed))
  BY ConsumedIsOwed
<1>9. Cardinality(Fair[c]) + Consumption < Grant
  BY <1>6, <1>7, <1>8, NumbersAssumption DEF Balance
<1>10. A \in [Calls -> SUBSET (0..MaxTime)]
  BY SecondsOfCalls
<1>11. /\ m \in [Calls -> Nat] /\ IsFiniteSet(Pairs(A))
       /\ Cardinality(Numbers(m)) = Cardinality(Pairs(A))
  BY <1>10, PairsAreNumbered
<1>12. ASSUME NEW d \in Calls PROVE m[d] <= consumed[d]
  <2>1. CASE d = c
    <3>1. m[d] = 0
      BY <2>1, FS_EmptySet
    <3> QED
      BY <1>8, <3>1
  <2>2. CASE d # c
    <3>1. m[d] = Cardinality(Fair[d])
      BY <2>2
    <3> QED
      BY <2>2, <3>1, OnlyOneGrows
  <2> QED
    BY <2>1, <2>2
<1>13. Pairs(Fair) \subseteq Pairs(A) \cup mine
  BY DEF Pairs
<1>14. IsFiniteSet(mine) /\ Cardinality(mine) = Cardinality(Fair[c])
  <2>1. IsFiniteSet({c}) /\ Cardinality({c}) = 1
    BY FS_Singleton
  <2>2. IsFiniteSet(mine) /\ Cardinality(mine) = Cardinality({c}) * Cardinality(Fair[c])
    BY <1>7, <2>1, FS_Product
  <2>3. Cardinality(mine) = 1 * Cardinality(Fair[c])
    BY <2>1, <2>2
  <2> QED
    BY <1>7, <2>2, <2>3
<1>15. Pairs(A) \cap mine = {}
  BY DEF Pairs
<1> HIDE DEF m, A, mine
<1>16. Cardinality(Pairs(A)) <= Consumption /\ Cardinality(Pairs(A)) \in Nat
  BY <1>8, <1>11, <1>12, NumbersGrow, FS_CardinalityType
<1>17. /\ IsFiniteSet(Pairs(A) \cup mine)
       /\ Cardinality(Pairs(A) \cup mine) = Cardinality(Pairs(A)) + Cardinality(mine)
  BY <1>11, <1>14, <1>15, DisjointUnion
<1>18. /\ IsFiniteSet(Pairs(Fair)) /\ Cardinality(Pairs(Fair)) \in Nat
       /\ Cardinality(Pairs(Fair)) <= Cardinality(Pairs(A)) + Cardinality(mine)
  BY <1>13, <1>17, FS_Subset, FS_CardinalityType
<1> QED
  BY <1>7, <1>9, <1>14, <1>16, <1>18, <1>8, NumbersAssumption

\* A second in which something is late is nowhere fair; one in which nothing is late is
\* fair in the call in progress only.
LEMMA TickKeepsLate ==
    ASSUME LateInv, Tick
    PROVE  LateInv'
<1>1. /\ now < MaxTime /\ now' = now + 1
      /\ overtime' = IF OnTime THEN overtime
                     ELSE overtime \cup {<<c, now>> : c \in {d \in Calls : Running(d)}}
      /\ UNCHANGED <<status, tokens, room, open, sent, recorded, consumed>>
  BY DEF Tick, lifecycle, media, billing
<1>2. TalkInv'
  BY TickKeepsTalk DEF LateInv
<1>3. now \in Nat /\ now \in 0..MaxTime /\ recorded \subseteq sent
      /\ overtime \subseteq Calls \X (0..MaxTime)
  BY NumbersAssumption DEF LateInv, TalkInv, IInv, TypeOK
<1>4. \A c \in Calls : Finishes(Of(c, recorded)) # {} => EndStored(c, now)
  <2> SUFFICES ASSUME NEW c \in Calls, NEW f \in Finishes(Of(c, recorded))
               PROVE  f.at <= now
    BY DEF EndStored
  <2>1. f \in Sent(c)
    BY <1>3 DEF Finishes, Sent, Of
  <2> QED
    BY <2>1 DEF LateInv, TalkInv, EventsInOrder
<1>5. /\ \A c \in Calls : OvertimeOf(c) \subseteq OvertimeOf(c)'
      /\ OnTime => \A c \in Calls : OvertimeOf(c)' = OvertimeOf(c)
      /\ ~OnTime => \A c \in Calls : Running(c) => now \in OvertimeOf(c)'
      /\ \A c \in Calls : ~Running(c) => OvertimeOf(c)' = OvertimeOf(c)
  BY <1>1, <1>3 DEF OvertimeOf
<1>6. \A c \in Calls : \A t : EndStored(c, t)' <=> EndStored(c, t)
  BY <1>1 DEF EndStored
<1>7. LateIsOvertime'
  <2> SUFFICES ASSUME NEW e \in sent \ recorded, NEW t \in 0..MaxTime,
                      e.at <= t, t < now + 1
               PROVE  t \in OvertimeOf(e.call)' \/ EndStored(e.call, t)
    BY <1>1, <1>6 DEF LateIsOvertime, EndStored
  <2>1. e.call \in Calls /\ e \in Sent(e.call)
    BY DEF LateInv, TalkInv, IInv, TypeOK, Event, Sent, Of
  <2>2. CASE t < now
    BY <1>5, <2>1, <2>2 DEF LateInv, LateIsOvertime
  <2>3. CASE t = now
    <3>1. ~OnTime
      BY DEF OnTime
    <3>2. CASE Finishes(Of(e.call, recorded)) = {}
      BY <1>5, <2>1, <2>3, <3>1, <3>2 DEF Running
    <3>3. CASE Finishes(Of(e.call, recorded)) # {}
      BY <1>4, <2>1, <2>3, <3>3
    <3> QED
      BY <3>2, <3>3
  <2> QED
    BY <1>3, <2>2, <2>3
<1>8. RoomsAreOpen' /\ CallsWereStarted' /\ EndsAreKnown'
  BY <1>1 DEF LateInv, RoomsAreOpen, CallsWereStarted, EndsAreKnown, Sent
<1>9. \A c \in Calls : \A t :
          t \in Billable(c)' <=>
              \/ t \in Billable(c)
              \/ t = now /\ Together(Of(c, recorded), now) /\ ~EndStored(c, now)
  <2> SUFFICES ASSUME NEW c \in Calls, NEW t \in 0..MaxTime
               PROVE  t < now + 1 <=> t < now \/ t = now
    BY <1>1, <1>3, <1>6 DEF Billable, Shared
  <2> QED
    BY <1>3
<1>10. ASSUME NEW c \in Calls, Finishes(Of(c, recorded)) # {}
       PROVE  Fair'[c] = Fair[c] /\ Owed'[c] = Owed[c]
  <2>1. Billable(c)' = Billable(c)
    BY <1>4, <1>9, <1>10
  <2>2. OvertimeOf(c)' = OvertimeOf(c)
    BY <1>5, <1>10 DEF Running
  <2> QED
    BY <2>1, <2>2 DEF Fair, Owed
<1>11. Bills'
  <2> SUFFICES ASSUME NEW c \in Calls
               PROVE  IF Finishes(Of(c, recorded)) = {} THEN consumed[c] = 0
                      ELSE /\ Cardinality(Fair'[c]) <= consumed[c]
                           /\ consumed[c] <= Cardinality(Owed'[c])
    BY <1>1 DEF Bills
  <2> QED
    BY <1>10 DEF LateInv, Bills
<1>12. FairWithinGrant'
  <2>1. ASSUME \A c \in Calls : Fair'[c] \subseteq Fair[c] PROVE FairWithinGrant'
    <3>1. IsFiniteSet(Pairs(Fair))
      BY SecondsOfCalls, PairsAreNumbered
    <3>2. Pairs(Fair') \in SUBSET Pairs(Fair)
      BY <2>1 DEF Pairs
    <3>3. Cardinality(Pairs(Fair')) <= Cardinality(Pairs(Fair))
          /\ Cardinality(Pairs(Fair')) \in Nat /\ Cardinality(Pairs(Fair)) \in Nat
      BY <3>1, <3>2, FS_Subset, FS_CardinalityType
    <3>4. Pairs(Fair)' = Pairs(Fair')
      BY DEF Pairs
    <3> QED
      BY <3>3, <3>4, NumbersAssumption DEF LateInv, FairWithinGrant
  <2>2. ASSUME NEW c \in Calls, NEW t \in Fair'[c], t \notin Fair[c]
        PROVE  /\ OnTime /\ t = now /\ Together(Of(c, recorded), now)
               /\ Finishes(Of(c, recorded)) = {}
    <3>1. t \in Billable(c)' /\ t \notin OvertimeOf(c)'
      BY <2>2 DEF Fair
    <3>2. t \notin Billable(c)
      BY <1>5, <2>2, <3>1 DEF Fair
    <3>3. t = now /\ Together(Of(c, recorded), now) /\ ~EndStored(c, now)
      BY <1>9, <3>1, <3>2
    <3>4. Finishes(Of(c, recorded)) = {}
      BY <1>4, <3>3
    <3>5. Sent(c) # {}
      BY <1>3, <3>3 DEF Together, Present, Sent, Of
    <3>6. OnTime
      BY <1>5, <3>1, <3>3, <3>4, <3>5 DEF Running
    <3> QED
      BY <3>3, <3>4, <3>6
  <2>3. CASE \A c \in Calls : Fair'[c] \subseteq Fair[c]
    BY <2>1, <2>3
  <2>4. ASSUME NEW c \in Calls, ~(Fair'[c] \subseteq Fair[c]) PROVE FairWithinGrant'
    <3>1. OnTime /\ Together(Of(c, recorded), now) /\ Finishes(Of(c, recorded)) = {}
      BY <2>2, <2>4
    <3>2. \A d \in Calls : d # c => Fair'[d] \subseteq Fair[d]
      <4> SUFFICES ASSUME NEW d \in Calls, d # c, ~(Fair'[d] \subseteq Fair[d])
                   PROVE  FALSE
        OBVIOUS
      <4>1. Together(Of(d, recorded), now) /\ Finishes(Of(d, recorded)) = {}
        BY <2>2
      <4>2. status[c] = "started" /\ status[d] = "started"
        BY <3>1, <4>1, OnlyOneGrows
      <4> QED
        BY <4>2 DEF LateInv, TalkInv, IInv, OneOpenCall, Open
    <3>3. Fair'[c] \subseteq Fair[c] \cup {now}
      BY <2>2
    <3>4. Pairs(Fair') \in SUBSET (Pairs(Fair) \cup {<<c, now>>})
      BY <3>2, <3>3 DEF Pairs
    <3>5. /\ IsFiniteSet(Pairs(Fair)) /\ Cardinality(Pairs(Fair)) \in Nat
          /\ Cardinality(Pairs(Fair)) < Grant
      BY <3>1, FairIsBelowGrant
    <3>6. /\ IsFiniteSet(Pairs(Fair) \cup {<<c, now>>})
          /\ Cardinality(Pairs(Fair) \cup {<<c, now>>}) <= Cardinality(Pairs(Fair)) + 1
      <4>1. /\ IsFiniteSet(Pairs(Fair) \cup {<<c, now>>})
            /\ Cardinality(Pairs(Fair) \cup {<<c, now>>}) =
                  IF <<c, now>> \in Pairs(Fair) THEN Cardinality(Pairs(Fair))
                  ELSE Cardinality(Pairs(Fair)) + 1
        BY <3>5, FS_AddElement
      <4> QED
        BY <3>5, <4>1
    <3>7. /\ Cardinality(Pairs(Fair')) <= Cardinality(Pairs(Fair) \cup {<<c, now>>})
          /\ Cardinality(Pairs(Fair')) \in Nat
          /\ Cardinality(Pairs(Fair) \cup {<<c, now>>}) \in Nat
      BY <3>4, <3>6, FS_Subset, FS_CardinalityType
    <3>8. Pairs(Fair)' = Pairs(Fair')
      BY DEF Pairs
    <3> QED
      BY <3>5, <3>6, <3>7, <3>8, NumbersAssumption DEF FairWithinGrant
  <2> QED
    BY <2>3, <2>4
<1> QED
  BY <1>2, <1>7, <1>8, <1>11, <1>12 DEF LateInv

LEMMA NextLateInv ==
    ASSUME Reports = {}, LateInv, [Next]_vars
    PROVE  LateInv'
<1>1. TalkInv'
  BY NextTalkInv DEF LateInv
<1>2. CASE \E c \in Calls, p \in People :
               Join(c, p) \/ Leave(c, p) \/ RoomExpires(c) \/ (CloseRoom(c) /\ c \in open)
  BY <1>2, MediaKeepsLate
<1>3. CASE \E e \in sent : RecordPresenceEvent(e)
  BY <1>3, WebhookKeepsLate
<1>4. CASE Tick
  BY <1>4, TickKeepsLate
<1>5. CASE \/ UNCHANGED vars
           \/ \E c \in Calls :
                 \/ \E t \in 1..MaxTime : Schedule(c, t)
                 \/ Start(c) \/ Cancel(c) \/ End(c)
                 \/ \E p \in People : IssueToken(c, p)
                 \/ (CloseRoom(c) /\ c \notin open) \/ CloseFails(c) \/ EnforceQuota(c)
           \/ \E e \in sent : RepeatPresenceEvent(e)
           \/ \E p \in Volatile : MembershipChanges(p)
  <2> USE DEF vars, lifecycle, media, billing, history, Schedule, Start, Cancel, End,
              IssueToken, CloseRoom, CloseFails, EnforceQuota, RepeatPresenceEvent,
              MembershipChanges
  <2>1. UNCHANGED <<now, room, open, sent, recorded, consumed, overtime>>
    BY <1>5
  <2>2. \A c \in Calls, p \in People : <<c, p>> \in tokens' =>
            <<c, p>> \in tokens \/ status[c] = "started"
    BY <1>5
  <2>3. \A c \in Calls : status[c] \in {"started", "ended"} =>
            status'[c] \in {"started", "ended"}
    BY <1>5 DEF LateInv, TalkInv, IInv, TypeOK
  <2> QED
    BY <1>1, <2>1, <2>2, <2>3, QuietKeepsLate
<1>6. Student \in People
  BY DEF People
<1> QED
  BY <1>2, <1>3, <1>4, <1>5, <1>6 DEF Next

LEMMA LateInductive == ASSUME Reports = {} PROVE Spec => []LateInv
BY LateInit, NextLateInv, PTL DEF Spec

LEMMA LateBounds == LateInv => OverrunIsLate
<1> SUFFICES ASSUME LateInv PROVE Consumption <= Grant + Cardinality(overtime)
  BY DEF OverrunIsLate
<1>1. /\ IsFiniteSet(Pairs(Owed)) /\ Consumption \in Nat
      /\ Consumption <= Cardinality(Pairs(Owed))
  BY ConsumedIsOwed
<1>2. overtime \subseteq Calls \X (0..MaxTime)
  BY DEF LateInv, TalkInv, IInv, TypeOK
<1>3. Pairs(Owed) = Pairs(Fair) \cup overtime
  BY <1>2 DEF Pairs, Owed, Fair, OvertimeOf
<1>4. Pairs(Fair) \in SUBSET Pairs(Owed) /\ overtime \in SUBSET Pairs(Owed)
  BY <1>3
<1>5. /\ IsFiniteSet(Pairs(Fair)) /\ IsFiniteSet(overtime)
      /\ Cardinality(Pairs(Fair)) \in Nat /\ Cardinality(overtime) \in Nat
      /\ Cardinality(Pairs(Owed)) \in Nat
  BY <1>1, <1>4, FS_Subset, FS_CardinalityType
<1>6. Pairs(Fair) \cap overtime = {}
  BY <1>2 DEF Pairs, Fair, OvertimeOf
<1>7. Cardinality(Pairs(Owed)) = Cardinality(Pairs(Fair)) + Cardinality(overtime)
  BY <1>3, <1>5, <1>6, DisjointUnion
<1> QED
  BY <1>1, <1>5, <1>7, NumbersAssumption DEF LateInv, FairWithinGrant

\* However late events, sweeps and closings are, whoever rejoins an ended call and however
\* many calls an order has, what is taken off its grant exceeds it by no more than the
\* seconds in which something was late; the one assumption is that usage is reported by
\* the media server alone, as it is in the code.
THEOREM GrantIsExceededByDelayOnly ==
    ASSUME Reports = {} PROVE Spec => []OverrunIsLate
BY LateInductive, LateBounds, PTL
=============================================================================
