---------------------------- MODULE ServiceOrders ----------------------------
(***************************************************************************)
(* Buying a service of an institute: the catalogue, the orders students    *)
(* place, the consent of a guardian, and the payment that books the money  *)
(* and grants the paid minutes.                                            *)
(*                                                                         *)
(* Transactions run side by side.  Placing an order and capturing a payment*)
(* read rows they have locked and write later, so each is two actions with *)
(* the locks held between them; the others write what they have just read  *)
(* under the lock and are one.  A transaction that needs a locked row      *)
(* waits.  The gateway repeats events, sends them late and may use one for *)
(* two orders; an event with another amount than the order's is refused    *)
(* before anything is written, and is left out.  There is one institute.   *)
(***************************************************************************)
EXTENDS Naturals, FiniteSets

CONSTANTS
    Students,
    Keys,       \* idempotency keys of order requests
    Services,   \* services the institute may come to offer
    Events,     \* payment events of the gateway
    Prices,     \* prices in toman
    Minutes     \* included minutes, 0 for a service without a quota

ASSUME PricesAssumption == Prices \subseteq Nat \ {0}
ASSUME MinutesAssumption == Minutes \subseteq Nat

\* An order is named by the student and the key of the request.
Orders == Students \X Keys

Terms == [price : Prices, minutes : Minutes, consent : BOOLEAN]

NoService == [status |-> "none"]
Offer == [status : {"draft", "active", "paused"}, terms : Terms]

NoOrder == [status |-> "none"]
Order == [status : {"awaiting_guardian_consent", "awaiting_payment", "paid",
                    "cancelled"},
          service : Services, terms : Terms, confirmed : BOOLEAN]

Placing == [order : Orders, service : Services, terms : Terms]
Capturing == [order : Orders, event : Events, replay : BOOLEAN]

\* Amounts of a journal, in rials: a debit and the two credits it pays for.
NoJournal == [gross |-> 0]
Journal == [order : Orders, gross : Nat \ {0}, dena : Nat \ {0},
            institute : Nat \ {0}]

VARIABLES
    active,     \* students with an active membership
    staffed,    \* the institute has an active member
    catalog,    \* row of each service
    order,      \* row of each order
    placing,    \* open transactions that place an order
    capturing,  \* open transactions that capture a payment
    journal,    \* journal posted for each payment event
    granted     \* seconds granted to each order

orderVars == <<active, staffed, catalog, order, placing, capturing, journal, granted>>
people == <<active, staffed>>
books == <<journal, granted>>

OrdersInit ==
    /\ active = Students
    /\ staffed = TRUE
    /\ catalog = [v \in Services |-> NoService]
    /\ order = [o \in Orders |-> NoOrder]
    /\ placing = {}
    /\ capturing = {}
    /\ journal = [e \in Events |-> NoJournal]
    /\ granted = [o \in Orders |-> 0]

(***************************************************************************)
(* Row locks.                                                              *)
(***************************************************************************)
\* The membership row of the student is not locked.
StudentFree(s) == \A r \in placing : r.order[1] # s

\* Fault: the row is read without a lock.
ServiceUnlocked(v) == TRUE

ServiceFree(v) == \A r \in placing : r.service # v

\* Fault: the row is read without a lock.
OrderUnlocked(o) == TRUE

OrderFree(o) == \A r \in capturing : r.order # o

(***************************************************************************)
(* Catalogue.                                                              *)
(***************************************************************************)
CreateInstituteService(v, terms) ==
    /\ staffed
    /\ catalog[v] = NoService
    /\ catalog' = [catalog EXCEPT ![v] = [status |-> "draft", terms |-> terms]]
    /\ UNCHANGED <<people, order, placing, capturing, books>>

UpdateInstituteService(v, status, terms) ==
    /\ staffed
    /\ catalog[v] # NoService
    /\ ServiceFree(v)
    /\ catalog' = [catalog EXCEPT ![v] = [status |-> status, terms |-> terms]]
    /\ UNCHANGED <<people, order, placing, capturing, books>>

(***************************************************************************)
(* Placing, cancelling and consenting to an order.                         *)
(***************************************************************************)
\* Fault: an order that waits for consent does not count.
PayablePending(o) == order[o].status = "awaiting_payment"

Pending(o) == order[o].status \in {"awaiting_guardian_consent", "awaiting_payment"}

NothingPending(s, v) ==
    \A k \in Keys : Pending(<<s, k>>) => order[<<s, k>>].service # v

\* A repeated key returns the order it made and changes nothing.
ReadForOrder(s, k, v) ==
    /\ s \in active /\ StudentFree(s)
    /\ order[<<s, k>>] = NoOrder
    /\ catalog[v].status = "active" /\ ServiceFree(v)
    /\ NothingPending(s, v)
    /\ placing' = placing \cup
           {[order |-> <<s, k>>, service |-> v, terms |-> catalog[v].terms]}
    /\ UNCHANGED <<people, catalog, order, capturing, books>>

InsertOrder(r) ==
    /\ placing' = placing \ {r}
    /\ order' = [order EXCEPT ![r.order] =
           [status |-> IF r.terms.consent THEN "awaiting_guardian_consent"
                       ELSE "awaiting_payment",
            service |-> r.service, terms |-> r.terms, confirmed |-> FALSE]]
    /\ UNCHANGED <<people, catalog, capturing, books>>

AbandonOrder(r) ==
    /\ placing' = placing \ {r}
    /\ UNCHANGED <<people, catalog, order, capturing, books>>

CancelStudentServiceOrder(o) ==
    /\ o[1] \in active /\ StudentFree(o[1])
    /\ OrderFree(o)
    /\ Pending(o)
    /\ order' = [order EXCEPT ![o].status = "cancelled"]
    /\ UNCHANGED <<people, catalog, placing, capturing, books>>

ConfirmGuardianConsent(o) ==
    /\ staffed
    /\ OrderFree(o)
    /\ order[o].status = "awaiting_guardian_consent"
    /\ order' = [order EXCEPT ![o].status = "awaiting_payment",
                              ![o].confirmed = TRUE]
    /\ UNCHANGED <<people, catalog, placing, capturing, books>>

(***************************************************************************)
(* Payment.                                                                *)
(***************************************************************************)
\* Fault: the tenth is taken of the price in toman, rounded down.
SplitOfTomans(price) ==
    [gross |-> 10 * price, dena |-> price \div 10,
     institute |-> 10 * price - (price \div 10)]

\* Dena keeps a tenth of the gross amount.
Split(price) ==
    [gross |-> 10 * price, dena |-> price, institute |-> 10 * price - price]

\* Fault: the price of the day, not the one of the order.
CatalogPrice(o) == catalog[order[o].service].terms.price

OrderedPrice(o) == order[o].terms.price

CaptureJournal(o) ==
    LET split == Split(OrderedPrice(o)) IN
    [order |-> o, gross |-> split.gross, dena |-> split.dena,
     institute |-> split.institute]

\* Fault: consent may follow later.
PayableEarly(o) == Pending(o)

Payable(o) ==
    /\ order[o].status = "awaiting_payment"
    /\ order[o].terms.consent => order[o].confirmed

ReadForCapture(o, e) ==
    /\ OrderFree(o)
    /\ order[o].status = "paid" \/ Payable(o)
    /\ capturing' = capturing \cup
           {[order |-> o, event |-> e, replay |-> order[o].status = "paid"]}
    /\ UNCHANGED <<people, catalog, order, placing, books>>

\* Fault: every replay grants the minutes again.
GrantEachTime(o) == [granted EXCEPT ![o] = @ + 60 * order[o].terms.minutes]

\* The grant has a key of its own order: a second insert is ignored.
GrantPurchasedQuota(o) ==
    [granted EXCEPT ![o] = IF @ = 0 THEN 60 * order[o].terms.minutes ELSE @]

BookPayment(r) ==
    /\ ~r.replay
    /\ journal[r.event] = NoJournal
    /\ journal' = [journal EXCEPT ![r.event] = CaptureJournal(r.order)]
    /\ order' = [order EXCEPT ![r.order].status = "paid"]
    /\ granted' = GrantPurchasedQuota(r.order)
    /\ capturing' = capturing \ {r}
    /\ UNCHANGED <<people, catalog, placing>>

RepeatPayment(r) ==
    /\ r.replay
    /\ journal[r.event] = CaptureJournal(r.order)
    /\ granted' = GrantPurchasedQuota(r.order)
    /\ capturing' = capturing \ {r}
    /\ UNCHANGED <<people, catalog, order, placing, journal>>

\* A conflict of the event, a new event for a paid order, a lost connection.
AbandonCapture(r) ==
    /\ capturing' = capturing \ {r}
    /\ UNCHANGED <<people, catalog, order, placing, books>>

(***************************************************************************)
(* Memberships.                                                            *)
(***************************************************************************)
StudentChanges(s) ==
    /\ StudentFree(s)
    /\ active' = IF s \in active THEN active \ {s} ELSE active \cup {s}
    /\ UNCHANGED <<staffed, catalog, order, placing, capturing, books>>

StaffChanges ==
    /\ staffed' = ~staffed
    /\ UNCHANGED <<active, catalog, order, placing, capturing, books>>

OrdersNext ==
    \/ \E v \in Services, terms \in Terms :
          \/ CreateInstituteService(v, terms)
          \/ \E status \in {"draft", "active", "paused"} :
                UpdateInstituteService(v, status, terms)
    \/ \E s \in Students, k \in Keys, v \in Services : ReadForOrder(s, k, v)
    \/ \E r \in placing : InsertOrder(r) \/ AbandonOrder(r)
    \/ \E o \in Orders :
          \/ CancelStudentServiceOrder(o) \/ ConfirmGuardianConsent(o)
          \/ \E e \in Events : ReadForCapture(o, e)
    \/ \E r \in capturing :
          BookPayment(r) \/ RepeatPayment(r) \/ AbandonCapture(r)
    \/ \E s \in Students : StudentChanges(s)
    \/ StaffChanges

OrdersSpec == OrdersInit /\ [][OrdersNext]_orderVars
------------------------------------------------------------------------------
(***************************************************************************)
(* Properties.                                                             *)
(***************************************************************************)
\* Every row is of its table; the entries of a journal are positive.
OrdersTypeOK ==
    /\ active \subseteq Students
    /\ staffed \in BOOLEAN
    /\ catalog \in [Services -> Offer \cup {NoService}]
    /\ order \in [Orders -> Order \cup {NoOrder}]
    /\ placing \subseteq Placing
    /\ capturing \subseteq Capturing
    /\ journal \in [Events -> Journal \cup {NoJournal}]
    /\ granted \in [Orders -> Nat]

Booked(e, o) == journal[e] # NoJournal /\ journal[e].order = o

\* The money books and the orders tell one story: a paid order has exactly one
\* journal, with the price it was ordered at, and no other order has any.
BooksMatchOrders ==
    /\ \A o \in Orders :
          order[o].status = "paid" <=> \E e \in Events : Booked(e, o)
    /\ \A e \in Events, o \in Orders : Booked(e, o) =>
          /\ journal[e].gross = 10 * order[o].terms.price
          /\ journal[e].gross = journal[e].dena + journal[e].institute
          /\ \A f \in Events : Booked(f, o) => e = f

\* The seconds granted to an order are those its one payment bought.
QuotaIsPaidFor ==
    \A o \in Orders :
        granted[o] = IF order[o].status = "paid"
                     THEN 60 * order[o].terms.minutes ELSE 0

\* A student has at most one undecided order for a service.
OnePendingOrder ==
    \A s \in Students, k, l \in Keys :
        Pending(<<s, k>>) /\ Pending(<<s, l>>)
            /\ order[<<s, k>>].service = order[<<s, l>>].service => k = l

\* Nobody pays for a service that needs a guardian's consent without it, and
\* consent once given is not lost.
ConsentBeforePayment ==
    \A o \in Orders :
        order[o].status = "paid" /\ order[o].terms.consent => order[o].confirmed

\* An order appears with the terms the service is on sale for at that moment,
\* for a student who may still buy.
OrderedAsOffered ==
    [][\A o \in Orders :
          order[o] = NoOrder /\ order'[o] # NoOrder =>
              /\ catalog[order'[o].service] =
                     [status |-> "active", terms |-> order'[o].terms]
              /\ o[1] \in active]_orderVars

\* Placing, cancelling and paying implement Checkout.
Phase(o) == IF Pending(o) THEN "pending" ELSE order[o].status

Promise == INSTANCE Checkout WITH
    phase <- [o \in Orders |-> Phase(o)],
    receipt <- {r \in Events \X Orders : Booked(r[1], r[2])}

KeepsCheckout == Promise!Spec
==============================================================================
