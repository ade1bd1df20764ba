-------------------------- MODULE ServiceOrdersProofs --------------------------
(***************************************************************************)
(* Theorems about ServiceOrders for any students, services, prices and     *)
(* payments, and any number of transactions side by side.                  *)
(***************************************************************************)
EXTENDS ServiceOrders, TLAPS

\* What a transaction that places an order has read still holds, and a student
\* has one such transaction at a time: the locks keep it so.
PlacingSound ==
    /\ \A r \in placing :
          /\ order[r.order] = NoOrder
          /\ catalog[r.service] = [status |-> "active", terms |-> r.terms]
          /\ NothingPending(r.order[1], r.service)
          /\ r.order[1] \in active
    /\ \A r, q \in placing : r.order[1] = q.order[1] => r = q

\* The same for transactions that capture a payment.
CapturingSound ==
    /\ \A r \in capturing :
          IF r.replay THEN order[r.order].status = "paid" ELSE Payable(r.order)
    /\ \A r, q \in capturing : r.order = q.order => r = q

IInv ==
    /\ OrdersTypeOK
    /\ PlacingSound
    /\ CapturingSound
    /\ BooksMatchOrders
    /\ QuotaIsPaidFor
    /\ OnePendingOrder
    /\ ConsentBeforePayment

Pairs == \A o \in Orders : /\ o = <<o[1], o[2]>>
                           /\ o[1] \in Students /\ o[2] \in Keys

LEMMA OrdersArePairs == Pairs
  BY DEF Pairs, Orders

\* A pending, payable or paid order is a row, with terms of the catalogue.
LEMMA RowOf ==
    ASSUME OrdersTypeOK, NEW o \in Orders, order[o].status # "none"
    PROVE  /\ order[o] \in Order
           /\ order[o].terms \in Terms
           /\ order[o].terms.price \in Nat \ {0}
           /\ order[o].terms.minutes \in Nat
<1>1. order[o] \in Order \/ order[o] = NoOrder
  BY DEF OrdersTypeOK
<1>2. order[o] \in Order
  BY <1>1 DEF NoOrder
<1>3. order[o].terms \in Terms
  BY <1>2 DEF Order
<1> QED
  BY <1>2, <1>3, PricesAssumption, MinutesAssumption DEF Terms

\* A row that takes a status of its table stays a row, with the same terms.
LEMMA StatusChanges ==
    ASSUME OrdersTypeOK, NEW o \in Orders, order[o].status # "none",
           NEW st \in {"awaiting_guardian_consent", "awaiting_payment", "paid",
                       "cancelled"},
           order' = [order EXCEPT ![o].status = st]
    PROVE  /\ order' \in [Orders -> Order \cup {NoOrder}]
           /\ order'[o].status = st
           /\ order'[o].terms = order[o].terms
           /\ order'[o].service = order[o].service
           /\ order'[o].confirmed = order[o].confirmed
           /\ \A p \in Orders \ {o} : order'[p] = order[p]
<1>1. order[o] \in Order
  BY RowOf
<1>2. [order[o] EXCEPT !.status = st] \in Order
  BY <1>1 DEF Order
<1> QED
  BY <1>1, <1>2 DEF OrdersTypeOK, Order

LEMMA InitIInv == OrdersInit => IInv
<1> SUFFICES ASSUME OrdersInit PROVE IInv
  OBVIOUS
<1>1. OrdersTypeOK
  BY DEF OrdersInit, OrdersTypeOK
<1>2. PlacingSound /\ CapturingSound
  BY DEF OrdersInit, PlacingSound, CapturingSound
<1>3. BooksMatchOrders /\ QuotaIsPaidFor
  BY DEF OrdersInit, BooksMatchOrders, QuotaIsPaidFor, Booked, NoOrder
<1>4. OnePendingOrder /\ ConsentBeforePayment
  BY OrdersArePairs DEF OrdersInit, OnePendingOrder, ConsentBeforePayment, Pending, NoOrder, Orders
<1> QED
  BY <1>1, <1>2, <1>3, <1>4 DEF IInv

(***************************************************************************)
(* The catalogue and the memberships: no order, book or capture changes,   *)
(* and the rows that open transactions have read are locked.               *)
(***************************************************************************)
LEMMA CatalogIInv ==
    ASSUME IInv, NEW v \in Services, NEW terms \in Terms,
           NEW status \in {"draft", "active", "paused"},
           CreateInstituteService(v, terms) \/ UpdateInstituteService(v, status, terms)
    PROVE  IInv'
<1>1. /\ UNCHANGED <<people, order, placing, capturing, books>>
      /\ \E st \in {"draft", "active", "paused"} :
            catalog' = [catalog EXCEPT ![v] = [status |-> st, terms |-> terms]]
  BY DEF CreateInstituteService, UpdateInstituteService
<1>2. OrdersTypeOK'
  BY <1>1 DEF IInv, OrdersTypeOK, Offer, people, books
<1>3. \A r \in placing : catalog'[r.service] = catalog[r.service]
  <2>1. SUFFICES ASSUME NEW r \in placing PROVE r.service # v
    BY <1>1 DEF IInv, OrdersTypeOK, Placing
  <2>2. catalog[r.service] # NoService
    <3>0. catalog[r.service] = [status |-> "active", terms |-> r.terms]
      BY DEF IInv, PlacingSound
    <3>1. catalog[r.service].status = "active"
      BY <3>0
    <3>2. NoService.status # "active"
      BY DEF NoService
    <3> QED
      BY <3>1, <3>2
  <2> QED
    BY <2>2 DEF CreateInstituteService, UpdateInstituteService, ServiceFree
<1>4. PlacingSound'
  BY <1>1, <1>3 DEF IInv, PlacingSound, NothingPending, Pending, people
<1>5. CapturingSound' /\ BooksMatchOrders' /\ QuotaIsPaidFor'
  BY <1>1 DEF IInv, CapturingSound, BooksMatchOrders, QuotaIsPaidFor, Payable, Booked, books
<1>6. OnePendingOrder' /\ ConsentBeforePayment'
  BY <1>1 DEF IInv, OnePendingOrder, ConsentBeforePayment, Pending
<1> QED
  BY <1>2, <1>4, <1>5, <1>6 DEF IInv

LEMMA PeopleIInv ==
    ASSUME IInv, (\E s \in Students : StudentChanges(s)) \/ StaffChanges
    PROVE  IInv'
<1>1. /\ UNCHANGED <<catalog, order, placing, capturing, books>>
      /\ active' \subseteq Students /\ staffed' \in BOOLEAN
      /\ \A r \in placing : r.order[1] \in active'
  BY DEF StudentChanges, StaffChanges, IInv, OrdersTypeOK, PlacingSound, StudentFree
<1>2. OrdersTypeOK'
  BY <1>1 DEF IInv, OrdersTypeOK, books
<1>3. PlacingSound'
  BY <1>1 DEF IInv, PlacingSound, NothingPending, Pending
<1>4. CapturingSound' /\ BooksMatchOrders' /\ QuotaIsPaidFor'
  BY <1>1 DEF IInv, CapturingSound, BooksMatchOrders, QuotaIsPaidFor, Payable, Booked, books
<1>5. OnePendingOrder' /\ ConsentBeforePayment'
  BY <1>1 DEF IInv, OnePendingOrder, ConsentBeforePayment, Pending
<1> QED
  BY <1>2, <1>3, <1>4, <1>5 DEF IInv

(***************************************************************************)
(* Placing an order.                                                       *)
(***************************************************************************)
LEMMA ReadForOrderIInv ==
    ASSUME IInv, NEW s \in Students, NEW k \in Keys, NEW v \in Services,
           ReadForOrder(s, k, v)
    PROVE  IInv'
<1> DEFINE r == [order |-> <<s, k>>, service |-> v, terms |-> catalog[v].terms]
<1>1. /\ UNCHANGED <<people, catalog, order, capturing, books>>
      /\ placing' = placing \cup {r}
  BY DEF ReadForOrder
<1>2. catalog[v] \in Offer /\ catalog[v].status = "active"
  BY DEF ReadForOrder, IInv, OrdersTypeOK, NoService
<1>3. /\ catalog[v] = [status |-> "active", terms |-> catalog[v].terms]
      /\ catalog[v].terms \in Terms
  BY <1>2 DEF Offer
<1>4. r \in Placing
  BY <1>3 DEF Placing, Orders
<1>5. OrdersTypeOK'
  BY <1>1, <1>4 DEF IInv, OrdersTypeOK, people, books
<1>6. PlacingSound'
  <2>1. \A q \in placing : q.order[1] # s
    BY DEF ReadForOrder, StudentFree
  <2>2. /\ order[r.order] = NoOrder
        /\ NothingPending(r.order[1], r.service)
        /\ r.order[1] \in active /\ r.order[1] = s
        /\ catalog[r.service] = [status |-> "active", terms |-> r.terms]
    BY <1>3 DEF ReadForOrder
  <2> HIDE DEF r
  <2> QED
    BY <1>1, <2>1, <2>2 DEF IInv, PlacingSound, NothingPending, Pending, people
<1>7. CapturingSound' /\ BooksMatchOrders' /\ QuotaIsPaidFor'
  BY <1>1 DEF IInv, CapturingSound, BooksMatchOrders, QuotaIsPaidFor, Payable, Booked, books
<1>8. OnePendingOrder' /\ ConsentBeforePayment'
  BY <1>1 DEF IInv, OnePendingOrder, ConsentBeforePayment, Pending
<1> QED
  BY <1>5, <1>6, <1>7, <1>8 DEF IInv

LEMMA AbandonIInv ==
    ASSUME IInv,
           (\E r \in placing : AbandonOrder(r)) \/ (\E r \in capturing : AbandonCapture(r))
    PROVE  IInv'
<1>1. /\ UNCHANGED <<people, catalog, order, books>>
      /\ placing' \subseteq placing /\ capturing' \subseteq capturing
  BY DEF AbandonOrder, AbandonCapture
<1>2. OrdersTypeOK'
  BY <1>1 DEF IInv, OrdersTypeOK, people, books
<1>3. PlacingSound'
  BY <1>1 DEF IInv, PlacingSound, NothingPending, Pending, people
<1>4. CapturingSound'
  BY <1>1 DEF IInv, CapturingSound, Payable
<1>5. BooksMatchOrders' /\ QuotaIsPaidFor'
  BY <1>1 DEF IInv, BooksMatchOrders, QuotaIsPaidFor, Booked, books
<1>6. OnePendingOrder' /\ ConsentBeforePayment'
  BY <1>1 DEF IInv, OnePendingOrder, ConsentBeforePayment, Pending
<1> QED
  BY <1>2, <1>3, <1>4, <1>5, <1>6 DEF IInv

LEMMA InsertOrderIInv ==
    ASSUME IInv, NEW r \in placing, InsertOrder(r)
    PROVE  IInv'
<1> DEFINE row == [status |-> IF r.terms.consent THEN "awaiting_guardian_consent"
                              ELSE "awaiting_payment",
                   service |-> r.service, terms |-> r.terms, confirmed |-> FALSE]
<1> DEFINE o == r.order
<1>1. /\ UNCHANGED <<people, catalog, capturing, books>>
      /\ placing' = placing \ {r}
      /\ order' = [order EXCEPT ![o] = row]
  BY DEF InsertOrder
<1>2. o \in Orders /\ r.service \in Services /\ r.terms \in Terms
  BY DEF IInv, OrdersTypeOK, Placing
<1>3. order[o] = NoOrder /\ NothingPending(o[1], r.service)
  BY DEF IInv, PlacingSound
<1>4. row \in Order
  BY <1>2 DEF Order
<1>5. order'[o] = row /\ \A p \in Orders \ {o} : order'[p] = order[p]
  BY <1>1, <1>2 DEF IInv, OrdersTypeOK
<1>6. OrdersTypeOK'
  BY <1>1, <1>4 DEF IInv, OrdersTypeOK, people, books
<1>7. order[o].status = "none" /\ row.status \notin {"none", "paid"}
  BY <1>3 DEF NoOrder
<1>8. row.service = r.service
  OBVIOUS
<1> HIDE DEF row
<1>9. PlacingSound'
  <2>1. ASSUME NEW q \in placing'
        PROVE  /\ q.order[1] # o[1]
               /\ q.order \in Orders
    BY <1>1 DEF IInv, PlacingSound, OrdersTypeOK, Placing
  <2>2. ASSUME NEW q \in placing'
        PROVE  \A k \in Keys : /\ <<q.order[1], k>> \in Orders
                               /\ order'[<<q.order[1], k>>] = order[<<q.order[1], k>>]
    <3>1. TAKE k \in Keys
    <3>2. <<q.order[1], k>> \in Orders
      BY <2>1 DEF Orders
    <3>3. <<q.order[1], k>> # o
      BY <2>1
    <3> QED
      BY <3>2, <3>3, <1>5
  <2>3. ASSUME NEW q \in placing'
        PROVE  /\ order'[q.order] = NoOrder
               /\ NothingPending(q.order[1], q.service)'
    <3>1. q \in placing /\ q.order # o
      BY <1>1, <2>1
    <3>2. order'[q.order] = NoOrder
      BY <3>1, <2>1, <1>5 DEF IInv, PlacingSound
    <3>3. NothingPending(q.order[1], q.service)
      BY <3>1 DEF IInv, PlacingSound
    <3> QED
      BY <3>2, <3>3, <2>2 DEF NothingPending, Pending
  <2> QED
    BY <2>3, <1>1 DEF IInv, PlacingSound, people
<1>10. CapturingSound'
  <2>1. \A q \in capturing : q.order \in Orders /\ q.order # o
    BY <1>7 DEF IInv, CapturingSound, Payable, OrdersTypeOK, Capturing
  <2> QED
    BY <2>1, <1>1, <1>5 DEF IInv, CapturingSound, Payable
<1>11. BooksMatchOrders'
  <2>1. ~ \E e \in Events : Booked(e, o)
    BY <1>2, <1>7 DEF IInv, BooksMatchOrders
  <2> QED
    BY <2>1, <1>1, <1>2, <1>5, <1>7 DEF IInv, BooksMatchOrders, Booked, books
<1>12. QuotaIsPaidFor'
  BY <1>1, <1>2, <1>5, <1>7 DEF IInv, QuotaIsPaidFor, books
<1>13. OnePendingOrder'
  <2>1. SUFFICES ASSUME NEW s \in Students, NEW k \in Keys, NEW l \in Keys,
                        Pending(<<s, k>>)', Pending(<<s, l>>)',
                        order'[<<s, k>>].service = order'[<<s, l>>].service
                 PROVE  k = l
    BY DEF OnePendingOrder
  <2>2. <<s, k>> \in Orders /\ <<s, l>> \in Orders /\ o = <<o[1], o[2]>>
    BY <1>2, OrdersArePairs DEF Orders, Pairs
  <2>3. CASE <<s, k>> # o /\ <<s, l>> # o
    BY <2>1, <2>2, <2>3, <1>5 DEF IInv, OnePendingOrder, Pending
  <2>4. CASE <<s, k>> = o /\ <<s, l>> # o
    BY <2>1, <2>2, <2>4, <1>3, <1>5, <1>8 DEF NothingPending, Pending
  <2>5. CASE <<s, l>> = o /\ <<s, k>> # o
    BY <2>1, <2>2, <2>5, <1>3, <1>5, <1>8 DEF NothingPending, Pending
  <2> QED
    BY <2>3, <2>4, <2>5, <2>2
<1>14. ConsentBeforePayment'
  BY <1>2, <1>5, <1>7 DEF IInv, ConsentBeforePayment
<1> QED
  BY <1>6, <1>9, <1>10, <1>11, <1>12, <1>13, <1>14 DEF IInv

(***************************************************************************)
(* Cancelling and consenting: a pending order takes another status, keeps  *)
(* its terms and is in nobody's hands.                                     *)
(***************************************************************************)
LEMMA DecideIInv ==
    ASSUME IInv, NEW o \in Orders, NEW row \in Order,
           OrderFree(o), Pending(o),
           row.status \in {"awaiting_payment", "cancelled"},
           row.terms = order[o].terms, row.service = order[o].service,
           order' = [order EXCEPT ![o] = row],
           UNCHANGED <<people, catalog, placing, capturing, books>>
    PROVE  IInv'
<1>1. order'[o] = row /\ \A p \in Orders \ {o} : order'[p] = order[p]
  BY DEF IInv, OrdersTypeOK
<1>2. /\ \A p \in Orders : Pending(p)' => Pending(p)
      /\ \A p \in Orders : order'[p].service = order[p].service
      /\ \A p \in Orders : order[p] = NoOrder => order'[p] = NoOrder
      /\ \A p \in Orders : order'[p].status = "paid" <=> order[p].status = "paid"
  BY <1>1 DEF Pending, NoOrder
<1>3. OrdersTypeOK'
  BY DEF IInv, OrdersTypeOK, people, books
<1>4. PlacingSound'
  <2>1. ASSUME NEW q \in placing, NEW k \in Keys
        PROVE  q.order \in Orders /\ <<q.order[1], k>> \in Orders
    BY OrdersArePairs DEF IInv, OrdersTypeOK, Placing, Pairs, Orders
  <2>2. ASSUME NEW q \in placing
        PROVE  /\ order'[q.order] = NoOrder
               /\ NothingPending(q.order[1], q.service)'
    <3>1. q.order \in Orders
      BY DEF IInv, OrdersTypeOK, Placing
    <3>2. order'[q.order] = NoOrder
      BY <3>1, <1>2 DEF IInv, PlacingSound
    <3>3. NothingPending(q.order[1], q.service)
      BY DEF IInv, PlacingSound
    <3> QED
      BY <3>2, <3>3, <2>1, <1>2 DEF NothingPending
  <2> QED
    BY <2>2 DEF IInv, PlacingSound, people
<1>5. CapturingSound'
  <2>1. \A q \in capturing : q.order \in Orders /\ q.order # o
    BY DEF OrderFree, IInv, OrdersTypeOK, Capturing
  <2> QED
    BY <2>1, <1>1 DEF IInv, CapturingSound, Payable
<1>6. BooksMatchOrders'
  BY <1>1, <1>2 DEF IInv, BooksMatchOrders, Booked, books
<1>7. QuotaIsPaidFor'
  BY <1>1, <1>2 DEF IInv, QuotaIsPaidFor, books
<1>8. OnePendingOrder'
  BY <1>2 DEF IInv, OnePendingOrder, Orders
<1>9. ConsentBeforePayment'
  BY <1>1 DEF IInv, ConsentBeforePayment
<1> QED
  BY <1>3, <1>4, <1>5, <1>6, <1>7, <1>8, <1>9 DEF IInv

LEMMA CancelIInv ==
    ASSUME IInv, NEW o \in Orders, CancelStudentServiceOrder(o)
    PROVE  IInv'
<1> DEFINE row == [order[o] EXCEPT !.status = "cancelled"]
<1>1. order[o] \in Order
  BY RowOf DEF CancelStudentServiceOrder, Pending, IInv
<1>2. /\ row \in Order /\ row.status = "cancelled"
      /\ row.terms = order[o].terms /\ row.service = order[o].service
  BY <1>1 DEF Order
<1>3. order' = [order EXCEPT ![o] = row]
  BY DEF CancelStudentServiceOrder
<1> HIDE DEF row
<1> QED
  BY <1>2, <1>3, DecideIInv DEF CancelStudentServiceOrder

LEMMA ConsentIInv ==
    ASSUME IInv, NEW o \in Orders, ConfirmGuardianConsent(o)
    PROVE  IInv'
<1> DEFINE row == [order[o] EXCEPT !.status = "awaiting_payment", !.confirmed = TRUE]
<1>1. order[o] \in Order
  BY RowOf DEF ConfirmGuardianConsent, IInv
<1>2. /\ row \in Order /\ row.status = "awaiting_payment"
      /\ row.terms = order[o].terms /\ row.service = order[o].service
  BY <1>1 DEF Order
<1>3. order' = [order EXCEPT ![o] = row]
  BY <1>1 DEF ConfirmGuardianConsent, IInv, OrdersTypeOK
<1>4. Pending(o)
  BY DEF ConfirmGuardianConsent, Pending
<1> HIDE DEF row
<1> QED
  BY <1>2, <1>3, <1>4, DecideIInv DEF ConfirmGuardianConsent

(***************************************************************************)
(* Payment.                                                                *)
(***************************************************************************)
LEMMA ReadForCaptureIInv ==
    ASSUME IInv, NEW o \in Orders, NEW e \in Events, ReadForCapture(o, e)
    PROVE  IInv'
<1> DEFINE r == [order |-> o, event |-> e, replay |-> order[o].status = "paid"]
<1>1. /\ UNCHANGED <<people, catalog, order, placing, books>>
      /\ capturing' = capturing \cup {r}
  BY DEF ReadForCapture
<1>2. r \in Capturing /\ r.order = o
  BY DEF Capturing
<1>3. OrdersTypeOK'
  BY <1>1, <1>2 DEF IInv, OrdersTypeOK, people, books
<1>4. PlacingSound'
  BY <1>1 DEF IInv, PlacingSound, NothingPending, Pending, people
<1>5. CapturingSound'
  <2>1. \A q \in capturing : q.order # o
    BY DEF ReadForCapture, OrderFree
  <2>2. IF r.replay THEN order[r.order].status = "paid" ELSE Payable(r.order)
    BY DEF ReadForCapture
  <2> HIDE DEF r
  <2> QED
    BY <1>1, <1>2, <2>1, <2>2 DEF IInv, CapturingSound, Payable
<1>6. BooksMatchOrders' /\ QuotaIsPaidFor'
  BY <1>1 DEF IInv, BooksMatchOrders, QuotaIsPaidFor, Booked, books
<1>7. OnePendingOrder' /\ ConsentBeforePayment'
  BY <1>1 DEF IInv, OnePendingOrder, ConsentBeforePayment, Pending
<1> QED
  BY <1>3, <1>4, <1>5, <1>6, <1>7 DEF IInv

\* The journal of an order holds its price, all of it, in positive entries.
LEMMA CaptureJournalIsSound ==
    ASSUME OrdersTypeOK, NEW o \in Orders, order[o].status # "none"
    PROVE  /\ CaptureJournal(o) \in Journal
           /\ CaptureJournal(o) # NoJournal
           /\ CaptureJournal(o).order = o
           /\ CaptureJournal(o).gross = 10 * order[o].terms.price
           /\ CaptureJournal(o).gross =
                  CaptureJournal(o).dena + CaptureJournal(o).institute
<1>1. order[o].terms.price \in Nat \ {0}
  BY RowOf
<1>2. CaptureJournal(o) =
        [order |-> o, gross |-> 10 * order[o].terms.price, dena |-> order[o].terms.price,
         institute |-> 10 * order[o].terms.price - order[o].terms.price]
  BY DEF CaptureJournal, Split, OrderedPrice
<1>3. CaptureJournal(o).gross # NoJournal.gross
  BY <1>1, <1>2 DEF NoJournal
<1> QED
  BY <1>1, <1>2, <1>3 DEF Journal

LEMMA BookPaymentIInv ==
    ASSUME IInv, NEW r \in capturing, BookPayment(r)
    PROVE  IInv'
<1> DEFINE o == r.order
<1> DEFINE e == r.event
<1>1. /\ UNCHANGED <<people, catalog, placing>>
      /\ capturing' = capturing \ {r}
      /\ journal' = [journal EXCEPT ![e] = CaptureJournal(o)]
      /\ journal[e] = NoJournal
      /\ order' = [order EXCEPT ![o].status = "paid"]
  BY DEF BookPayment
<1>2. o \in Orders /\ e \in Events
  BY DEF IInv, OrdersTypeOK, Capturing
<1>3. Payable(o) /\ \A q \in capturing \ {r} : q.order # o /\ q.order \in Orders
  BY DEF BookPayment, IInv, CapturingSound, OrdersTypeOK, Capturing
<1>4. order[o].status = "awaiting_payment" /\ Pending(o)
  BY <1>3 DEF Payable, Pending
<1>5. /\ order' \in [Orders -> Order \cup {NoOrder}]
      /\ order'[o].status = "paid"
      /\ order'[o].terms = order[o].terms
      /\ order'[o].service = order[o].service
      /\ order'[o].confirmed = order[o].confirmed
      /\ \A p \in Orders \ {o} : order'[p] = order[p]
  BY <1>1, <1>2, <1>4, StatusChanges DEF IInv, o
<1>6. /\ CaptureJournal(o) \in Journal
      /\ CaptureJournal(o) # NoJournal
      /\ CaptureJournal(o).order = o
      /\ CaptureJournal(o).gross = 10 * order[o].terms.price
      /\ CaptureJournal(o).gross =
             CaptureJournal(o).dena + CaptureJournal(o).institute
  BY <1>2, <1>4, CaptureJournalIsSound DEF IInv
<1>7. /\ journal'[e] = CaptureJournal(o)
      /\ \A f \in Events \ {e} : journal'[f] = journal[f]
  BY <1>1, <1>2 DEF IInv, OrdersTypeOK
<1>8. /\ granted[o] = 0
      /\ granted'[o] = 60 * order[o].terms.minutes
      /\ \A p \in Orders \ {o} : granted'[p] = granted[p]
      /\ granted' \in [Orders -> Nat]
  <2>1. order[o].terms.minutes \in Nat
    BY <1>2, <1>4, RowOf DEF IInv
  <2>2. granted[o] = 0
    BY <1>2, <1>4 DEF IInv, QuotaIsPaidFor
  <2> QED
    BY <1>2, <2>1, <2>2 DEF BookPayment, GrantPurchasedQuota, IInv, OrdersTypeOK
<1> HIDE DEF o, e
<1>9. OrdersTypeOK'
  BY <1>1, <1>5, <1>6, <1>8 DEF IInv, OrdersTypeOK, people
<1>10. PlacingSound'
  <2>1. ASSUME NEW q \in placing, NEW k \in Keys
        PROVE  q.order \in Orders /\ <<q.order[1], k>> \in Orders
    BY OrdersArePairs DEF IInv, OrdersTypeOK, Placing, Pairs, Orders
  <2>2. \A p \in Orders : Pending(p)' => Pending(p) /\ order'[p] = order[p]
    BY <1>5 DEF Pending
  <2>3. ASSUME NEW q \in placing
        PROVE  /\ order'[q.order] = NoOrder
               /\ NothingPending(q.order[1], q.service)'
    <3>1. q.order \in Orders /\ order[q.order] = NoOrder
      BY DEF IInv, OrdersTypeOK, Placing, PlacingSound
    <3>2. q.order # o
      BY <3>1, <1>4 DEF NoOrder
    <3>3. NothingPending(q.order[1], q.service)
      BY DEF IInv, PlacingSound
    <3> QED
      BY <3>1, <3>2, <3>3, <2>1, <2>2, <1>5 DEF NothingPending
  <2> QED
    BY <2>3, <1>1 DEF IInv, PlacingSound, people
<1>11. CapturingSound'
  BY <1>1, <1>3, <1>5 DEF IInv, CapturingSound, Payable
<1>12. BooksMatchOrders'
  <2>1. \A f \in Events : ~Booked(f, o)
    BY <1>2, <1>4 DEF IInv, BooksMatchOrders
  <2>2. \A f \in Events, p \in Orders : Booked(f, p)' <=>
            Booked(f, p) \/ (f = e /\ p = o)
    BY <1>1, <1>2, <1>6, <1>7 DEF Booked
  <2>3. \A p \in Orders :
            order'[p].status = "paid" <=> \E f \in Events : Booked(f, p)'
    BY <2>2, <1>2, <1>5 DEF IInv, BooksMatchOrders
  <2>4. ASSUME NEW f \in Events, NEW p \in Orders, Booked(f, p)'
        PROVE  /\ journal'[f].gross = 10 * order'[p].terms.price
               /\ journal'[f].gross = journal'[f].dena + journal'[f].institute
               /\ \A g \in Events : Booked(g, p)' => f = g
    <3>1. CASE p = o
      BY <3>1, <2>1, <2>2, <2>4, <1>5, <1>6, <1>7
    <3>2. CASE p # o
      <4>1. Booked(f, p) /\ f # e
        BY <2>2, <2>4, <3>2, <1>1 DEF Booked
      <4> QED
        BY <4>1, <3>2, <2>2, <1>5, <1>7 DEF IInv, BooksMatchOrders
    <3> QED
      BY <3>1, <3>2
  <2> QED
    BY <2>3, <2>4 DEF BooksMatchOrders
<1>13. QuotaIsPaidFor'
  BY <1>5, <1>8 DEF IInv, QuotaIsPaidFor
<1>14. OnePendingOrder'
  <2>1. \A p \in Orders : Pending(p)' => Pending(p) /\ order'[p] = order[p]
    BY <1>5 DEF Pending
  <2> QED
    BY <2>1 DEF IInv, OnePendingOrder, Orders
<1>15. ConsentBeforePayment'
  BY <1>3, <1>5 DEF IInv, ConsentBeforePayment, Payable
<1> QED
  BY <1>9, <1>10, <1>11, <1>12, <1>13, <1>14, <1>15 DEF IInv

\* A replay finds what it would write already written.
LEMMA RepeatPaymentIInv ==
    ASSUME IInv, NEW r \in capturing, RepeatPayment(r)
    PROVE  IInv' /\ granted' = granted
<1>1. /\ UNCHANGED <<people, catalog, order, placing, journal>>
      /\ capturing' \subseteq capturing
  BY DEF RepeatPayment
<1>2. granted' = granted
  <2>1. r.order \in Orders /\ order[r.order].status = "paid"
    BY DEF RepeatPayment, IInv, OrdersTypeOK, Capturing, CapturingSound
  <2>2. granted[r.order] = 60 * order[r.order].terms.minutes
    BY <2>1 DEF IInv, QuotaIsPaidFor
  <2> QED
    BY <2>1, <2>2 DEF RepeatPayment, GrantPurchasedQuota, IInv, OrdersTypeOK
<1>3. OrdersTypeOK'
  BY <1>1, <1>2 DEF IInv, OrdersTypeOK, people
<1>4. PlacingSound'
  BY <1>1 DEF IInv, PlacingSound, NothingPending, Pending, people
<1>5. CapturingSound'
  BY <1>1 DEF IInv, CapturingSound, Payable
<1>6. BooksMatchOrders' /\ QuotaIsPaidFor'
  BY <1>1, <1>2 DEF IInv, BooksMatchOrders, QuotaIsPaidFor, Booked
<1>7. OnePendingOrder' /\ ConsentBeforePayment'
  BY <1>1 DEF IInv, OnePendingOrder, ConsentBeforePayment, Pending
<1> QED
  BY <1>2, <1>3, <1>4, <1>5, <1>6, <1>7 DEF IInv

LEMMA NextIInv == IInv /\ [OrdersNext]_orderVars => IInv'
<1> SUFFICES ASSUME IInv, [OrdersNext]_orderVars PROVE IInv'
  OBVIOUS
<1>1. CASE \E v \in Services, terms \in Terms :
              \/ CreateInstituteService(v, terms)
              \/ \E status \in {"draft", "active", "paused"} :
                    UpdateInstituteService(v, status, terms)
  BY <1>1, CatalogIInv
<1>2. CASE \E s \in Students, k \in Keys, v \in Services : ReadForOrder(s, k, v)
  BY <1>2, ReadForOrderIInv
<1>3. CASE \E r \in placing : InsertOrder(r) \/ AbandonOrder(r)
  BY <1>3, InsertOrderIInv, AbandonIInv
<1>4. CASE \E o \in Orders :
              \/ CancelStudentServiceOrder(o) \/ ConfirmGuardianConsent(o)
              \/ \E e \in Events : ReadForCapture(o, e)
  BY <1>4, CancelIInv, ConsentIInv, ReadForCaptureIInv
<1>5. CASE \E r \in capturing :
              BookPayment(r) \/ RepeatPayment(r) \/ AbandonCapture(r)
  BY <1>5, BookPaymentIInv, RepeatPaymentIInv, AbandonIInv
<1>6. CASE (\E s \in Students : StudentChanges(s)) \/ StaffChanges
  BY <1>6, PeopleIInv
<1>7. CASE UNCHANGED orderVars
  BY <1>7 DEF orderVars, IInv, OrdersTypeOK, PlacingSound, CapturingSound, BooksMatchOrders,
     QuotaIsPaidFor, OnePendingOrder, ConsentBeforePayment, NothingPending, Pending,
     Payable, Booked
<1> QED
  BY <1>1, <1>2, <1>3, <1>4, <1>5, <1>6, <1>7 DEF OrdersNext

\* The inductive invariant: what the properties say, and that what an open
\* transaction has read still holds.
THEOREM Inductive == OrdersSpec => []IInv
  BY InitIInv, NextIInv, PTL DEF OrdersSpec

\* Every row is of its table and the entries of a journal are positive.
THEOREM OrdersTypeCorrect == OrdersSpec => []OrdersTypeOK
  BY Inductive, PTL DEF IInv

\* An order is paid exactly if one journal books its price in full.
THEOREM BooksAreExact == OrdersSpec => []BooksMatchOrders
  BY Inductive, PTL DEF IInv

\* An order is granted the seconds it paid for, once.
THEOREM QuotaIsGrantedOnce == OrdersSpec => []QuotaIsPaidFor
  BY Inductive, PTL DEF IInv

\* A student has one undecided order for a service, however many requests.
THEOREM OneUndecidedOrder == OrdersSpec => []OnePendingOrder
  BY Inductive, PTL DEF IInv

\* Where consent is needed, nothing is paid without it.
THEOREM ConsentComesFirst == OrdersSpec => []ConsentBeforePayment
  BY Inductive, PTL DEF IInv

(***************************************************************************)
(* How a step changes the rows of orders.                                  *)
(***************************************************************************)
\* Only an insertion and a decision change a row; the rest leave all alone.
LEMMA RowChanges ==
    ASSUME IInv, [OrdersNext]_orderVars
    PROVE  \/ \E r \in placing : InsertOrder(r)
           \/ \E o \in Orders : CancelStudentServiceOrder(o) \/ ConfirmGuardianConsent(o)
           \/ \E r \in capturing : BookPayment(r)
           \/ UNCHANGED <<order, journal>>
<1>1. CASE \E v \in Services, terms \in Terms :
              \/ CreateInstituteService(v, terms)
              \/ \E status \in {"draft", "active", "paused"} :
                    UpdateInstituteService(v, status, terms)
  BY <1>1 DEF CreateInstituteService, UpdateInstituteService, books
<1>2. CASE \E s \in Students, k \in Keys, v \in Services : ReadForOrder(s, k, v)
  BY <1>2 DEF ReadForOrder, books
<1>3. CASE \E r \in placing : AbandonOrder(r)
  BY <1>3 DEF AbandonOrder, books
<1>4. CASE \E o \in Orders, e \in Events : ReadForCapture(o, e)
  BY <1>4 DEF ReadForCapture, books
<1>5. CASE \E r \in capturing : RepeatPayment(r) \/ AbandonCapture(r)
  BY <1>5 DEF RepeatPayment, AbandonCapture, books
<1>6. CASE (\E s \in Students : StudentChanges(s)) \/ StaffChanges
  BY <1>6 DEF StudentChanges, StaffChanges, books
<1>7. CASE UNCHANGED orderVars
  BY <1>7 DEF orderVars
<1> QED
  BY <1>1, <1>2, <1>3, <1>4, <1>5, <1>6, <1>7 DEF OrdersNext

\* Inserting, cancelling, consenting and paying change one row each.
LEMMA InsertedRow ==
    ASSUME IInv, NEW r \in placing, InsertOrder(r)
    PROVE  /\ r.order \in Orders /\ UNCHANGED journal
           /\ order[r.order] = NoOrder
           /\ order'[r.order].terms = r.terms /\ order'[r.order].service = r.service
           /\ Pending(r.order)'
           /\ \A p \in Orders \ {r.order} : order'[p] = order[p]
  BY DEF InsertOrder, IInv, OrdersTypeOK, Placing, PlacingSound, Pending, books

LEMMA DecidedRow ==
    ASSUME IInv, NEW o \in Orders,
           CancelStudentServiceOrder(o) \/ ConfirmGuardianConsent(o)
    PROVE  /\ Pending(o) /\ UNCHANGED journal
           /\ order'[o].status = IF CancelStudentServiceOrder(o) THEN "cancelled"
                                 ELSE "awaiting_payment"
           /\ \A p \in Orders \ {o} : order'[p] = order[p]
<1>1. order[o] \in Order
  BY RowOf DEF CancelStudentServiceOrder, ConfirmGuardianConsent, Pending, IInv
<1>2. CASE CancelStudentServiceOrder(o)
  BY <1>1, <1>2 DEF CancelStudentServiceOrder, IInv, OrdersTypeOK, Order, books
<1>3. CASE ConfirmGuardianConsent(o) /\ ~CancelStudentServiceOrder(o)
  <2>1. [order[o] EXCEPT !.status = "awaiting_payment", !.confirmed = TRUE].status
            = "awaiting_payment"
    BY <1>1 DEF Order
  <2>2. order' = [order EXCEPT ![o] =
            [order[o] EXCEPT !.status = "awaiting_payment", !.confirmed = TRUE]]
    BY <1>3, <1>1 DEF ConfirmGuardianConsent, IInv, OrdersTypeOK
  <2> QED
    BY <1>3, <2>1, <2>2 DEF ConfirmGuardianConsent, IInv, OrdersTypeOK, Pending, books
<1> QED
  BY <1>2, <1>3

LEMMA PaidRow ==
    ASSUME IInv, NEW r \in capturing, BookPayment(r)
    PROVE  /\ r.order \in Orders /\ r.event \in Events
           /\ Pending(r.order)
           /\ order'[r.order].status = "paid"
           /\ \A p \in Orders \ {r.order} : order'[p] = order[p]
           /\ \A f \in Events, p \in Orders : Booked(f, p)' <=>
                  Booked(f, p) \/ (f = r.event /\ p = r.order)
           /\ \A p \in Orders : ~Booked(r.event, p)
<1>1. r.order \in Orders /\ r.event \in Events /\ Payable(r.order)
  BY DEF BookPayment, IInv, OrdersTypeOK, Capturing, CapturingSound
<1>2. Pending(r.order) /\ order[r.order].status # "none"
  BY <1>1 DEF Payable, Pending
<1>3. /\ order'[r.order].status = "paid"
      /\ \A p \in Orders \ {r.order} : order'[p] = order[p]
  BY <1>1, <1>2, StatusChanges DEF BookPayment, IInv
<1>4. CaptureJournal(r.order) # NoJournal /\ CaptureJournal(r.order).order = r.order
  BY <1>1, <1>2, CaptureJournalIsSound DEF IInv
<1>5. /\ journal[r.event] = NoJournal
      /\ journal'[r.event] = CaptureJournal(r.order)
      /\ \A f \in Events \ {r.event} : journal'[f] = journal[f]
  BY <1>1 DEF BookPayment, IInv, OrdersTypeOK
<1> QED
  BY <1>1, <1>2, <1>3, <1>4, <1>5 DEF Booked

\* The terms of an order are those on sale in the step that inserts it.
LEMMA OfferStep ==
    ASSUME IInv, [OrdersNext]_orderVars, NEW o \in Orders,
           order[o] = NoOrder, order'[o] # NoOrder
    PROVE  /\ catalog[order'[o].service] =
                  [status |-> "active", terms |-> order'[o].terms]
           /\ o[1] \in active
<1>1. CASE \E r \in placing : InsertOrder(r)
  <2>1. PICK r \in placing : InsertOrder(r)
    BY <1>1
  <2>2. r.order = o
    BY <2>1, InsertedRow
  <2>3. order'[o].terms = r.terms /\ order'[o].service = r.service
    BY <2>1, <2>2, InsertedRow
  <2> QED
    BY <2>2, <2>3 DEF IInv, PlacingSound
<1>2. CASE \E p \in Orders : CancelStudentServiceOrder(p) \/ ConfirmGuardianConsent(p)
  BY <1>2, DecidedRow DEF Pending, NoOrder
<1>3. CASE \E r \in capturing : BookPayment(r)
  BY <1>3, PaidRow DEF Pending, NoOrder
<1>4. CASE UNCHANGED order
  BY <1>4
<1> QED
  BY <1>1, <1>2, <1>3, <1>4, RowChanges

\* The price, minutes and consent rule of an order are those on sale when it is
\* made, although the catalogue may change between its read and its insertion.
THEOREM OffersAreCurrent == OrdersSpec => OrderedAsOffered
<1>1. IInv /\ [OrdersNext]_orderVars =>
        [\A o \in Orders :
            order[o] = NoOrder /\ order'[o] # NoOrder =>
                /\ catalog[order'[o].service] =
                       [status |-> "active", terms |-> order'[o].terms]
                /\ o[1] \in active]_orderVars
  BY OfferStep
<1> QED
  BY <1>1, Inductive, PTL DEF OrdersSpec, OrderedAsOffered

(***************************************************************************)
(* The refinement.                                                         *)
(***************************************************************************)
Phases == [o \in Orders |-> Phase(o)]
Receipts == {r \in Events \X Orders : Booked(r[1], r[2])}

LEMMA InitImplements == OrdersInit => Promise!Init
<1> SUFFICES ASSUME OrdersInit PROVE Promise!Init
  OBVIOUS
<1>1. \A o \in Orders : Phase(o) = "none"
  BY DEF OrdersInit, Phase, Pending, NoOrder
<1>2. \A e \in Events, o \in Orders : ~Booked(e, o)
  BY DEF OrdersInit, Booked
<1> QED
  BY <1>1, <1>2 DEF Promise!Init

\* Every step places, cancels or pays one order, or changes nothing that
\* Checkout sees.
LEMMA StepImplements ==
    ASSUME IInv, [OrdersNext]_orderVars
    PROVE  [Promise!Next]_(Promise!vars)
<1>1. CASE \E r \in placing : InsertOrder(r)
  <2>1. PICK r \in placing : InsertOrder(r)
    BY <1>1
  <2>2. /\ r.order \in Orders
        /\ Phase(r.order) = "none" /\ Phase(r.order)' = "pending"
        /\ \A p \in Orders \ {r.order} : Phase(p)' = Phase(p)
    BY <2>1, InsertedRow DEF Phase, Pending, NoOrder
  <2>3. Receipts' = Receipts
    BY <2>1, InsertedRow DEF Receipts, Booked
  <2>4. Phases' = [Phases EXCEPT ![r.order] = "pending"]
    BY <2>2 DEF Phases
  <2>5. Promise!Place(r.order)
    BY <2>2, <2>3, <2>4 DEF Promise!Place, Phases, Receipts
  <2> QED
    BY <2>2, <2>5 DEF Promise!Next
<1>2. CASE \E o \in Orders : CancelStudentServiceOrder(o) \/ ConfirmGuardianConsent(o)
  <2>1. PICK o \in Orders : CancelStudentServiceOrder(o) \/ ConfirmGuardianConsent(o)
    BY <1>2
  <2>2. /\ Phase(o) = "pending"
        /\ \A p \in Orders \ {o} : Phase(p)' = Phase(p)
    BY <2>1, DecidedRow DEF Phase, Pending
  <2>3. Receipts' = Receipts
    BY <2>1, DecidedRow DEF Receipts, Booked
  <2>4. CASE CancelStudentServiceOrder(o)
    <3>1. Phase(o)' = "cancelled"
      BY <2>1, <2>4, DecidedRow DEF Phase, Pending
    <3>2. Phases' = [Phases EXCEPT ![o] = "cancelled"]
      BY <2>2, <3>1 DEF Phases
    <3>3. Promise!Cancel(o)
      BY <2>2, <2>3, <3>2 DEF Promise!Cancel, Phases, Receipts
    <3> QED
      BY <3>3 DEF Promise!Next
  <2>5. CASE ~CancelStudentServiceOrder(o)
    <3>1. Phase(o)' = "pending"
      BY <2>1, <2>5, DecidedRow DEF Phase, Pending
    <3>2. Phases' = Phases
      BY <2>2, <3>1 DEF Phases
    <3> QED
      BY <2>3, <3>2 DEF Promise!vars, Phases, Receipts
  <2> QED
    BY <2>4, <2>5
<1>3. CASE \E r \in capturing : BookPayment(r)
  <2>1. PICK r \in capturing : BookPayment(r)
    BY <1>3
  <2>2. /\ r.order \in Orders /\ r.event \in Events
        /\ Phase(r.order) = "pending" /\ Phase(r.order)' = "paid"
        /\ \A p \in Orders \ {r.order} : Phase(p)' = Phase(p)
    BY <2>1, PaidRow DEF Phase, Pending
  <2>3. Receipts' = Receipts \cup {<<r.event, r.order>>}
    BY <2>1, <2>2, PaidRow DEF Receipts
  <2>4. \A q \in Receipts : q[1] # r.event
    BY <2>1, PaidRow DEF Receipts
  <2>5. Phases' = [Phases EXCEPT ![r.order] = "paid"]
    BY <2>2 DEF Phases
  <2>6. Promise!Pay(r.order, r.event)
    BY <2>2, <2>3, <2>4, <2>5 DEF Promise!Pay, Phases, Receipts
  <2> QED
    BY <2>2, <2>6 DEF Promise!Next
<1>4. CASE UNCHANGED <<order, journal>>
  BY <1>4 DEF Promise!vars, Phase, Pending, Booked
<1> QED
  BY <1>1, <1>2, <1>3, <1>4, RowChanges

\* Buying implements Checkout: an order is placed once and then paid by one
\* payment of its own or cancelled, for ever.
THEOREM CheckoutIsKept == OrdersSpec => KeepsCheckout
<1>1. IInv /\ [OrdersNext]_orderVars => [Promise!Next]_(Promise!vars)
  BY StepImplements
<1> QED
  BY <1>1, InitImplements, Inductive, PTL DEF OrdersSpec, KeepsCheckout, Promise!Spec
==============================================================================
