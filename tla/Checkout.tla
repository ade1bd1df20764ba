-------------------------------- MODULE Checkout --------------------------------
(***************************************************************************)
(* What buying promises, whatever the catalogue, consents and locks do: an *)
(* order is placed once, then either paid for with a payment of its own or *)
(* cancelled, and stays so.  A payment pays for one order, for ever.       *)
(***************************************************************************)
CONSTANTS
    Orders,     \* every order that may ever be placed
    Events      \* payments reported by the gateway

VARIABLES
    phase,      \* "none", "pending", "paid" or "cancelled"
    receipt     \* pairs <<payment, order>> that are booked

vars == <<phase, receipt>>

Init ==
    /\ phase = [o \in Orders |-> "none"]
    /\ receipt = {}

Place(o) ==
    /\ phase[o] = "none"
    /\ phase' = [phase EXCEPT ![o] = "pending"]
    /\ UNCHANGED receipt

Cancel(o) ==
    /\ phase[o] = "pending"
    /\ phase' = [phase EXCEPT ![o] = "cancelled"]
    /\ UNCHANGED receipt

Pay(o, e) ==
    /\ phase[o] = "pending"
    /\ \A r \in receipt : r[1] # e
    /\ phase' = [phase EXCEPT ![o] = "paid"]
    /\ receipt' = receipt \cup {<<e, o>>}

Next ==
    \E o \in Orders : Place(o) \/ Cancel(o) \/ \E e \in Events : Pay(o, e)

Spec == Init /\ [][Next]_vars
==============================================================================
