------------------------------- MODULE MCServices -------------------------------
(***************************************************************************)
(* Small instances for TLC of what students buy and use: service orders,   *)
(* and the calls of one paid order.  They share no state: a behaviour      *)
(* chooses one of them and leaves the other where it starts.               *)
(***************************************************************************)
EXTENDS ServiceOrders, ServiceCalls, TLC

VARIABLE chosen

ServicesInit == OrdersInit /\ Init /\ chosen \in {"orders", "calls"}

ServicesNext ==
    /\ UNCHANGED chosen
    /\ \/ chosen = "orders" /\ OrdersNext /\ UNCHANGED vars
       \/ chosen = "calls" /\ Next /\ UNCHANGED orderVars

ServicesSpec == ServicesInit /\ [][ServicesNext]_<<orderVars, vars, chosen>>

Symmetry == Permutations(Keys) \cup Permutations(Events) \cup Permutations(Calls)
================================================================================
