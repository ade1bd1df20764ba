---------------------------- MODULE Collaborations ----------------------------
(***************************************************************************)
(* A provider asks an institute for a collaboration.  A member of the      *)
(* institute passes it on to Dena or rejects it, an administrator of Dena  *)
(* approves or rejects it, and until the institute has decided the member  *)
(* who asked may withdraw it.  Every step is one transaction that holds    *)
(* the row.                                                                *)
(***************************************************************************)
EXTENDS Naturals, FiniteSets

CONSTANTS
    Persons,        \* may belong to the provider, to the institute and to Dena
    Collaborations, \* rows, by the request id of the client, unique per provider
    MaxParties      \* bound on the parties of one person

Party == {"provider", "institute", "admin"}
NoOne == "no one"
ASSUME NoOneAssumption == NoOne \notin Persons /\ MaxParties \in Nat

NoCollaboration == [status |-> "none"]
Collaboration ==
    [status : {"requested", "awaiting_dena", "approved", "institute_rejected",
               "dena_rejected"},
     withdrawn : BOOLEAN, requester : Persons,
     reviewer : Persons \cup {NoOne}, dena : Persons \cup {NoOne}]

VARIABLES
    serving,  \* the memberships each person has, and those that are active
    collab

collabVars == <<serving, collab>>

CollabInit ==
    /\ serving \in {s \in [Persons -> [held : SUBSET Party, active : SUBSET Party]] :
                       \A p \in Persons : s[p].active = s[p].held
                                          /\ Cardinality(s[p].held) <= MaxParties}
    /\ collab = [k \in Collaborations |-> NoCollaboration]

Serves(p, party) == party \in serving[p].active
Held(p, party) == party \in serving[p].held

Asked == {k \in Collaborations : collab[k] # NoCollaboration}

\* The rows the unique index of the pair counts.
Live == {k \in Asked : /\ ~collab[k].withdrawn
                       /\ collab[k].status \in {"requested", "awaiting_dena", "approved"}}

\* Fault: a withdrawn request can still be decided.
DecidableLater(k) == collab[k].status = "requested"

Decidable(k) == collab[k].status = "requested" /\ ~collab[k].withdrawn

\* Sent again, the request finds its row and changes nothing.
CreateProviderCollaboration(p, k) ==
    /\ Serves(p, "provider")
    /\ \E i \in Persons \ {p} : Serves(i, "institute") /\ ~Held(i, "provider")
    /\ k \notin Asked /\ Live = {}
    /\ collab' = [collab EXCEPT ![k] =
           [status |-> "requested", withdrawn |-> FALSE, requester |-> p,
            reviewer |-> NoOne, dena |-> NoOne]]
    /\ UNCHANGED serving

WithdrawProviderCollaboration(p, k) ==
    /\ Serves(p, "provider") /\ collab[k].requester = p
    /\ Decidable(k)
    /\ collab' = [collab EXCEPT ![k].withdrawn = TRUE]
    /\ UNCHANGED serving

DecideInstituteCollaboration(p, k, status) ==
    /\ Serves(p, "institute")
    /\ ~Held(p, "provider") /\ collab[k].requester # p
    /\ Decidable(k)
    /\ collab' = [collab EXCEPT ![k].status = status, ![k].reviewer = p]
    /\ UNCHANGED serving

Independent(p, k) ==
    /\ ~Held(p, "provider") /\ ~Held(p, "institute")
    /\ collab[k].requester # p /\ collab[k].reviewer # p

DecideDenaCollaboration(p, k, status) ==
    /\ Serves(p, "admin") /\ Independent(p, k)
    /\ collab[k].status = "awaiting_dena"
    /\ collab' = [collab EXCEPT ![k].status = status, ![k].dena = p]
    /\ UNCHANGED serving

ServiceChanges(p, party) ==
    /\ Held(p, party)
    /\ serving' = [serving EXCEPT ![p].active =
           IF party \in @ THEN @ \ {party} ELSE @ \cup {party}]
    /\ UNCHANGED collab

CollabNext == \E p \in Persons :
    \/ \E k \in Collaborations : CreateProviderCollaboration(p, k)
    \/ \E k \in Asked :
          \/ WithdrawProviderCollaboration(p, k)
          \/ \E status \in {"awaiting_dena", "institute_rejected"} :
                DecideInstituteCollaboration(p, k, status)
          \/ \E status \in {"approved", "dena_rejected"} :
                DecideDenaCollaboration(p, k, status)
    \/ \E party \in Party : ServiceChanges(p, party)

CollabSpec == CollabInit /\ [][CollabNext]_collabVars
------------------------------------------------------------------------------
(***************************************************************************)
(* Properties.                                                             *)
(***************************************************************************)
\* Every row is of its table.
CollabTypeOK ==
    /\ serving \in [Persons -> [held : SUBSET Party, active : SUBSET Party]]
    /\ collab \in [Collaborations -> Collaboration \cup {NoCollaboration}]

\* Provider and institute have at most one collaboration under way or in force, what
\* was withdrawn never comes into force, and what is in force went through the hands
\* of three different people.
ApprovedByThree ==
    /\ Cardinality(Live) <= 1
    /\ \A k \in Asked :
          /\ collab[k].withdrawn => collab[k].status = "requested"
          /\ collab[k].status = "approved" =>
                /\ Cardinality({collab[k].requester, collab[k].reviewer, collab[k].dena}) = 3
                /\ NoOne \notin {collab[k].reviewer, collab[k].dena}
                /\ ~Held(collab[k].dena, "institute")
================================================================================
