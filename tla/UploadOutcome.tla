---------------------------- MODULE UploadOutcome ----------------------------
(***************************************************************************)
(* What the video pipeline promises about one upload, with no queues,      *)
(* leases, handlers or clocks.  An upload is open until it is either       *)
(* published, for good and with its bytes kept, or discarded; a discarded  *)
(* upload may later be declared erased, and from then on the origin holds  *)
(* no bytes for it and never will again.                                   *)
(***************************************************************************)
CONSTANT Requests
VARIABLES outcome, bytes

outcomeVars == <<outcome, bytes>>

Init ==
    /\ outcome = [r \in Requests |-> "open"]
    /\ bytes = {}

\* Bytes may arrive late, even for an upload that was given up.
Store(r) ==
    /\ outcome[r] \in {"open", "discarded"}
    /\ bytes' = bytes \cup {r}
    /\ UNCHANGED outcome

Publish(r) ==
    /\ outcome[r] = "open"
    /\ r \in bytes
    /\ outcome' = [outcome EXCEPT ![r] = "published"]
    /\ UNCHANGED bytes

Discard(S) ==
    /\ \A r \in S : outcome[r] = "open"
    /\ outcome' = [r \in Requests |->
                      IF r \in S THEN "discarded" ELSE outcome[r]]
    /\ UNCHANGED bytes

Remove(r) ==
    /\ outcome[r] = "discarded"
    /\ bytes' = bytes \ {r}
    /\ UNCHANGED outcome

Erase(r) ==
    /\ outcome[r] = "discarded"
    /\ r \notin bytes
    /\ outcome' = [outcome EXCEPT ![r] = "erased"]
    /\ UNCHANGED bytes

Next ==
    \/ \E r \in Requests : Store(r) \/ Publish(r) \/ Remove(r) \/ Erase(r)
    \/ \E S \in SUBSET Requests : Discard(S)

Spec == Init /\ [][Next]_outcomeVars
==============================================================================
