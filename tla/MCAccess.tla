------------------------------- MODULE MCAccess -------------------------------
(***************************************************************************)
(* Small instances for TLC of the components that say who may do what:     *)
(* courses and their teams, collaborations, accounts and their numbers,    *)
(* what the tutor may quote and keep.  They share no state: a behaviour    *)
(* chooses one of them and leaves the others where they start.             *)
(***************************************************************************)
EXTENDS CourseAuthority, CourseTeam, Collaborations, Accounts, PhoneChange,
        TutorContent, TutorProfile, TLC

VARIABLE chosen

NoOneServes == \A p \in Persons : serving[p].held = {}

Init ==
    /\ AuthorityInit /\ TeamInit /\ CollabInit /\ AccountsInit /\ PhoneInit
    /\ ContentInit /\ ProfileInit
    /\ chosen \in {"authority", "team", "collaboration", "accounts", "phone",
                   "content", "profile"}
    /\ chosen # "collaboration" => NoOneServes
    /\ chosen # "profile" => quotable = {}

Waits(component, variables) == chosen # component => UNCHANGED variables

Next ==
    /\ UNCHANGED chosen
    /\ Waits("authority", authorityVars) /\ Waits("team", teamVars)
    /\ Waits("collaboration", collabVars) /\ Waits("accounts", accountVars)
    /\ Waits("phone", phoneVars)
    /\ Waits("content", contentVars) /\ Waits("profile", profileVars)
    /\ \/ chosen = "authority" /\ AuthorityNext
       \/ chosen = "team" /\ TeamNext
       \/ chosen = "collaboration" /\ CollabNext
       \/ chosen = "accounts" /\ AccountsNext
       \/ chosen = "phone" /\ PhoneNext
       \/ chosen = "content" /\ ContentNext
       \/ chosen = "profile" /\ ProfileNext

Spec ==
    Init /\ [][Next]_<<authorityVars, teamVars, collabVars, accountVars, phoneVars,
                      contentVars, profileVars, chosen>>

\* Every row is of its table.
TypeOK ==
    /\ AuthorityTypeOK /\ TeamTypeOK /\ CollabTypeOK /\ AccountsTypeOK
    /\ PhoneTypeOK /\ ContentTypeOK /\ ProfileTypeOK

Symmetry == Permutations(Courses)
================================================================================
