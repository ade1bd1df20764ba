------------------------------- MODULE AccessProofs ------------------------------
(***************************************************************************)
(* The components that say who may do what, side by side as in MCAccess.   *)
(* A component that is not chosen waits, which is a step its own           *)
(* specification allows: so the whole implements every part, and what is   *)
(* proved of a part for any values of its constants holds of the whole.    *)
(***************************************************************************)
EXTENDS MCAccess, CourseProofs, AccountAndTutorProofs

accessVars == <<authorityVars, teamVars, collabVars, accountVars, phoneVars,
                contentVars, profileVars, chosen>>

LEMMA AccessSteps ==
    [Next]_accessVars =>
        /\ [AuthorityNext]_authorityVars /\ [TeamNext]_teamVars /\ [CollabNext]_collabVars
        /\ [AccountsNext]_accountVars /\ [PhoneNext]_phoneVars
        /\ [ContentNext]_contentVars /\ [ProfileNext]_profileVars
        /\ UNCHANGED chosen
<1> SUFFICES ASSUME [Next]_accessVars
             PROVE  /\ [AuthorityNext]_authorityVars /\ [TeamNext]_teamVars
                    /\ [CollabNext]_collabVars
                    /\ [AccountsNext]_accountVars /\ [PhoneNext]_phoneVars
                    /\ [ContentNext]_contentVars /\ [ProfileNext]_profileVars
                    /\ UNCHANGED chosen
    OBVIOUS
<1>1. CASE Next
    <2>1. chosen = "authority" \/ UNCHANGED authorityVars
        BY <1>1 DEF Next, Waits
    <2>2. chosen = "team" \/ UNCHANGED teamVars
        BY <1>1 DEF Next, Waits
    <2>3. chosen = "collaboration" \/ UNCHANGED collabVars
        BY <1>1 DEF Next, Waits
    <2>4. chosen = "accounts" \/ UNCHANGED accountVars
        BY <1>1 DEF Next, Waits
    <2>5. chosen = "phone" \/ UNCHANGED phoneVars
        BY <1>1 DEF Next, Waits
    <2>6. chosen = "content" \/ UNCHANGED contentVars
        BY <1>1 DEF Next, Waits
    <2>7. chosen = "profile" \/ UNCHANGED profileVars
        BY <1>1 DEF Next, Waits
    <2> QED
        BY <1>1, <2>1, <2>2, <2>3, <2>4, <2>5, <2>6, <2>7 DEF Next
<1>2. CASE UNCHANGED accessVars
    BY <1>2 DEF accessVars
<1> QED
    BY <1>1, <1>2

\* Every part behaves by its own specification, whichever is chosen.
THEOREM AccessImplementsParts ==
    Spec => /\ AuthoritySpec /\ TeamSpec /\ CollabSpec /\ AccountsSpec
            /\ PhoneSpec /\ ContentSpec /\ ProfileSpec
<1>1. Init => /\ AuthorityInit /\ TeamInit /\ CollabInit /\ AccountsInit
              /\ PhoneInit /\ ContentInit /\ ProfileInit
    BY DEF Init
<1> QED
    BY <1>1, AccessSteps, PTL
    DEF Spec, accessVars, AuthoritySpec, TeamSpec, CollabSpec, AccountsSpec,
        PhoneSpec, ContentSpec, ProfileSpec

\* Rows are of their tables, for any values of the constants.
THEOREM AccessTypeCorrect == Spec => []TypeOK
<1>1. AuthorityIInv => AuthorityTypeOK
    BY DEF AuthorityIInv
<1>2. TeamIInv => TeamTypeOK
    BY DEF TeamIInv
<1>3. CollabSpec => []CollabTypeOK
    <2>1. CollabIInv => CollabTypeOK
        BY DEF CollabIInv
    <2> QED
        BY <2>1, CollabInitEstablishes, CollabStepKeeps, PTL DEF CollabSpec
<1>4. AuthorityTypeOK /\ TeamTypeOK /\ CollabTypeOK /\ AccountsTypeOK
          /\ PhoneTypeOK /\ ContentTypeOK /\ ProfileTypeOK => TypeOK
    BY DEF TypeOK
<1> QED
    BY <1>1, <1>2, <1>3, <1>4, AccessImplementsParts, AuthorityInductive, TeamInductive,
       AccountsTypeCorrect, PhoneTypeCorrect, ContentTypeCorrect, ProfileTypeCorrect, PTL

\* What the runs of MCAccess check on small instances, for every instance.
THEOREM AccessIsSafe ==
    Spec => /\ [](/\ CourseHasItsOwner /\ SessionsMatchRequests /\ ApprovedByThree
                  /\ PermissionsHold /\ ProfileIsTheStudents)
            /\ AccessFollowsAuthority /\ WritesWhileAssigned /\ RosterIsAuthorized
            /\ AcknowledgedCodeStands /\ NoHelpInExam
BY AccessImplementsParts, CoursesHaveOwners, SessionsAgree, ThreeHands, TutorIsPermitted,
   ProfileIsOwn, AccessIsAuthorized, StoredWhileAssigned, RosterIsUnderAuthority,
   AcknowledgedStays, ExamsAreSatAlone, PTL
================================================================================
