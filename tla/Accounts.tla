------------------------------- MODULE Accounts -------------------------------
(***************************************************************************)
(* Accounts, the numbers they are reached at, and the ways into them: the  *)
(* first sign-in with a number, an organisation's roster, a student's      *)
(* change of number and an application for another role.  The e-mail of an *)
(* account is derived once, from the number it was created with, and is    *)
(* unique like the number.                                                 *)
(*                                                                         *)
(* An organisation fills its roster by hand or through a key; a call with  *)
(* a key finds the key before its transaction and checks it again in it.   *)
(***************************************************************************)
EXTENDS Naturals, FiniteSets

CONSTANTS
    Accounts,  \* rows of user
    Numbers,   \* mobile numbers
    Codes,     \* national codes
    ApiKeys    \* keys of the organisation

ByHand == "by hand"
ASSUME ByHandAssumption == ByHand \notin ApiKeys

NoAccount == [phone |-> "none"]
Account == [phone : Numbers, mail : Numbers, verified : BOOLEAN]
RosterRow == [account : Accounts, code : Codes, key : ApiKeys \cup {ByHand}]
RosterCall == [key : ApiKeys, number : Numbers, code : Codes]

VARIABLES
    account,     \* the accounts
    student,     \* status of the student membership of each
    application, \* status of the application of each for another role
    roster,      \* the organisation's students
    apiKey,      \* status of each key
    orgMember,   \* is the membership of the organisation's member active?
    apiCalls     \* calls that have found their key

accountVars == <<account, student, application, roster, apiKey, orgMember, apiCalls>>

AccountsInit ==
    /\ account = [u \in Accounts |-> NoAccount]
    /\ student = [u \in Accounts |-> "none"]
    /\ application = [u \in Accounts |-> "none"]
    /\ roster = {} /\ apiCalls = {}
    /\ apiKey = [k \in ApiKeys |-> "none"]
    /\ orgMember = TRUE

Opened == {u \in Accounts : account[u] # NoAccount}

ReachedAt(n) == {u \in Opened : account[u].phone = n}
MailFree(n) == \A u \in Opened : account[u].mail # n

\* The row a new account takes.
NewAccount(u, n, verified) ==
    /\ u \notin Opened /\ ReachedAt(n) = {} /\ MailFree(n)
    /\ account' = [account EXCEPT ![u] = [phone |-> n, mail |-> n, verified |-> verified]]

(***************************************************************************)
(* Signing in and changing the number.                                     *)
(***************************************************************************)
VerifyNumber(n) ==
    /\ \/ \E u \in ReachedAt(n) : account' = [account EXCEPT ![u].verified = TRUE]
       \/ \E u \in Accounts : NewAccount(u, n, TRUE)
    /\ UNCHANGED <<student, application, roster, apiKey, orgMember, apiCalls>>

Onboard(u) ==
    /\ u \in Opened /\ account[u].verified /\ student[u] = "none"
    /\ student' = [student EXCEPT ![u] = "active"]
    /\ UNCHANGED <<account, application, roster, apiKey, orgMember, apiCalls>>

MoveNumber(u, n) ==
    /\ u \in Opened /\ account[u].verified /\ student[u] = "active"
    /\ account[u].phone # n /\ ReachedAt(n) = {}
    /\ account' = [account EXCEPT ![u].phone = n]
    /\ UNCHANGED <<student, application, roster, apiKey, orgMember, apiCalls>>

(***************************************************************************)
(* The roster of an organisation.                                          *)
(***************************************************************************)
OnRoster(u, code) == \E row \in roster : row.account = u \/ row.code = code

MayStudy(u) == student[u] \in {"none", "active"}

Enters(u, code, key) ==
    /\ ~OnRoster(u, code) /\ MayStudy(u)
    /\ student' = [student EXCEPT ![u] = "active"]
    /\ roster' = roster \cup {[account |-> u, code |-> code, key |-> key]}

CreateOrganizationStudent(n, code, key) ==
    /\ orgMember
    /\ \E u \in Accounts :
          /\ \/ u \in ReachedAt(n) /\ UNCHANGED account
             \/ NewAccount(u, n, FALSE)
          /\ Enters(u, code, key)
    /\ UNCHANGED <<application, apiKey, orgMember>>

CreateByHand(n, code) ==
    CreateOrganizationStudent(n, code, ByHand) /\ UNCHANGED apiCalls

AuthenticateOrganizationApiKey(k, n, code) ==
    /\ apiKey[k] = "active"
    /\ apiCalls' = apiCalls \cup {[key |-> k, number |-> n, code |-> code]}
    /\ UNCHANGED <<account, student, application, roster, apiKey, orgMember>>

\* Fault: the key is not looked at again.
KeyOnceValid(c) == TRUE

KeyStillValid(c) == apiKey[c.key] = "active"

CreateByKey(c) ==
    /\ KeyStillValid(c)
    /\ CreateOrganizationStudent(c.number, c.code, c.key)
    /\ apiCalls' = apiCalls \ {c}

ApiCallEnds(c) ==
    /\ apiCalls' = apiCalls \ {c}
    /\ UNCHANGED <<account, student, application, roster, apiKey, orgMember>>

DeleteOrganizationStudent(row) ==
    /\ orgMember
    /\ roster' = roster \ {row}
    /\ UNCHANGED <<account, student, application, apiKey, orgMember, apiCalls>>

CreateOrganizationApiKey(k) ==
    /\ orgMember /\ apiKey[k] = "none"
    /\ \/ apiKey' = [apiKey EXCEPT ![k] = "active"]
       \/ \E old \in ApiKeys :
             /\ apiKey[old] = "active"
             /\ apiKey' = [apiKey EXCEPT ![old] = "revoked", ![k] = "active"]
    /\ UNCHANGED <<account, student, application, roster, orgMember, apiCalls>>

RevokeOrganizationApiKey(k) ==
    /\ orgMember /\ apiKey[k] = "active"
    /\ apiKey' = [apiKey EXCEPT ![k] = "revoked"]
    /\ UNCHANGED <<account, student, application, roster, orgMember, apiCalls>>

(***************************************************************************)
(* Another role.                                                           *)
(***************************************************************************)
ApplyForRole(u) ==
    /\ u \in Opened /\ account[u].verified /\ application[u] = "none"
    /\ application' = [application EXCEPT ![u] = "pending"]
    /\ UNCHANGED <<account, student, roster, apiKey, orgMember, apiCalls>>

ReviewRoleApplication(u, status) ==
    /\ application[u] = "pending"
    /\ status = "approved" => account[u].verified
    /\ application' = [application EXCEPT ![u] = status]
    /\ UNCHANGED <<account, student, roster, apiKey, orgMember, apiCalls>>

(***************************************************************************)
(* Memberships that are suspended and restored.                            *)
(***************************************************************************)
StudentSuspended(u) ==
    /\ student[u] # "none"
    /\ student' = [student EXCEPT ![u] = IF @ = "active" THEN "suspended" ELSE "active"]
    /\ UNCHANGED <<account, application, roster, apiKey, orgMember, apiCalls>>

OrgMemberChanges ==
    /\ orgMember' = ~orgMember
    /\ UNCHANGED <<account, student, application, roster, apiKey, apiCalls>>

AccountsNext ==
    \/ \E n \in Numbers :
          \/ VerifyNumber(n)
          \/ \E code \in Codes :
                \/ CreateByHand(n, code)
                \/ \E k \in ApiKeys : AuthenticateOrganizationApiKey(k, n, code)
    \/ \E u \in Accounts :
          \/ Onboard(u) \/ ApplyForRole(u) \/ StudentSuspended(u)
          \/ \E n \in Numbers : MoveNumber(u, n)
          \/ \E status \in {"approved", "rejected"} : ReviewRoleApplication(u, status)
    \/ \E c \in apiCalls : CreateByKey(c) \/ ApiCallEnds(c)
    \/ \E row \in roster : DeleteOrganizationStudent(row)
    \/ \E k \in ApiKeys : CreateOrganizationApiKey(k) \/ RevokeOrganizationApiKey(k)
    \/ OrgMemberChanges

AccountsSpec == AccountsInit /\ [][AccountsNext]_accountVars
------------------------------------------------------------------------------
(***************************************************************************)
(* Properties.                                                             *)
(***************************************************************************)
\* Every row is of its table; numbers and e-mails are unique.
AccountsTypeOK ==
    /\ account \in [Accounts -> Account \cup {NoAccount}]
    /\ student \in [Accounts -> {"none", "active", "suspended"}]
    /\ application \in [Accounts -> {"none", "pending", "approved", "rejected"}]
    /\ roster \subseteq RosterRow
    /\ apiKey \in [ApiKeys -> {"none", "active", "revoked"}]
    /\ orgMember \in BOOLEAN /\ apiCalls \subseteq RosterCall
    /\ \A u, v \in Opened : u # v =>
          account[u].phone # account[v].phone /\ account[u].mail # account[v].mail

\* A row enters the roster under a membership and, through a key, under a key that
\* are in force at that step; it names a person and a national code the roster has
\* not yet, and brings no suspended student back.
RosterIsAuthorized ==
    [][\A row \in roster' \ roster :
          /\ orgMember /\ (row.key # ByHand => apiKey[row.key] = "active")
          /\ ~OnRoster(row.account, row.code)
          /\ student[row.account] # "suspended"]_accountVars

\* A number no account has opens an account for whoever signs in with it.
NewNumberOpensAccount == \A n \in Numbers : ReachedAt(n) = {} => MailFree(n)
================================================================================
