-------------------------- MODULE AccountAndTutorProofs --------------------------
(***************************************************************************)
(* Proofs about how people are reached and what the tutor may tell and     *)
(* keep of them: Accounts, PhoneChange, TutorContent and TutorProfile.     *)
(***************************************************************************)
EXTENDS Accounts, PhoneChange, TutorContent, TutorProfile, FiniteSetTheorems, TLAPS

--------------------------------------------------------------------------------
(***************************************************************************)
(* Accounts, for any accounts, numbers, national codes and keys.           *)
(***************************************************************************)
LEMMA AccountsAreThere == \A a \in Account : a # NoAccount
BY DEF Account, NoAccount

\* A step that writes one account: a new one, or one that was there and keeps its
\* e-mail.
LEMMA WriteAccount ==
    ASSUME AccountsTypeOK, NEW u \in Accounts, NEW row \in Account,
           account' = [account EXCEPT ![u] = row],
           \A v \in Opened \ {u} : account[v].phone # row.phone /\ account[v].mail # row.mail
    PROVE  /\ account' \in [Accounts -> Account \cup {NoAccount}]
           /\ \A v, w \in Opened' : v # w =>
                 account'[v].phone # account'[w].phone /\ account'[v].mail # account'[w].mail
<1>1. \A v \in Accounts : account'[v] = IF v = u THEN row ELSE account[v]
    BY DEF AccountsTypeOK
<1>2. Opened' \subseteq Opened \cup {u}
    BY <1>1 DEF Opened
<1>3. account' \in [Accounts -> Account \cup {NoAccount}]
    BY DEF AccountsTypeOK
<1>4. u \in Accounts /\ Opened \subseteq Accounts
    BY DEF Opened
<1>5. ASSUME NEW v \in Opened', NEW w \in Opened', v # w
      PROVE  account'[v].phone # account'[w].phone /\ account'[v].mail # account'[w].mail
    <2>1. CASE v # u /\ w # u
        BY <1>1, <1>2, <1>4, <1>5, <2>1 DEF AccountsTypeOK
    <2>2. CASE v = u
        BY <1>1, <1>2, <1>4, <1>5, <2>2
    <2>3. CASE w = u
        BY <1>1, <1>2, <1>4, <1>5, <2>3
    <2> QED
        BY <2>1, <2>2, <2>3
<1> QED
    BY <1>3, <1>5

LEMMA NewAccountKeeps ==
    ASSUME AccountsTypeOK, NEW u \in Accounts, NEW n \in Numbers, NEW b \in BOOLEAN,
           NewAccount(u, n, b)
    PROVE  /\ account' \in [Accounts -> Account \cup {NoAccount}]
           /\ \A v, w \in Opened' : v # w =>
                 account'[v].phone # account'[w].phone /\ account'[v].mail # account'[w].mail
<1> DEFINE row == [phone |-> n, mail |-> n, verified |-> b]
<1>1. row \in Account
    BY DEF Account
<1>2. account' = [account EXCEPT ![u] = row]
    BY DEF NewAccount
<1>3. \A v \in Opened \ {u} : account[v].phone # row.phone /\ account[v].mail # row.mail
    BY DEF NewAccount, ReachedAt, MailFree
<1> HIDE DEF row
<1> QED
    BY <1>1, <1>2, <1>3, WriteAccount

LEMMA RewriteAccount ==
    ASSUME AccountsTypeOK, NEW u \in Opened, NEW row \in Account,
           row.mail = account[u].mail,
           row.phone = account[u].phone \/ ReachedAt(row.phone) = {},
           account' = [account EXCEPT ![u] = row]
    PROVE  /\ account' \in [Accounts -> Account \cup {NoAccount}]
           /\ \A v, w \in Opened' : v # w =>
                 account'[v].phone # account'[w].phone /\ account'[v].mail # account'[w].mail
<1>1. u \in Accounts
    BY DEF Opened
<1>2. \A v \in Opened \ {u} : account[v].phone # row.phone /\ account[v].mail # row.mail
    BY DEF AccountsTypeOK, ReachedAt
<1> QED
    BY <1>1, <1>2, WriteAccount

\* What a call to fill the roster writes; a call by hand has no row of its own.
LEMMA RosterKeeps ==
    ASSUME AccountsTypeOK, NEW n \in Numbers, NEW national \in Codes,
           NEW key \in ApiKeys \cup {ByHand}, CreateOrganizationStudent(n, national, key),
           apiCalls' \subseteq apiCalls
    PROVE  AccountsTypeOK'
<1>1. PICK u \in Accounts :
          /\ \/ u \in ReachedAt(n) /\ UNCHANGED account
             \/ NewAccount(u, n, FALSE)
          /\ Enters(u, national, key)
    BY DEF CreateOrganizationStudent
<1>2. /\ account' \in [Accounts -> Account \cup {NoAccount}]
      /\ \A v, w \in Opened' : v # w =>
            account'[v].phone # account'[w].phone /\ account'[v].mail # account'[w].mail
    BY <1>1, NewAccountKeeps DEF AccountsTypeOK, Opened
<1>3. [account |-> u, code |-> national, key |-> key] \in RosterRow
    BY DEF RosterRow
<1>4. roster' \subseteq RosterRow
    BY <1>1, <1>3 DEF Enters, AccountsTypeOK
<1>5. student' \in [Accounts -> {"none", "active", "suspended"}]
    BY <1>1 DEF Enters, AccountsTypeOK
<1>6. UNCHANGED <<application, apiKey, orgMember>>
    BY DEF CreateOrganizationStudent
<1> QED
    BY <1>2, <1>4, <1>5, <1>6 DEF AccountsTypeOK

LEMMA SignInKeeps ==
    ASSUME AccountsTypeOK, NEW n \in Numbers,
           VerifyNumber(n) \/ \E u \in Accounts : MoveNumber(u, n)
    PROVE  AccountsTypeOK'
<1>1. UNCHANGED <<student, application, roster, apiKey, orgMember, apiCalls>>
    BY DEF VerifyNumber, MoveNumber
<1>2. /\ account' \in [Accounts -> Account \cup {NoAccount}]
      /\ \A v, w \in Opened' : v # w =>
            account'[v].phone # account'[w].phone /\ account'[v].mail # account'[w].mail
    <2>1. ASSUME NEW u \in ReachedAt(n), account' = [account EXCEPT ![u].verified = TRUE]
          PROVE  <1>2!1 /\ <1>2!2
        <3> DEFINE row == [account[u] EXCEPT !.verified = TRUE]
        <3>1. u \in Opened /\ account[u] \in Account
            BY DEF ReachedAt, Opened, AccountsTypeOK
        <3>2. row \in Account /\ row.mail = account[u].mail /\ row.phone = account[u].phone
            BY <3>1 DEF Account
        <3>3. account' = [account EXCEPT ![u] = row]
            BY <2>1
        <3> HIDE DEF row
        <3> QED
            BY <3>1, <3>2, <3>3, RewriteAccount
    <2>2. ASSUME NEW u \in Accounts, MoveNumber(u, n)
          PROVE  <1>2!1 /\ <1>2!2
        <3> DEFINE row == [account[u] EXCEPT !.phone = n]
        <3>1. u \in Opened /\ account[u] \in Account
            BY <2>2 DEF MoveNumber, Opened, AccountsTypeOK
        <3>2. row \in Account /\ row.mail = account[u].mail /\ row.phone = n
            BY <3>1 DEF Account
        <3>3. account' = [account EXCEPT ![u] = row] /\ ReachedAt(n) = {}
            BY <2>2 DEF MoveNumber
        <3> HIDE DEF row
        <3> QED
            BY <3>1, <3>2, <3>3, RewriteAccount
    <2> QED
        BY <2>1, <2>2, NewAccountKeeps DEF VerifyNumber
<1> QED
    BY <1>1, <1>2 DEF AccountsTypeOK

LEMMA AccountsStepKeeps == AccountsTypeOK /\ [AccountsNext]_accountVars => AccountsTypeOK'
<1> SUFFICES ASSUME AccountsTypeOK, [AccountsNext]_accountVars PROVE AccountsTypeOK'
    OBVIOUS
<1>1. CASE UNCHANGED accountVars
    BY <1>1 DEF accountVars, AccountsTypeOK, Opened
<1>2. ASSUME NEW n \in Numbers, VerifyNumber(n) \/ \E u \in Accounts : MoveNumber(u, n)
      PROVE  AccountsTypeOK'
    BY <1>2, SignInKeeps
<1>3. ASSUME NEW n \in Numbers, NEW national \in Codes, CreateByHand(n, national)
      PROVE  AccountsTypeOK'
    BY <1>3, RosterKeeps DEF CreateByHand
<1>4. ASSUME NEW c \in apiCalls, CreateByKey(c)
      PROVE  AccountsTypeOK'
    <2>1. c.number \in Numbers /\ c.code \in Codes /\ c.key \in ApiKeys
        BY DEF AccountsTypeOK, RosterCall
    <2> QED
        BY <1>4, <2>1, RosterKeeps DEF CreateByKey
<1>5. ASSUME NEW n \in Numbers, NEW national \in Codes, NEW k \in ApiKeys,
             AuthenticateOrganizationApiKey(k, n, national)
      PROVE  AccountsTypeOK'
    BY <1>5 DEF AuthenticateOrganizationApiKey, AccountsTypeOK, RosterCall, Opened
<1>6. ASSUME NEW u \in Accounts,
             \/ Onboard(u) \/ StudentSuspended(u) \/ ApplyForRole(u)
             \/ \E status \in {"approved", "rejected"} : ReviewRoleApplication(u, status)
      PROVE  AccountsTypeOK'
    <2>1. UNCHANGED <<account, roster, apiKey, orgMember, apiCalls>>
        BY <1>6 DEF Onboard, StudentSuspended, ApplyForRole, ReviewRoleApplication
    <2>2. student' \in [Accounts -> {"none", "active", "suspended"}]
        BY <1>6 DEF Onboard, StudentSuspended, ApplyForRole, ReviewRoleApplication,
           AccountsTypeOK
    <2>3. application' \in [Accounts -> {"none", "pending", "approved", "rejected"}]
        BY <1>6 DEF Onboard, StudentSuspended, ApplyForRole, ReviewRoleApplication,
           AccountsTypeOK
    <2> QED
        BY <2>1, <2>2, <2>3 DEF AccountsTypeOK, Opened
<1>7. ASSUME \/ \E k \in ApiKeys : CreateOrganizationApiKey(k) \/ RevokeOrganizationApiKey(k)
             \/ OrgMemberChanges
      PROVE  AccountsTypeOK'
    <2>1. UNCHANGED <<account, student, application, roster, apiCalls>>
        BY <1>7 DEF CreateOrganizationApiKey, RevokeOrganizationApiKey, OrgMemberChanges
    <2>2. apiKey' \in [ApiKeys -> {"none", "active", "revoked"}] /\ orgMember' \in BOOLEAN
        BY <1>7 DEF CreateOrganizationApiKey, RevokeOrganizationApiKey, OrgMemberChanges,
           AccountsTypeOK
    <2> QED
        BY <2>1, <2>2 DEF AccountsTypeOK, Opened
<1>8. ASSUME \/ \E c \in apiCalls : ApiCallEnds(c)
             \/ \E row \in roster : DeleteOrganizationStudent(row)
      PROVE  AccountsTypeOK'
    BY <1>8 DEF ApiCallEnds, DeleteOrganizationStudent, AccountsTypeOK, Opened
<1> QED
    BY <1>1, <1>2, <1>3, <1>4, <1>5, <1>6, <1>7, <1>8 DEF AccountsNext

\* Numbers and e-mails are unique and every row is of its table, for any number of
\* accounts (src/src/server/auth/phone.ts:18).
THEOREM AccountsTypeCorrect == AccountsSpec => []AccountsTypeOK
<1>1. AccountsInit => AccountsTypeOK
    BY DEF AccountsInit, AccountsTypeOK, Opened
<1> QED
    BY <1>1, AccountsStepKeeps, PTL DEF AccountsSpec

\* Whoever calls with whatever key, while keys are revoked and memberships change: the
\* roster takes a row only under authority that stands at that step.
THEOREM RosterIsUnderAuthority == AccountsSpec => RosterIsAuthorized
<1> DEFINE Allowed ==
        \A row \in roster' \ roster :
            /\ orgMember /\ (row.key # ByHand => apiKey[row.key] = "active")
            /\ ~OnRoster(row.account, row.code)
            /\ student[row.account] # "suspended"
<1>1. AccountsTypeOK /\ [AccountsNext]_accountVars => [Allowed]_accountVars
    <2> SUFFICES ASSUME AccountsNext PROVE Allowed
        OBVIOUS
    <2>1. ASSUME roster' \subseteq roster PROVE Allowed
        BY <2>1
    <2>2. ASSUME NEW n, NEW national, NEW key, CreateOrganizationStudent(n, national, key),
                 key # ByHand => apiKey[key] = "active"
          PROVE  Allowed
        <3>1. PICK u \in Accounts : Enters(u, national, key)
            BY <2>2 DEF CreateOrganizationStudent
        <3>2. ASSUME NEW row \in roster' \ roster
              PROVE  row.account = u /\ row.code = national /\ row.key = key
            BY <3>1, <3>2 DEF Enters
        <3> QED
            BY <2>2, <3>1, <3>2 DEF CreateOrganizationStudent, Enters, MayStudy
    <2> HIDE DEF Allowed
    <2> QED
        BY <2>1, <2>2
           DEF AccountsNext, VerifyNumber, CreateByHand, AuthenticateOrganizationApiKey,
               Onboard, ApplyForRole, StudentSuspended, MoveNumber, ReviewRoleApplication,
               CreateByKey, KeyStillValid, ApiCallEnds, DeleteOrganizationStudent,
               CreateOrganizationApiKey, RevokeOrganizationApiKey, OrgMemberChanges
<1> QED
    BY <1>1, AccountsTypeCorrect, PTL DEF AccountsSpec, RosterIsAuthorized

--------------------------------------------------------------------------------
(***************************************************************************)
(* PhoneChange, for any numbers, limits and lifetimes.                     *)
(*                                                                         *)
(* A challenge keeps its id when it is overwritten, so a late failure of   *)
(* an earlier request would find its own id in the challenge of a later    *)
(* one.  What keeps that from happening is the budget of the account: it   *)
(* lets one request pass between two steps of the clock, and a request     *)
(* does not outlive the step.                                              *)
(***************************************************************************)
OneRequest ==
    /\ \A r, s \in requests : r = s
    /\ requests # {} =>
          budget[TheAccount] # NoBudget /\ budget[TheAccount].last = minute

\* The request that runs has an unacknowledged code, that of its challenge.
CodeIsOwn ==
    \A r \in requests : r.code # 0 =>
        /\ r.code \in CodeIds /\ r.id # 0 /\ code[r.code] = "sent"
        /\ challenge.id = r.id => challenge.code = r.code

PhoneIInv == PhoneTypeOK /\ OneRequest /\ CodeIsOwn

LEMMA PhoneInitEstablishes == PhoneInit => PhoneIInv
<1> SUFFICES ASSUME PhoneInit PROVE PhoneIInv
    OBVIOUS
<1>1. PhoneTypeOK
    BY PhoneAssumption DEF PhoneInit, PhoneTypeOK
<1> QED
    BY <1>1 DEF PhoneInit, PhoneIInv, OneRequest, CodeIsOwn

LEMMA ReservationKeepsTypes ==
    ASSUME PhoneTypeOK, NEW k \in Phones \cup {TheAccount}, ReserveOtpDispatch(k)
    PROVE  /\ budget' \in [Phones \cup {TheAccount} -> Budget \cup {NoBudget}]
           /\ budget'[k] # NoBudget /\ budget'[k].last = minute
           /\ \A other \in Phones \cup {TheAccount} : other # k => budget'[other] = budget[other]
<1> DEFINE new == IF budget[k] = NoBudget \/ WindowOver(k)
                  THEN [count |-> 1, last |-> minute, start |-> minute]
                  ELSE [count |-> budget[k].count + 1, last |-> minute,
                        start |-> budget[k].start]
<1>1. budget' = [budget EXCEPT ![k] = new]
    BY DEF ReserveOtpDispatch
<1>2. minute \in 0..LastMinute /\ budget[k] \in Budget \cup {NoBudget}
    BY DEF PhoneTypeOK
<1>3. new \in Budget /\ new.last = minute
    <2>1. CASE budget[k] = NoBudget \/ WindowOver(k)
        BY <1>2, <2>1, PhoneAssumption DEF Budget
    <2>2. CASE ~(budget[k] = NoBudget \/ WindowOver(k))
        <3>1. budget[k] \in Budget /\ budget[k].count < MaxSends
            BY <1>2, <2>2 DEF ReserveOtpDispatch, MaySend
        <3>2. budget[k].count + 1 \in 1..MaxSends
            BY <3>1, PhoneAssumption DEF Budget
        <3> QED
            BY <1>2, <2>2, <3>1, <3>2 DEF Budget
    <2> QED
        BY <2>1, <2>2
<1>4. new # NoBudget
    BY <1>3 DEF Budget, NoBudget
<1> HIDE DEF new
<1> QED
    BY <1>1, <1>3, <1>4 DEF PhoneTypeOK

\* A step that leaves the account's budget, the challenge and the codes alone and
\* brings no request.
LEMMA RequestsGo ==
    ASSUME PhoneIInv, PhoneTypeOK', requests' \subseteq requests,
           UNCHANGED <<challenge, code>>,
           requests' # {} =>
               minute' = minute /\ budget'[TheAccount] = budget[TheAccount]
    PROVE  PhoneIInv'
BY DEF PhoneIInv, OneRequest, CodeIsOwn

LEMMA SignInCodeKeeps ==
    ASSUME PhoneIInv, NEW n \in Phones, SendSignInCode(n)
    PROVE  PhoneIInv'
<1>1. UNCHANGED <<minute, phone, taken, mayChange, challenge, requests, code>>
          /\ ReserveOtpDispatch(n)
    BY DEF SendSignInCode
<1>2. budget' \in [Phones \cup {TheAccount} -> Budget \cup {NoBudget}]
          /\ budget'[TheAccount] = budget[TheAccount]
    BY <1>1, ReservationKeepsTypes, TheAccountAssumption DEF PhoneIInv
<1>3. PhoneTypeOK'
    BY <1>1, <1>2 DEF PhoneIInv, PhoneTypeOK
<1> QED
    BY <1>1, <1>2, <1>3, RequestsGo

LEMMA RequestBegins ==
    ASSUME PhoneIInv, NEW n \in Phones, RequestStudentPhoneChange(n)
    PROVE  PhoneIInv'
<1> DEFINE new == [phone |-> n, reserved |-> 1, id |-> 0, code |-> 0]
<1>1. /\ UNCHANGED <<minute, phone, taken, mayChange, challenge, code>>
      /\ ReserveOtpDispatch(TheAccount) /\ requests' = requests \cup {new}
    BY DEF RequestStudentPhoneChange
<1>2. /\ budget' \in [Phones \cup {TheAccount} -> Budget \cup {NoBudget}]
      /\ budget'[TheAccount] # NoBudget /\ budget'[TheAccount].last = minute
    BY <1>1, ReservationKeepsTypes DEF PhoneIInv
<1>3. requests = {}
    BY <1>1, PhoneAssumption
    DEF PhoneIInv, OneRequest, PhoneTypeOK, ReserveOtpDispatch, MaySend
<1>4. new \in Request
    BY PhoneAssumption DEF Request
<1>5. PhoneTypeOK'
    BY <1>1, <1>2, <1>4 DEF PhoneIInv, PhoneTypeOK
<1>6. requests' = {new} /\ new.code = 0
    BY <1>1, <1>3
<1> HIDE DEF new
<1>7. OneRequest' /\ CodeIsOwn'
    BY <1>1, <1>2, <1>6 DEF OneRequest, CodeIsOwn
<1> QED
    BY <1>5, <1>7 DEF PhoneIInv

LEMMA OnlyRequest ==
    ASSUME PhoneIInv, NEW r \in requests
    PROVE  requests = {r} /\ r \in Request
BY DEF PhoneIInv, OneRequest, PhoneTypeOK

LEMMA ReserveForNumberKeeps ==
    ASSUME PhoneIInv, NEW r \in requests, ReserveForNumber(r)
    PROVE  PhoneIInv'
<1>1. UNCHANGED <<minute, phone, taken, mayChange, challenge, code>> /\ r.reserved = 1
    BY DEF ReserveForNumber
<1>2. requests = {r} /\ r \in Request /\ r.phone \in Phones
    BY OnlyRequest DEF Request
<1>3. CASE ReserveOtpDispatch(r.phone)
               /\ requests' = (requests \ {r}) \cup {[r EXCEPT !.reserved = 2]}
    <2> DEFINE next == [r EXCEPT !.reserved = 2]
    <2>1. next \in Request /\ next.code = r.code /\ next.id = r.id
        BY <1>2 DEF Request
    <2>2. requests' = {next}
        BY <1>2, <1>3
    <2> HIDE DEF next
    <2>3. budget' \in [Phones \cup {TheAccount} -> Budget \cup {NoBudget}]
              /\ budget'[TheAccount] = budget[TheAccount]
        BY <1>2, <1>3, ReservationKeepsTypes, TheAccountAssumption DEF PhoneIInv
    <2>4. PhoneTypeOK'
        BY <1>1, <2>1, <2>2, <2>3 DEF PhoneIInv, PhoneTypeOK
    <2>5. OneRequest' /\ CodeIsOwn'
        BY <1>1, <1>2, <2>1, <2>2, <2>3 DEF PhoneIInv, OneRequest, CodeIsOwn
    <2> QED
        BY <2>4, <2>5 DEF PhoneIInv
<1>4. CASE requests' = requests \ {r} /\ UNCHANGED budget
    <2>1. PhoneTypeOK'
        BY <1>1, <1>4 DEF PhoneIInv, PhoneTypeOK
    <2> QED
        BY <1>1, <1>4, <2>1, RequestsGo
<1> QED
    BY <1>3, <1>4 DEF ReserveForNumber

LEMMA StoreChallengeKeeps ==
    ASSUME PhoneIInv, NEW r \in requests, NEW c \in CodeIds, StoreChallenge(r, c)
    PROVE  PhoneIInv'
<1> DEFINE id == IF challenge = NoChallenge THEN c ELSE challenge.id
           stored == [id |-> id, phone |-> r.phone, code |-> c,
                      attempts |-> 0, expires |-> minute + Lifetime]
           next == [r EXCEPT !.id = id, !.code = c]
<1>1. /\ UNCHANGED <<minute, phone, taken, mayChange, budget>>
      /\ challenge' = stored /\ code' = [code EXCEPT ![c] = "sent"]
      /\ requests' = (requests \ {r}) \cup {next}
    BY DEF StoreChallenge
<1>2. requests = {r} /\ r \in Request
    BY OnlyRequest
<1>3. id \in CodeIds
    BY DEF PhoneIInv, PhoneTypeOK, Challenge
<1>4. id \in 0..LastCode /\ c \in 0..LastCode /\ id # 0
    BY <1>3, PhoneAssumption DEF CodeIds
<1>5. minute + Lifetime \in 0..(LastMinute + Lifetime) /\ 0 \in 0..MaxAttempts
    BY PhoneAssumption DEF PhoneIInv, PhoneTypeOK
<1> HIDE DEF id
<1>6. stored \in Challenge /\ stored.code = c
    BY <1>2, <1>3, <1>5 DEF Challenge, Request
<1>7. next \in Request /\ next.code = c /\ next.id = id
    BY <1>2, <1>4 DEF Request
<1>8. requests' = {next}
    BY <1>1, <1>2
<1> HIDE DEF stored, next
<1>9. code' \in [CodeIds -> {"unused", "sent", "acknowledged"}] /\ code'[c] = "sent"
    BY <1>1 DEF PhoneIInv, PhoneTypeOK
<1>10. PhoneTypeOK'
    BY <1>1, <1>6, <1>7, <1>8, <1>9 DEF PhoneIInv, PhoneTypeOK
<1>11. OneRequest' /\ CodeIsOwn'
    BY <1>1, <1>4, <1>6, <1>7, <1>8, <1>9 DEF PhoneIInv, OneRequest, CodeIsOwn
<1> QED
    BY <1>10, <1>11 DEF PhoneIInv

\* The request that runs ends here.
LEMMA RequestEnds ==
    ASSUME PhoneIInv, NEW r \in requests, SmsAcknowledged(r) \/ SmsFails(r) \/ RequestDies(r)
    PROVE  PhoneIInv'
<1>1. UNCHANGED <<minute, phone, taken, mayChange, budget>> /\ requests' = requests \ {r}
    BY DEF SmsAcknowledged, SmsFails, RequestDies
<1>2. requests' = {}
    BY <1>1, OnlyRequest
<1>3. challenge' \in {challenge, NoChallenge}
    BY DEF SmsAcknowledged, SmsFails, RequestDies
<1>4. code' \in [CodeIds -> {"unused", "sent", "acknowledged"}]
    BY DEF SmsAcknowledged, SmsFails, RequestDies, PhoneIInv, PhoneTypeOK
<1>5. PhoneTypeOK'
    BY <1>1, <1>2, <1>3, <1>4 DEF PhoneIInv, PhoneTypeOK
<1> QED
    BY <1>2, <1>5 DEF PhoneIInv, OneRequest, CodeIsOwn

LEMMA VerifyKeeps ==
    ASSUME PhoneIInv, NEW c \in CodeIds \cup {Guess}, VerifyStudentPhoneChange(c)
    PROVE  PhoneIInv'
<1>1. UNCHANGED <<minute, taken, mayChange, budget, requests, code>>
          /\ challenge # NoChallenge /\ challenge \in Challenge
    BY DEF VerifyStudentPhoneChange, PhoneIInv, PhoneTypeOK
<1>2. CASE challenge' = NoChallenge /\ phone' \in {phone} \cup ({challenge.phone} \ taken)
    <2>1. PhoneTypeOK'
        BY <1>1, <1>2 DEF PhoneIInv, PhoneTypeOK, Challenge
    <2>2. NoChallenge.id = 0
        BY DEF NoChallenge
    <2> QED
        BY <1>1, <1>2, <2>1, <2>2 DEF PhoneIInv, OneRequest, CodeIsOwn
<1>3. CASE /\ challenge.attempts < MaxAttempts /\ UNCHANGED phone
           /\ challenge' = [challenge EXCEPT !.attempts = @ + 1]
    <2>1. challenge.attempts + 1 \in 0..MaxAttempts
        BY <1>1, <1>3, PhoneAssumption DEF Challenge
    <2>2. challenge' \in Challenge /\ challenge'.id = challenge.id
              /\ challenge'.code = challenge.code
        BY <1>1, <1>3, <2>1 DEF Challenge
    <2>3. PhoneTypeOK'
        BY <1>1, <1>3, <2>2 DEF PhoneIInv, PhoneTypeOK
    <2> QED
        BY <1>1, <2>2, <2>3 DEF PhoneIInv, OneRequest, CodeIsOwn
<1> QED
    BY <1>2, <1>3 DEF VerifyStudentPhoneChange

LEMMA PhoneStepKeeps == PhoneIInv /\ [PhoneNext]_phoneVars => PhoneIInv'
<1> SUFFICES ASSUME PhoneIInv, [PhoneNext]_phoneVars PROVE PhoneIInv'
    OBVIOUS
<1>1. CASE UNCHANGED phoneVars
    BY <1>1 DEF phoneVars, PhoneIInv, PhoneTypeOK, OneRequest, CodeIsOwn
<1>2. ASSUME \/ \E n \in Phones : SomebodyElseTakes(n)
             \/ StudentMembershipChanges \/ Tick
      PROVE  PhoneIInv'
    <2>1. UNCHANGED <<phone, budget, challenge, requests, code>>
        BY <1>2 DEF SomebodyElseTakes, StudentMembershipChanges, Tick
    <2>2. mayChange' \in BOOLEAN
        BY <1>2
        DEF SomebodyElseTakes, StudentMembershipChanges, Tick, PhoneIInv, PhoneTypeOK
    <2>3. minute' \in 0..LastMinute
        BY <1>2, PhoneAssumption
        DEF SomebodyElseTakes, StudentMembershipChanges, Tick, PhoneIInv, PhoneTypeOK
    <2>4. taken' \subseteq Phones /\ phone' \in Phones \ taken'
        BY <1>2 DEF SomebodyElseTakes, StudentMembershipChanges, Tick, PhoneIInv, PhoneTypeOK
    <2>5. PhoneTypeOK'
        BY <2>1, <2>2, <2>3, <2>4 DEF PhoneIInv, PhoneTypeOK
    <2> QED
        BY <1>2, <2>5, RequestsGo DEF SomebodyElseTakes, StudentMembershipChanges, Tick
<1> QED
    BY <1>1, <1>2, SignInCodeKeeps, RequestBegins, ReserveForNumberKeeps,
       StoreChallengeKeeps, RequestEnds, VerifyKeeps
    DEF PhoneNext

LEMMA PhoneInductive == PhoneSpec => []PhoneIInv
BY PhoneInitEstablishes, PhoneStepKeeps, PTL DEF PhoneSpec

\* No budget passes its limit, no challenge takes more attempts than its own, and no
\* two accounts have one number, for any limits (src/src/server/auth/phone.ts:49).
THEOREM PhoneTypeCorrect == PhoneSpec => []PhoneTypeOK
<1>1. PhoneIInv => PhoneTypeOK
    BY DEF PhoneIInv
<1> QED
    BY <1>1, PhoneInductive, PTL

\* However requests fail, die and follow each other: the code the gateway acknowledged
\* stays good until it is used, expired or overtaken
\* (src/src/server/student/phone-change.ts:90).
THEOREM AcknowledgedStays == PhoneSpec => AcknowledgedCodeStands
<1> DEFINE Stands ==
        challenge # NoChallenge /\ challenge' = NoChallenge
            /\ code[challenge.code] = "acknowledged" =>
          Expired \/ challenge.phone \in taken \cup {phone'}
<1>1. PhoneIInv /\ [PhoneNext]_phoneVars => [Stands]_phoneVars
    <2> SUFFICES ASSUME PhoneIInv, PhoneNext, challenge # NoChallenge, challenge' = NoChallenge,
                        code[challenge.code] = "acknowledged"
                 PROVE  Expired \/ challenge.phone \in taken \cup {phone'}
        OBVIOUS
    <2>1. ASSUME NEW r \in requests, SmsFails(r) PROVE FALSE
        BY <2>1 DEF SmsFails, PhoneIInv, CodeIsOwn
    <2>2. ASSUME NEW r \in requests, NEW c \in CodeIds, StoreChallenge(r, c) PROVE FALSE
        BY <2>2 DEF StoreChallenge, PhoneIInv, PhoneTypeOK, Challenge, NoChallenge, CodeIds
    <2>3. ASSUME NEW c \in CodeIds \cup {Guess}, VerifyStudentPhoneChange(c)
          PROVE  Expired \/ challenge.phone \in taken \cup {phone'}
        <3>1. [challenge EXCEPT !.attempts = @ + 1].id = challenge.id /\ challenge.id # 0
            BY DEF PhoneIInv, PhoneTypeOK, Challenge, CodeIds, NoChallenge
        <3>2. NoChallenge.id = 0
            BY DEF NoChallenge
        <3> QED
            BY <2>3, <3>1, <3>2 DEF VerifyStudentPhoneChange
    <2> QED
        BY <2>1, <2>2, <2>3
        DEF PhoneNext, SendSignInCode, RequestStudentPhoneChange, SomebodyElseTakes,
            ReserveForNumber, SmsAcknowledged, RequestDies, StudentMembershipChanges, Tick
<1> QED
    BY <1>1, PhoneInductive, PTL DEF PhoneSpec, AcknowledgedCodeStands

--------------------------------------------------------------------------------
(***************************************************************************)
(* TutorContent, for any videos, reviewers, requests and deliveries.       *)
(***************************************************************************)
SentDeliveries == {d \in Deliveries : deliveries[d] # Unsent}

\* The tables are functions, and so far finitely many decisions were sent.
ContentRows ==
    /\ events \in [Reviewers -> [RequestIds -> Event \cup {NoEvent}]]
    /\ deliveries \in [Deliveries -> Delivery \cup {Unsent}]
    /\ IsFiniteSet(SentDeliveries)

ContentIInv == ContentTypeOK /\ ContentRows /\ PermissionsHold

LEMMA ContentInitEstablishes == ContentInit => ContentIInv
<1> SUFFICES ASSUME ContentInit PROVE ContentIInv
    OBVIOUS
<1>1. ContentTypeOK
    BY DEF ContentInit, ContentTypeOK
<1>2. SentDeliveries = {}
    BY DEF ContentInit, SentDeliveries
<1>3. ContentRows
    BY <1>2, FS_EmptySet DEF ContentInit, ContentRows
<1>4. PermissionsHold
    BY DEF ContentInit, PermissionsHold, TranscriptsArePermitted, AcknowledgedDecisions, Unsent
<1> QED
    BY <1>1, <1>3, <1>4 DEF ContentIInv

LEMMA TheTime ==
    ASSUME ContentIInv
    PROVE  Now \in Nat \ {0}
<1>1. Cardinality(SentDeliveries) \in Nat
    BY FS_CardinalityType DEF ContentIInv, ContentRows
<1> QED
    BY <1>1 DEF Now, SentDeliveries

LEMMA StartDecisionKeeps ==
    ASSUME ContentIInv, NEW d \in Deliveries, NEW b \in Reviewers, NEW i \in RequestIds,
           NEW v \in Videos, NEW decision \in Decisions, StartDecision(d, b, i, v, decision)
    PROVE  ContentIInv'
<1> DEFINE step == IF events[b][i] = NoEvent THEN "waiting"
                   ELSE Replay(events[b][i], v, decision)
           it == [step |-> step, by |-> b, id |-> i, video |-> v, decision |-> decision,
                  at |-> Now]
<1>1. deliveries[d] = Unsent /\ deliveries' = [deliveries EXCEPT ![d] = it]
          /\ UNCHANGED <<members, scope, events, transcripts, saving>>
    BY DEF StartDecision
<1>2. step \in {"waiting", "ok", "conflict"}
    BY DEF Replay
<1>3. it \in Delivery
    BY <1>2, TheTime DEF Delivery
<1>4. it.step = step /\ it.by = b /\ it.id = i /\ it.video = v /\ it.decision = decision
    OBVIOUS
<1>5. \A o \in Deliveries : deliveries'[o] = IF o = d THEN it ELSE deliveries[o]
    BY <1>1 DEF ContentIInv, ContentRows
<1>6. SentDeliveries' \subseteq SentDeliveries \cup {d}
    BY <1>5 DEF SentDeliveries
<1>7. ContentRows'
    <2>1. IsFiniteSet(SentDeliveries')
        BY <1>6, FS_AddElement, FS_Subset DEF ContentIInv, ContentRows
    <2> QED
        BY <1>1, <1>3, <2>1 DEF ContentIInv, ContentRows
<1>8. ContentTypeOK'
    BY <1>1, <1>7 DEF ContentIInv, ContentTypeOK, ContentRows
<1>9. TranscriptsArePermitted'
    BY <1>1 DEF ContentIInv, PermissionsHold, TranscriptsArePermitted, Permitted, EventsOf
<1>10. /\ it.step = "ok" => /\ events[it.by][it.id] # NoEvent
                            /\ Same(events[it.by][it.id], it.video, it.decision)
       /\ it.step = "conflict" => /\ events[it.by][it.id] # NoEvent
                                  /\ ~Same(events[it.by][it.id], it.video, it.decision)
    BY <1>4 DEF Replay
<1> HIDE DEF it
<1>11. AcknowledgedDecisions'
    BY <1>1, <1>5, <1>10 DEF ContentIInv, PermissionsHold, AcknowledgedDecisions, Same
<1> QED
    BY <1>7, <1>8, <1>9, <1>11 DEF ContentIInv, PermissionsHold

\* A delivery that was waiting has its answer, and the table of events is one the answer
\* agrees with.
LEMMA AnswerKeeps ==
    ASSUME ContentIInv, NEW d \in Deliveries, deliveries[d].step = "waiting",
           NEW step \in {"ok", "conflict", "unavailable"},
           deliveries' = [deliveries EXCEPT ![d].step = step],
           events' \in [Reviewers -> [RequestIds -> Event \cup {NoEvent}]],
           \A b \in Reviewers, i \in RequestIds :
               events[b][i] # NoEvent => events'[b][i] = events[b][i],
           step \in {"ok", "conflict"} =>
               LET found == events'[deliveries[d].by][deliveries[d].id] IN
               /\ found # NoEvent
               /\ step = "ok" <=> Same(found, deliveries[d].video, deliveries[d].decision)
    PROVE  ContentRows' /\ AcknowledgedDecisions'
<1> DEFINE it == [deliveries[d] EXCEPT !.step = step]
<1>1. deliveries[d] \in Delivery
    BY DEF ContentIInv, ContentRows, Unsent
<1>2. it \in Delivery /\ it.step = step /\ it.by = deliveries[d].by
          /\ it.id = deliveries[d].id /\ it.video = deliveries[d].video
          /\ it.decision = deliveries[d].decision
    BY <1>1 DEF Delivery
<1>3. deliveries' = [deliveries EXCEPT ![d] = it]
    OBVIOUS
<1> HIDE DEF it
<1>4. \A o \in Deliveries : deliveries'[o] = IF o = d THEN it ELSE deliveries[o]
    BY <1>3 DEF ContentIInv, ContentRows
<1>5. SentDeliveries' \subseteq SentDeliveries
    BY <1>1, <1>4 DEF SentDeliveries, Delivery, Unsent
<1>6. ContentRows'
    BY <1>2, <1>3, <1>5, FS_Subset DEF ContentIInv, ContentRows
<1>7. ASSUME NEW o \in Deliveries, o # d
      PROVE  /\ deliveries'[o].step = "ok" =>
                   LET found == events'[deliveries'[o].by][deliveries'[o].id] IN
                   /\ found # NoEvent
                   /\ Same(found, deliveries'[o].video, deliveries'[o].decision)
             /\ deliveries'[o].step = "conflict" =>
                   LET found == events'[deliveries'[o].by][deliveries'[o].id] IN
                   /\ found # NoEvent
                   /\ ~Same(found, deliveries'[o].video, deliveries'[o].decision)
    <2>1. deliveries'[o] = deliveries[o] /\ deliveries[o] \in Delivery \cup {Unsent}
        BY <1>4, <1>7 DEF ContentIInv, ContentRows
    <2>2. CASE deliveries[o].step \in {"ok", "conflict"}
        <3>1. deliveries[o].by \in Reviewers /\ deliveries[o].id \in RequestIds
            BY <2>1, <2>2 DEF Delivery, Unsent
        <3>2. events[deliveries[o].by][deliveries[o].id] # NoEvent
            BY <2>2 DEF ContentIInv, PermissionsHold, AcknowledgedDecisions
        <3> QED
            BY <2>1, <3>1, <3>2 DEF ContentIInv, PermissionsHold, AcknowledgedDecisions
    <2> QED
        BY <2>1, <2>2
<1>8. deliveries'[d] = it
    BY <1>4
<1>9. AcknowledgedDecisions'
    BY <1>2, <1>7, <1>8 DEF AcknowledgedDecisions, Same
<1> QED
    BY <1>6, <1>9

LEMMA DecideKeeps ==
    ASSUME ContentIInv, NEW d \in Deliveries, Decide(d)
    PROVE  ContentIInv'
<1> DEFINE it == deliveries[d]
           found == events[it.by][it.id]
           new == [video |-> it.video, decision |-> it.decision, at |-> it.at]
<1>1. it.step = "waiting" /\ it.video \notin saving /\ UNCHANGED <<members, scope, saving>>
    BY DEF Decide, RowIsFree
<1>2. it \in Delivery
    BY <1>1 DEF ContentIInv, ContentRows, Unsent
<1>3. it.by \in Reviewers /\ it.id \in RequestIds /\ it.video \in Videos
          /\ it.decision \in Decisions /\ it.at \in Nat \ {0}
    BY <1>2 DEF Delivery
<1>4. CASE /\ found = NoEvent /\ events' = [events EXCEPT ![it.by][it.id] = new]
           /\ transcripts' = RevokeTranscript(it.video, it.decision)
           /\ deliveries' = [deliveries EXCEPT ![d].step = "ok"]
    <2>1. new \in Event /\ new # NoEvent /\ Same(new, it.video, it.decision)
        BY <1>3 DEF Event, NoEvent, Decisions, Same
    <2>2. new.video = it.video /\ new.decision = it.decision
        OBVIOUS
    <2> HIDE DEF new
    <2>3. \A b \in Reviewers, i \in RequestIds :
              events'[b][i] = IF b = it.by /\ i = it.id THEN new ELSE events[b][i]
        BY <1>3, <1>4 DEF ContentIInv, ContentRows
    <2>4. events' \in [Reviewers -> [RequestIds -> Event \cup {NoEvent}]]
        BY <1>3, <1>4, <2>1 DEF ContentIInv, ContentRows
    <2>5. events'[it.by][it.id] = new
        BY <1>3, <2>3
    <2>6. ContentRows' /\ AcknowledgedDecisions'
        <3> HIDE DEF it
        <3>1. \A b \in Reviewers, i \in RequestIds :
                  events[b][i] # NoEvent => events'[b][i] = events[b][i]
            BY <1>4, <2>3
        <3> QED
            BY <1>1, <1>4, <2>1, <2>4, <2>5, <3>1, AnswerKeeps DEF it
    <2>7. \A v \in Videos : EventsOf(v)' = EventsOf(v) \cup (IF v = it.video THEN {new} ELSE {})
        <3> SUFFICES ASSUME NEW v \in Videos, NEW e
                     PROVE  e \in EventsOf(v)' <=>
                            e \in EventsOf(v) \cup (IF v = it.video THEN {new} ELSE {})
            OBVIOUS
        <3>1. e \in EventsOf(v) <=> \E b \in Reviewers, i \in RequestIds :
                                        events[b][i] = e /\ e # NoEvent /\ e.video = v
            BY DEF EventsOf
        <3>2. e \in EventsOf(v)' <=> \E b \in Reviewers, i \in RequestIds :
                                         events'[b][i] = e /\ e # NoEvent /\ e.video = v
            BY DEF EventsOf
        <3> HIDE DEF it
        <3> QED
            BY <1>3, <1>4, <2>1, <2>2, <2>3, <3>1, <3>2 DEF it
    <2>8. \A v \in Videos : EventsOf(v) \subseteq Event
        BY DEF EventsOf, ContentIInv, ContentRows
    <2>9. \A v \in Videos : Permitted(v) => \/ Permitted(v)'
                                            \/ v = it.video /\ it.decision = "revoked"
        <3> SUFFICES ASSUME NEW v \in Videos, Permitted(v), v = it.video => it.decision = "granted"
                     PROVE  Permitted(v)'
            BY <1>3 DEF Decisions
        <3>1. PICK e \in EventsOf(v) :
                  e.decision = "granted" /\ \A newer \in EventsOf(v) : newer.at <= e.at
            BY DEF Permitted
        <3>2. e.at \in Nat /\ new.at \in Nat
            BY <2>1, <2>8 DEF Event
        <3>3. CASE v # it.video
            BY <2>7, <3>1, <3>3 DEF Permitted
        <3>4. CASE v = it.video /\ new.at <= e.at
            BY <2>7, <3>1, <3>4 DEF Permitted
        <3>5. CASE v = it.video /\ e.at < new.at
            <4>1. \A newer \in EventsOf(v) : newer.at \in Nat /\ newer.at <= new.at
                BY <2>8, <3>1, <3>2, <3>5 DEF Event
            <4>2. new \in EventsOf(v)' /\ new.decision = "granted"
                BY <2>2, <2>7, <3>5
            <4>3. \A newer \in EventsOf(v)' : newer.at <= new.at
                BY <2>7, <3>2, <4>1
            <4> QED
                BY <4>2, <4>3 DEF Permitted
        <3> QED
            BY <3>2, <3>3, <3>4, <3>5
    <2>10. transcripts' \subseteq transcripts
               /\ (it.decision = "revoked" => it.video \notin transcripts')
        BY <1>4 DEF RevokeTranscript
    <2>11. TranscriptsArePermitted'
        BY <1>1, <2>9, <2>10
        DEF ContentIInv, ContentTypeOK, PermissionsHold, TranscriptsArePermitted
    <2>12. ContentTypeOK'
        BY <1>1, <2>6, <2>10 DEF ContentIInv, ContentTypeOK, ContentRows
    <2> QED
        BY <2>6, <2>11, <2>12 DEF ContentIInv, PermissionsHold
<1>5. ASSUME NEW step \in {"ok", "conflict", "unavailable"},
             UNCHANGED <<events, transcripts>>,
             deliveries' = [deliveries EXCEPT ![d].step = step],
             step \in {"ok", "conflict"} =>
                 /\ found # NoEvent
                 /\ step = "ok" <=> Same(found, it.video, it.decision)
      PROVE  ContentIInv'
    <2>1. ContentRows' /\ AcknowledgedDecisions'
        BY <1>1, <1>5, AnswerKeeps DEF ContentIInv, ContentRows
    <2>2. TranscriptsArePermitted'
        BY <1>1, <1>5
        DEF ContentIInv, PermissionsHold, TranscriptsArePermitted, Permitted, EventsOf
    <2>3. ContentTypeOK'
        BY <1>1, <1>5, <2>1 DEF ContentIInv, ContentTypeOK, ContentRows
    <2> QED
        BY <2>1, <2>2, <2>3 DEF ContentIInv, PermissionsHold
<1>6. CASE /\ found # NoEvent /\ UNCHANGED <<events, transcripts>>
           /\ deliveries' = [deliveries EXCEPT ![d].step =
                                Replay(found, it.video, it.decision)]
    <2> DEFINE step == Replay(found, it.video, it.decision)
    <2>1. /\ step \in {"ok", "conflict"} /\ found # NoEvent
          /\ step = "ok" <=> Same(found, it.video, it.decision)
          /\ deliveries' = [deliveries EXCEPT ![d].step = step]
        BY <1>6 DEF Replay
    <2> HIDE DEF it, found, step
    <2> QED
        BY <1>5, <1>6, <2>1
<1>7. CASE /\ UNCHANGED <<events, transcripts>>
           /\ deliveries' = [deliveries EXCEPT ![d].step = "unavailable"]
    BY <1>5, <1>7
<1> QED
    BY <1>4, <1>6, <1>7 DEF Decide

LEMMA TranscriptKeeps ==
    ASSUME ContentIInv, NEW v \in Videos,
           (\E b \in Reviewers : LockTranscript(b, v)) \/ SaveTranscript(v)
               \/ RollBackTranscript(v)
    PROVE  ContentIInv'
<1>1. UNCHANGED <<members, scope, events, deliveries>>
    BY DEF LockTranscript, SaveTranscript, RollBackTranscript
<1>2. /\ transcripts' \subseteq transcripts \cup saving
      /\ saving' \subseteq saving \cup (IF Permitted(v) THEN {v} ELSE {})
    BY DEF LockTranscript, SaveTranscript, RollBackTranscript
<1>3. \A w \in Videos : Permitted(w)' <=> Permitted(w)
    BY <1>1 DEF Permitted, EventsOf
<1>4. ContentTypeOK'
    BY <1>1, <1>2 DEF ContentIInv, ContentTypeOK
<1>5. ContentRows' /\ AcknowledgedDecisions'
    BY <1>1 DEF ContentIInv, ContentRows, SentDeliveries, PermissionsHold,
       AcknowledgedDecisions, Same
<1>6. TranscriptsArePermitted'
    BY <1>2, <1>3
    DEF ContentIInv, ContentTypeOK, PermissionsHold, TranscriptsArePermitted
<1> QED
    BY <1>4, <1>5, <1>6 DEF ContentIInv, PermissionsHold

LEMMA ContentStepKeeps == ContentIInv /\ [ContentNext]_contentVars => ContentIInv'
<1> SUFFICES ASSUME ContentIInv, [ContentNext]_contentVars PROVE ContentIInv'
    OBVIOUS
<1>1. ASSUME UNCHANGED <<events, deliveries, transcripts, saving>>,
             members' \subseteq Reviewers, scope' \in BOOLEAN
      PROVE  ContentIInv'
    <2>1. ContentTypeOK' /\ ContentRows'
        BY <1>1 DEF ContentIInv, ContentTypeOK, ContentRows, SentDeliveries
    <2>2. PermissionsHold'
        BY <1>1 DEF ContentIInv, PermissionsHold, TranscriptsArePermitted, Permitted, EventsOf,
           AcknowledgedDecisions, Same
    <2> QED
        BY <2>1, <2>2 DEF ContentIInv
<1>2. CASE UNCHANGED contentVars
    BY <1>1, <1>2 DEF contentVars, ContentIInv, ContentTypeOK
<1>3. ASSUME (\E b \in Reviewers : ReviewersChange(b)) \/ ScopeChanges PROVE ContentIInv'
    <2>1. members' \subseteq Reviewers /\ UNCHANGED <<events, deliveries, transcripts, saving>>
        BY <1>3 DEF ReviewersChange, ScopeChanges, ContentIInv, ContentTypeOK
    <2>2. scope' \in BOOLEAN
        BY <1>3 DEF ReviewersChange, ScopeChanges, ContentIInv, ContentTypeOK
    <2> QED
        BY <1>1, <2>1, <2>2
<1> QED
    BY <1>2, <1>3, StartDecisionKeeps, DecideKeeps, TranscriptKeeps DEF ContentNext

LEMMA ContentInductive == ContentSpec => []ContentIInv
BY ContentInitEstablishes, ContentStepKeeps, PTL DEF ContentSpec

\* Events, deliveries and transcripts are of their tables, for any number of deliveries
\* (src/src/db/schema.ts:527).
THEOREM ContentTypeCorrect == ContentSpec => []ContentTypeOK
<1>1. ContentIInv => ContentTypeOK
    BY DEF ContentIInv
<1> QED
    BY <1>1, ContentInductive, PTL

\* In whatever order decisions are dated, delivered, repeated and inserted, and however
\* long a transcript takes to write: passages are stored only under a grant, and every
\* acknowledgement is true
\* (src/src/app/api/institute/courses/[courseId]/ai-permissions/route.ts:98).
THEOREM TutorIsPermitted == ContentSpec => []PermissionsHold
<1>1. ContentIInv => PermissionsHold
    BY DEF ContentIInv
<1> QED
    BY <1>1, ContentInductive, PTL

--------------------------------------------------------------------------------
(***************************************************************************)
(* TutorProfile, for any topics, films, count and number of requests.      *)
(***************************************************************************)
AskRow == {NoAsk} \cup Ask \cup Found \cup Inserted \cup Clearing

AddsUp(row) ==
    /\ row.correct <= row.attempts
    /\ row.guided => row.correct < row.attempts \/ row.attempts = MaxCount

\* A request that came in an exam has not yet been asked about it, and that exam still
\* runs; what an answer is going to keep was agreed to.
AskIsFair(ask, exam, kept) ==
    /\ ask.step = "entitled" => (ask.overlong => exam)
    /\ ask.step \in {"admitted", "answering", "graded"} => ~ask.overlong
    /\ ask.step = "answering" => (ask.value => ask.topic \in kept)

ProfileRows ==
    /\ rows \in [Topics -> TopicRow \cup {NoTopic}]
    /\ asks \in [Asks -> AskRow]
    /\ \A a \in Asks : AskIsFair(asks[a], inExam, agreed)

ProfileIInv == ProfileTypeOK /\ ProfileRows /\ ProfileIsTheStudents

LEMMA ProfileInitEstablishes == ProfileInit => ProfileIInv
<1> SUFFICES ASSUME ProfileInit PROVE ProfileIInv
    OBVIOUS
<1>1. ProfileTypeOK
    BY DEF ProfileInit, ProfileTypeOK
<1>2. ProfileRows
    BY DEF ProfileInit, ProfileRows, AskRow, AskIsFair, NoAsk
<1>3. ProfileIsTheStudents
    BY DEF ProfileInit, ProfileIsTheStudents
<1> QED
    BY <1>1, <1>2, <1>3 DEF ProfileIInv

\* What a step of a request has to keep.
LEMMA AskStep ==
    ASSUME ProfileIInv, NEW a \in Asks, NEW ask \in AskRow,
           asks' = [asks EXCEPT ![a] = ask], UNCHANGED surroundings,
           agreed' \subseteq Topics \cup Films,
           AskIsFair(ask, inExam, agreed'),
           \A b \in Asks \ {a} : AskIsFair(asks[b], inExam, agreed'),
           rows' \in [Topics -> TopicRow \cup {NoTopic}],
           \A t \in Topics : rows'[t] # NoTopic => t \in agreed' /\ AddsUp(rows'[t]),
           marks' \in [Films -> {"none", "helped", "needs_guidance"}],
           \A f \in Films : marks'[f] # "none" => f \in agreed'
    PROVE  ProfileIInv'
<1>1. UNCHANGED <<mayLearn, inExam, quotable>>
    BY DEF surroundings
<1>2. asks' \in [Asks -> AskRow]
    BY DEF ProfileIInv, ProfileRows
<1>3. \A b \in Asks : AskIsFair(asks'[b], inExam', agreed')
    BY <1>1 DEF ProfileIInv, ProfileRows
<1>4. ProfileRows'
    BY <1>2, <1>3 DEF ProfileRows
<1>5. ProfileTypeOK'
    BY <1>1, <1>4 DEF ProfileIInv, ProfileTypeOK, ProfileRows, AskRow
<1>6. ProfileIsTheStudents'
    BY DEF ProfileIsTheStudents, AddsUp
<1> QED
    BY <1>4, <1>5, <1>6 DEF ProfileIInv

\* A step of a request that does not clear anything: a row it writes is agreed to.
LEMMA AskWrites ==
    ASSUME ProfileIInv, NEW a \in Asks, NEW ask \in AskRow,
           asks' = [asks EXCEPT ![a] = ask], UNCHANGED <<surroundings, marks>>,
           agreed \subseteq agreed', agreed' \subseteq Topics \cup Films,
           AskIsFair(ask, inExam, agreed'),
           \/ UNCHANGED rows
           \/ \E t \in Topics, row \in TopicRow :
                 /\ rows' = [rows EXCEPT ![t] = row]
                 /\ rows[t] # NoTopic \/ t \in agreed'
                 /\ AddsUp(row)
    PROVE  ProfileIInv'
<1>1. \A b \in Asks \ {a} : AskIsFair(asks[b], inExam, agreed')
    BY DEF ProfileIInv, ProfileRows, AskIsFair
<1>2. /\ rows' \in [Topics -> TopicRow \cup {NoTopic}]
      /\ \A t \in Topics : rows'[t] # NoTopic => t \in agreed' /\ AddsUp(rows'[t])
    <2>1. CASE UNCHANGED rows
        BY <2>1 DEF ProfileIInv, ProfileRows, ProfileIsTheStudents, AddsUp
    <2>2. ASSUME NEW t \in Topics, NEW row \in TopicRow, rows' = [rows EXCEPT ![t] = row],
                 rows[t] # NoTopic \/ t \in agreed', AddsUp(row)
          PROVE  <1>2!1 /\ <1>2!2
        <3>1. \A u \in Topics : rows'[u] = IF u = t THEN row ELSE rows[u]
            BY <2>2 DEF ProfileIInv, ProfileRows
        <3>2. \A u \in Topics : rows[u] # NoTopic => u \in agreed' /\ AddsUp(rows[u])
            BY DEF ProfileIInv, ProfileIsTheStudents, AddsUp
        <3>3. rows' \in [Topics -> TopicRow \cup {NoTopic}]
            BY <2>2 DEF ProfileIInv, ProfileRows
        <3> QED
            BY <2>2, <3>1, <3>2, <3>3
    <2> QED
        BY <2>1, <2>2
<1>3. /\ marks' \in [Films -> {"none", "helped", "needs_guidance"}]
      /\ \A f \in Films : marks'[f] # "none" => f \in agreed'
    BY DEF ProfileIInv, ProfileTypeOK, ProfileIsTheStudents
<1> QED
    BY <1>1, <1>2, <1>3, AskStep

\* Counting keeps a row in its table, and adding up.
LEMMA CountingAddsUp ==
    ASSUME NEW row \in TopicRow, NEW correct \in BOOLEAN, AddsUp(row)
    PROVE  CountOutcome(row, correct) \in TopicRow /\ AddsUp(CountOutcome(row, correct))
<1> DEFINE attempts == LeastOf(row.attempts + 1, MaxCount)
           right == LeastOf(row.correct + (IF correct THEN 1 ELSE 0), MaxCount)
           counted == [row EXCEPT !.attempts = attempts, !.correct = right,
                                  !.guided = ~correct, !.lesson = "none"]
<1>1. row.attempts \in 0..MaxCount /\ row.correct \in 0..MaxCount
    BY DEF TopicRow
<1>2. attempts \in 0..MaxCount /\ right \in 0..MaxCount /\ right <= attempts
    BY <1>1, CountAssumption DEF LeastOf, AddsUp
<1>3. ~correct => right < attempts \/ attempts = MaxCount
    BY <1>1, CountAssumption DEF LeastOf, AddsUp
<1> HIDE DEF attempts, right
<1>4. counted \in TopicRow /\ counted.attempts = attempts /\ counted.correct = right
    BY <1>2 DEF TopicRow
<1>5. counted.guided <=> ~correct
    BY DEF TopicRow
<1>6. counted = CountOutcome(row, correct)
    BY DEF CountOutcome, attempts, right
<1> HIDE DEF counted
<1> QED
    BY <1>2, <1>3, <1>4, <1>5, <1>6 DEF AddsUp

LEMMA AskTypes ==
    ASSUME ProfileIInv, NEW a \in Asks
    PROVE  /\ asks[a] \in AskRow /\ AskIsFair(asks[a], inExam, agreed)
           /\ asks[a].step \in {"entitled", "admitted"} => asks[a] \in Ask
           /\ asks[a].step \in {"answering", "graded"} => asks[a] \in Found
           /\ asks[a].step = "inserted" => asks[a] \in Inserted
BY DEF ProfileIInv, ProfileRows, AskRow, NoAsk, Ask, Found, Inserted, Clearing

LEMMA EndIsFair ==
    /\ NoAsk \in AskRow /\ [step |-> "clearing"] \in AskRow
    /\ \A kept : AskIsFair(NoAsk, inExam, kept)
                     /\ AskIsFair([step |-> "clearing"], inExam, kept)
BY DEF AskRow, NoAsk, Clearing, AskIsFair

LEMMA AgreedInBounds == ASSUME ProfileIInv PROVE agreed \subseteq Topics \cup Films
BY DEF ProfileIInv, ProfileTypeOK

\* Until it has its answer, a request changes nothing but itself and what is agreed to.
LEMMA AskingKeeps ==
    ASSUME ProfileIInv, NEW a \in Asks,
           \/ PostQuestion(a) \/ PostPractice(a)
           \/ \E f \in Films : PostVideoFeedback(a, f)
           \/ CheckExam(a) \/ NothingFound(a)
    PROVE  ProfileIInv'
<1>1. UNCHANGED <<surroundings, rows, marks, agreed>>
    BY DEF PostQuestion, PostPractice, PostVideoFeedback, PostTutor, CheckExam, NothingFound
<1>2. ASSUME NEW about \in {"question", "practice"} \cup Films, PostTutor(a, about)
      PROVE  ProfileIInv'
    <2> DEFINE ask == [step |-> "entitled", about |-> about, overlong |-> inExam]
    <2>1. asks' = [asks EXCEPT ![a] = ask]
        BY <1>2 DEF PostTutor, AskBecomes
    <2>2. inExam \in BOOLEAN
        BY DEF ProfileIInv, ProfileTypeOK
    <2>3. ask \in AskRow
        BY <2>2 DEF AskRow, Ask
    <2>4. AskIsFair(ask, inExam, agreed')
        BY DEF AskIsFair
    <2> HIDE DEF ask
    <2> QED
        BY <1>1, <2>1, <2>3, <2>4, AgreedInBounds, AskWrites
<1>3. CASE CheckExam(a)
    <2> DEFINE ask == [asks[a] EXCEPT !.step = "admitted"]
    <2>1. asks[a] \in Ask /\ (asks[a].overlong => inExam)
        BY <1>3, AskTypes DEF CheckExam, AskIsFair
    <2>2. ask \in Ask /\ ask.step = "admitted" /\ ask.overlong = asks[a].overlong
        BY <2>1 DEF Ask
    <2>3. asks' = [asks EXCEPT ![a] = IF inExam THEN NoAsk ELSE ask]
        BY <1>3 DEF CheckExam, AskBecomes, ActiveAttempt
    <2> HIDE DEF ask
    <2>4. ~inExam => AskIsFair(ask, inExam, agreed')
        BY <2>1, <2>2 DEF AskIsFair
    <2>5. ask \in AskRow
        BY <2>2 DEF AskRow
    <2>6. CASE inExam
        BY <1>1, <2>3, <2>6, EndIsFair, AgreedInBounds, AskWrites
    <2>7. CASE ~inExam
        BY <1>1, <2>3, <2>4, <2>5, <2>7, AgreedInBounds, AskWrites
    <2> QED
        BY <2>6, <2>7
<1>4. CASE NothingFound(a)
    <2>1. asks' = [asks EXCEPT ![a] = NoAsk]
        BY <1>4 DEF NothingFound, AskBecomes
    <2> QED
        BY <1>1, <2>1, EndIsFair, AgreedInBounds, AskWrites
<1> QED
    BY <1>2, <1>3, <1>4 DEF PostQuestion, PostPractice, PostVideoFeedback

LEMMA FindingKeeps ==
    ASSUME ProfileIInv, NEW a \in Asks, NEW t \in Topics, NEW b \in BOOLEAN,
           Retrieve(a, t, b) \/ Grade(a, t, b)
    PROVE  ProfileIInv'
<1>1. /\ UNCHANGED <<surroundings, rows, marks>>
      /\ agreed' \in {agreed, agreed \cup {t}}
    BY DEF Retrieve, Grade, Agrees
<1>2. asks[a] \in Ask /\ ~asks[a].overlong
    BY AskTypes DEF Retrieve, Grade, AskIsFair
<1> DEFINE ask(step) == [step |-> step, overlong |-> asks[a].overlong, topic |-> t, value |-> b]
<1>3. \A step \in {"answering", "graded"} : ask(step) \in AskRow
    BY <1>2 DEF Ask, Found, AskRow
<1>4. CASE Retrieve(a, t, b)
    <2>1. asks' = [asks EXCEPT ![a] = ask("answering")] /\ (b => agreed' = agreed \cup {t})
        BY <1>4 DEF Retrieve, Answering, AskBecomes, Agrees
    <2>2. AskIsFair(ask("answering"), inExam, agreed')
        BY <1>2, <2>1 DEF AskIsFair
    <2>3. ask("answering") \in AskRow
        BY <1>3
    <2> HIDE DEF ask
    <2> QED
        BY <1>1, <2>1, <2>2, <2>3, AgreedInBounds, AskWrites
<1>5. CASE Grade(a, t, b)
    <2>1. asks' = [asks EXCEPT ![a] = ask("graded")]
        BY <1>5 DEF Grade, AskBecomes
    <2>2. AskIsFair(ask("graded"), inExam, agreed')
        BY <1>2 DEF AskIsFair
    <2>3. ask("graded") \in AskRow
        BY <1>3
    <2> HIDE DEF ask
    <2> QED
        BY <1>1, <2>1, <2>2, <2>3, AgreedInBounds, AskWrites
<1> QED
    BY <1>4, <1>5

LEMMA NewTopicAddsUp == NewTopic \in TopicRow /\ AddsUp(NewTopic)
<1>1. 0 \in 0..MaxCount
    BY CountAssumption
<1>2. NewTopic \in TopicRow
    BY <1>1 DEF NewTopic, TopicRow
<1>3. NewTopic.correct = 0 /\ NewTopic.attempts = 0 /\ NewTopic.guided = FALSE
    BY DEF NewTopic
<1> QED
    BY <1>2, <1>3 DEF AddsUp

LEMMA RowTypes ==
    ASSUME ProfileIInv, NEW t \in Topics
    PROVE  /\ rows[t] \in TopicRow \cup {NoTopic}
           /\ rows[t] # NoTopic => rows[t] \in TopicRow /\ AddsUp(rows[t])
BY DEF ProfileIInv, ProfileRows, ProfileIsTheStudents, AddsUp

\* The statements that write a row.
LEMMA RecordingKeeps ==
    ASSUME ProfileIInv, NEW a \in Asks, NEW ask \in AskRow,
           asks' = [asks EXCEPT ![a] = ask], UNCHANGED <<surroundings, marks>>,
           agreed \subseteq agreed', agreed' \subseteq Topics \cup Films,
           AskIsFair(ask, inExam, agreed'),
           NEW t \in Topics,
           \/ RecordTopic(t) /\ t \in agreed'
           \/ \E correct \in BOOLEAN : RecordOutcome(t, correct)
           \/ \E value \in {"understood", "needs_help"} :
                 rows' = [rows EXCEPT ![t] =
                             IF @ = NoTopic THEN @ ELSE [@ EXCEPT !.lesson = value]]
    PROVE  ProfileIInv'
<1>1. rows = [rows EXCEPT ![t] = rows[t]]
    BY DEF ProfileIInv, ProfileRows
<1>2. CASE RecordTopic(t) /\ t \in agreed'
    <2>1. rows' = [rows EXCEPT ![t] = IF rows[t] = NoTopic THEN NewTopic ELSE rows[t]]
        BY <1>2 DEF RecordTopic
    <2>2. CASE rows[t] = NoTopic
        BY <1>2, <2>1, <2>2, NewTopicAddsUp, AskWrites
    <2>3. CASE rows[t] # NoTopic
        <3>1. rows' = rows
            BY <1>1, <2>1, <2>3
        <3> QED
            BY <3>1, AskWrites
    <2> QED
        BY <2>2, <2>3
<1>3. ASSUME rows[t] = NoTopic, UNCHANGED rows PROVE ProfileIInv'
    BY <1>3, AskWrites
<1>4. ASSUME NEW correct \in BOOLEAN, RecordOutcome(t, correct) PROVE ProfileIInv'
    <2>1. CASE rows[t] = NoTopic
        BY <1>1, <1>3, <1>4, <2>1 DEF RecordOutcome
    <2>2. CASE rows[t] # NoTopic
        <3>1. rows' = [rows EXCEPT ![t] = CountOutcome(rows[t], correct)]
            BY <1>4, <2>2 DEF RecordOutcome
        <3>2. /\ CountOutcome(rows[t], correct) \in TopicRow
              /\ AddsUp(CountOutcome(rows[t], correct))
            BY <2>2, RowTypes, CountingAddsUp
        <3> QED
            BY <2>2, <3>1, <3>2, AskWrites
    <2> QED
        BY <2>1, <2>2
<1>5. ASSUME NEW value \in {"understood", "needs_help"},
             rows' = [rows EXCEPT ![t] =
                         IF @ = NoTopic THEN @ ELSE [@ EXCEPT !.lesson = value]]
      PROVE  ProfileIInv'
    <2>1. CASE rows[t] = NoTopic
        BY <1>1, <1>3, <1>5, <2>1
    <2>2. CASE rows[t] # NoTopic
        <3> DEFINE row == [rows[t] EXCEPT !.lesson = value]
        <3>1. rows' = [rows EXCEPT ![t] = row]
            BY <1>5, <2>2
        <3>2. row \in TopicRow /\ AddsUp(row)
            BY <2>2, RowTypes DEF TopicRow, AddsUp
        <3> HIDE DEF row
        <3> QED
            BY <2>2, <3>1, <3>2, AskWrites
    <2> QED
        BY <2>1, <2>2
<1> QED
    BY <1>2, <1>4, <1>5

LEMMA TutorAnswerKeeps ==
    ASSUME ProfileIInv, NEW a \in Asks,
           \/ AnswerQuestion(a) \/ \E remember \in BOOLEAN : AnswerPractice(a, remember)
           \/ RecordLessonFeedback(a) \/ RecordCoursePractice(a)
    PROVE  ProfileIInv'
<1>1. asks' = [asks EXCEPT ![a] = NoAsk] /\ UNCHANGED <<surroundings, marks, agreed>>
    BY DEF AnswerQuestion, AnswerPractice, RecordLessonFeedback, RecordCoursePractice,
       AskBecomes
<1>2. agreed \subseteq agreed' /\ agreed' \subseteq Topics \cup Films
          /\ NoAsk \in AskRow /\ AskIsFair(NoAsk, inExam, agreed')
    BY <1>1, AgreedInBounds, EndIsFair
<1>3. CASE UNCHANGED rows
    BY <1>1, <1>2, <1>3, AskWrites
<1>4. CASE AnswerQuestion(a) /\ asks[a].value
    <2>1. asks[a] \in Found /\ asks[a].topic \in agreed'
        BY <1>1, <1>4, AskTypes DEF AnswerQuestion, AskIsFair
    <2>2. asks[a].topic \in Topics
        BY <2>1 DEF Found
    <2> QED
        BY <1>1, <1>2, <1>4, <2>1, <2>2, RecordingKeeps DEF AnswerQuestion
<1>5. ASSUME AnswerPractice(a, TRUE)
      PROVE  ProfileIInv'
    <2>1. asks[a].topic \in Topics /\ asks[a].value \in BOOLEAN
        BY <1>5, AskTypes DEF AnswerPractice, Found
    <2>2. RecordOutcome(asks[a].topic, asks[a].value)
        BY <1>5 DEF AnswerPractice
    <2> QED
        BY <1>1, <1>2, <2>1, <2>2, RecordingKeeps
<1>6. CASE RecordLessonFeedback(a)
    <2>1. asks[a].topic \in Topics /\ asks[a].value \in {"understood", "needs_help"}
        BY <1>6, AskTypes DEF RecordLessonFeedback, Inserted
    <2>2. rows' = [rows EXCEPT ![asks[a].topic] =
                      IF @ = NoTopic THEN @ ELSE [@ EXCEPT !.lesson = asks[a].value]]
        BY <1>6 DEF RecordLessonFeedback
    <2> QED
        BY <1>1, <1>2, <2>1, <2>2, RecordingKeeps
<1>7. CASE RecordCoursePractice(a)
    <2>1. asks[a].topic \in Topics /\ (asks[a].value = "right") \in BOOLEAN
        BY <1>7, AskTypes DEF RecordCoursePractice, Inserted
    <2>2. RecordOutcome(asks[a].topic, asks[a].value = "right")
        BY <1>7 DEF RecordCoursePractice
    <2> QED
        BY <1>1, <1>2, <2>1, <2>2, RecordingKeeps
<1> QED
    BY <1>3, <1>4, <1>5, <1>6, <1>7 DEF AnswerQuestion, AnswerPractice

LEMMA EnsureKeeps ==
    ASSUME ProfileIInv, NEW a \in Asks, NEW t \in Topics,
           NEW value \in {"understood", "needs_help", "right", "wrong"}, EnsureTopic(a, t, value)
    PROVE  ProfileIInv'
<1> DEFINE ask == [step |-> "inserted", topic |-> t, value |-> value]
<1>1. asks' = [asks EXCEPT ![a] = ask] /\ agreed' = agreed \cup {t}
          /\ UNCHANGED <<surroundings, marks>> /\ RecordTopic(t)
    BY DEF EnsureTopic, AskBecomes, Agrees
<1>2. ask \in AskRow
    BY DEF AskRow, Inserted
<1>3. AskIsFair(ask, inExam, agreed')
    BY DEF AskIsFair
<1> HIDE DEF ask
<1> QED
    BY <1>1, <1>2, <1>3, AgreedInBounds, RecordingKeeps

\* Feedback on a video, and clearing: topics and films are told apart.
LEMMA FeedbackKeeps ==
    ASSUME ProfileIInv, NEW a \in Asks,
           \E mark \in {"helped", "needs_guidance"} : RecordVideoFeedback(a, mark)
    PROVE  ProfileIInv'
<1>1. PICK mark \in {"helped", "needs_guidance"} : RecordVideoFeedback(a, mark)
    OBVIOUS
<1> DEFINE f == asks[a].about
<1>2. /\ f \in Films /\ marks' = [marks EXCEPT ![f] = mark] /\ agreed' = agreed \cup {f}
      /\ asks' = [asks EXCEPT ![a] = NoAsk] /\ UNCHANGED <<surroundings, rows>>
    BY <1>1 DEF RecordVideoFeedback, Agrees, AskBecomes
<1> HIDE DEF f
<1>3. /\ marks' \in [Films -> {"none", "helped", "needs_guidance"}]
      /\ \A g \in Films : marks'[g] # "none" => g \in agreed'
    BY <1>2 DEF ProfileIInv, ProfileTypeOK, ProfileIsTheStudents
<1>4. /\ rows' \in [Topics -> TopicRow \cup {NoTopic}]
      /\ \A t \in Topics : rows'[t] # NoTopic => t \in agreed' /\ AddsUp(rows'[t])
    BY <1>2 DEF ProfileIInv, ProfileRows, ProfileIsTheStudents, AddsUp
<1>5. \A b \in Asks \ {a} : AskIsFair(asks[b], inExam, agreed')
    BY <1>2 DEF ProfileIInv, ProfileRows, AskIsFair
<1> QED
    BY <1>2, <1>3, <1>4, <1>5, EndIsFair, AgreedInBounds, AskStep

LEMMA ClearTopicsKeeps ==
    ASSUME ProfileIInv, NEW a \in Asks, ClearTopics(a)
    PROVE  ProfileIInv'
<1> DEFINE answering ==
        {asks[b].topic : b \in {c \in Asks : asks[c].step = "answering" /\ asks[c].value}}
           ask == [step |-> "clearing"]
<1>1. /\ rows' = [t \in Topics |-> NoTopic] /\ asks' = [asks EXCEPT ![a] = ask]
      /\ agreed' = (agreed \ Topics) \cup answering /\ UNCHANGED <<surroundings, marks>>
    BY DEF ClearTopics, AskBecomes
<1>2. answering \subseteq Topics
    BY AskTypes DEF Found
<1>3. \A b \in Asks \ {a} : AskIsFair(asks[b], inExam, agreed')
    <2> SUFFICES ASSUME NEW b \in Asks \ {a} PROVE AskIsFair(asks[b], inExam, agreed')
        OBVIOUS
    <2>1. AskIsFair(asks[b], inExam, agreed)
        BY AskTypes
    <2>2. asks[b].step = "answering" /\ asks[b].value => asks[b].topic \in agreed'
        BY <1>1
    <2> HIDE DEF answering
    <2> QED
        BY <2>1, <2>2 DEF AskIsFair
<1> HIDE DEF answering, ask
<1>4. /\ marks' \in [Films -> {"none", "helped", "needs_guidance"}]
      /\ \A f \in Films : marks'[f] # "none" => f \in agreed'
    BY <1>1, FilmAssumption DEF ProfileIInv, ProfileTypeOK, ProfileIsTheStudents
<1>5. ask \in AskRow /\ AskIsFair(ask, inExam, agreed')
    BY EndIsFair DEF ask
<1> QED
    BY <1>1, <1>2, <1>3, <1>4, <1>5, AgreedInBounds, AskStep

LEMMA ClearFeedbackKeeps ==
    ASSUME ProfileIInv, NEW a \in Asks, ClearVideoFeedback(a)
    PROVE  ProfileIInv'
<1>1. /\ marks' = [f \in Films |-> "none"] /\ asks' = [asks EXCEPT ![a] = NoAsk]
      /\ agreed' = agreed \ Films /\ UNCHANGED <<surroundings, rows>>
    BY DEF ClearVideoFeedback, AskBecomes
<1>2. \A b \in Asks \ {a} : AskIsFair(asks[b], inExam, agreed')
    <2> SUFFICES ASSUME NEW b \in Asks \ {a} PROVE AskIsFair(asks[b], inExam, agreed')
        OBVIOUS
    <2>1. AskIsFair(asks[b], inExam, agreed)
        BY AskTypes
    <2>2. asks[b].step = "answering" => asks[b].topic \in Topics
        BY AskTypes DEF Found
    <2> QED
        BY <1>1, <2>1, <2>2, FilmAssumption DEF AskIsFair
<1>3. /\ rows' \in [Topics -> TopicRow \cup {NoTopic}]
      /\ \A t \in Topics : rows'[t] # NoTopic => t \in agreed' /\ AddsUp(rows'[t])
    BY <1>1, FilmAssumption DEF ProfileIInv, ProfileRows, ProfileIsTheStudents, AddsUp
<1>4. /\ marks' \in [Films -> {"none", "helped", "needs_guidance"}]
      /\ \A f \in Films : marks'[f] # "none" => f \in agreed'
    BY <1>1
<1> QED
    BY <1>1, <1>2, <1>3, <1>4, EndIsFair, AgreedInBounds, AskStep

\* What changes elsewhere.
LEMMA ElsewhereKeeps ==
    ASSUME ProfileIInv,
           \/ EnrolmentChanges \/ StartExam
           \/ \E films \in SUBSET Films : ContentChanges(films)
    PROVE  ProfileIInv'
<1>1. UNCHANGED <<rows, marks, asks, agreed>> /\ (inExam => inExam')
    BY DEF EnrolmentChanges, StartExam, ContentChanges
<1>2. mayLearn' \in BOOLEAN
    BY DEF EnrolmentChanges, StartExam, ContentChanges, ProfileIInv, ProfileTypeOK
<1>3. inExam' \in BOOLEAN
    BY DEF EnrolmentChanges, StartExam, ContentChanges, ProfileIInv, ProfileTypeOK
<1>4. quotable' \subseteq Films
    BY DEF EnrolmentChanges, StartExam, ContentChanges, ProfileIInv, ProfileTypeOK
<1>5. ProfileTypeOK'
    BY <1>1, <1>2, <1>3, <1>4 DEF ProfileIInv, ProfileTypeOK
<1>6. ProfileRows'
    BY <1>1 DEF ProfileIInv, ProfileRows, AskIsFair
<1>7. ProfileIsTheStudents'
    BY <1>1 DEF ProfileIInv, ProfileIsTheStudents
<1> QED
    BY <1>5, <1>6, <1>7 DEF ProfileIInv

LEMMA FinishExamKeeps ==
    ASSUME ProfileIInv, FinishExam
    PROVE  ProfileIInv'
<1> DEFINE Freed(ask) == IF "overlong" \in DOMAIN ask THEN [ask EXCEPT !.overlong = FALSE]
                         ELSE ask
<1>1. /\ inExam' = FALSE /\ asks' = [a \in Asks |-> Freed(asks[a])]
      /\ UNCHANGED <<mayLearn, quotable, rows, marks, agreed>>
    BY DEF FinishExam
<1>2. ASSUME NEW a \in Asks
      PROVE  Freed(asks[a]) \in AskRow /\ AskIsFair(Freed(asks[a]), FALSE, agreed)
    <2>1. CASE asks[a] \in Ask
        <3>1. Freed(asks[a]) = [asks[a] EXCEPT !.overlong = FALSE]
            BY <2>1 DEF Ask
        <3>2. [asks[a] EXCEPT !.overlong = FALSE] \in Ask
                  /\ [asks[a] EXCEPT !.overlong = FALSE].overlong = FALSE
            BY <2>1 DEF Ask
        <3> QED
            BY <3>1, <3>2 DEF AskRow, AskIsFair, Ask
    <2>2. CASE asks[a] \in Found
        <3> DEFINE freed == [asks[a] EXCEPT !.overlong = FALSE]
        <3>1. Freed(asks[a]) = freed
            BY <2>2 DEF Found
        <3>2. freed \in Found /\ freed.overlong = FALSE /\ freed.topic = asks[a].topic
                  /\ freed.value = asks[a].value /\ freed.step = asks[a].step
            BY <2>2 DEF Found
        <3>3. AskIsFair(asks[a], inExam, agreed)
            BY AskTypes
        <3> HIDE DEF freed
        <3> QED
            BY <3>1, <3>2, <3>3 DEF AskRow, AskIsFair, Found
    <2>3. CASE asks[a] \in {NoAsk} \cup Inserted \cup Clearing
        <3>1. Freed(asks[a]) = asks[a]
            BY <2>3 DEF NoAsk, Inserted, Clearing
        <3> QED
            BY <2>3, <3>1 DEF AskRow, AskIsFair, NoAsk, Inserted, Clearing
    <2> QED
        BY <2>1, <2>2, <2>3, AskTypes DEF AskRow
<1> HIDE DEF Freed
<1>3. ProfileRows'
    BY <1>1, <1>2 DEF ProfileIInv, ProfileRows
<1>4. ProfileTypeOK'
    BY <1>1, <1>3 DEF ProfileIInv, ProfileTypeOK, ProfileRows, AskRow
<1>5. ProfileIsTheStudents'
    BY <1>1 DEF ProfileIInv, ProfileIsTheStudents
<1> QED
    BY <1>3, <1>4, <1>5 DEF ProfileIInv

LEMMA ProfileStepKeeps == ProfileIInv /\ [ProfileNext]_profileVars => ProfileIInv'
<1> SUFFICES ASSUME ProfileIInv, [ProfileNext]_profileVars PROVE ProfileIInv'
    OBVIOUS
<1>1. CASE UNCHANGED profileVars
    BY <1>1 DEF profileVars, ProfileIInv, ProfileTypeOK, ProfileRows, ProfileIsTheStudents
<1>2. ASSUME NEW a \in Asks, NEW t \in Topics, PostLessonFeedback(a, t) \/ PostCoursePractice(a, t)
      PROVE  ProfileIInv'
    BY <1>2, EnsureKeeps DEF PostLessonFeedback, PostCoursePractice
<1>3. ASSUME NEW a \in Asks, NEW t \in Topics, NEW b \in BOOLEAN,
             \/ RetrieveStudentVideoTranscript(a, t, b)
             \/ AnswerFromSeedCorpus(a, t, b) \/ Grade(a, t, b)
      PROVE  ProfileIInv'
    BY <1>3, FindingKeeps DEF RetrieveStudentVideoTranscript, AnswerFromSeedCorpus
<1>4. ASSUME NEW a \in Asks,
             \/ PostQuestion(a) \/ PostPractice(a) \/ \E f \in Films : PostVideoFeedback(a, f)
             \/ CheckExam(a) \/ NothingFound(a)
      PROVE  ProfileIInv'
    BY <1>4, AskingKeeps
<1>5. ASSUME NEW a \in Asks,
             \/ AnswerQuestion(a) \/ \E remember \in BOOLEAN : AnswerPractice(a, remember)
             \/ RecordLessonFeedback(a) \/ RecordCoursePractice(a)
      PROVE  ProfileIInv'
    BY <1>5, TutorAnswerKeeps
<1>6. ASSUME NEW a \in Asks,
             \/ \E mark \in {"helped", "needs_guidance"} : RecordVideoFeedback(a, mark)
             \/ ClearTopics(a) \/ ClearVideoFeedback(a)
      PROVE  ProfileIInv'
    BY <1>6, FeedbackKeeps, ClearTopicsKeeps, ClearFeedbackKeeps
<1>7. CASE \/ EnrolmentChanges \/ StartExam \/ FinishExam
          \/ \E films \in SUBSET Films : ContentChanges(films)
    BY <1>7, ElsewhereKeeps, FinishExamKeeps
<1> QED
    BY <1>1, <1>2, <1>3, <1>4, <1>5, <1>6, <1>7 DEF ProfileNext

LEMMA ProfileInductive == ProfileSpec => []ProfileIInv
BY ProfileInitEstablishes, ProfileStepKeeps, PTL DEF ProfileSpec

\* Rows, feedback and requests are of their tables (src/src/db/schema.ts:639).
THEOREM ProfileTypeCorrect == ProfileSpec => []ProfileTypeOK
<1>1. ProfileIInv => ProfileTypeOK
    BY DEF ProfileIInv
<1> QED
    BY <1>1, ProfileInductive, PTL

\* However many requests of the student overlap with each other and with a clearing,
\* only what was agreed to is remembered, and its counters add up
\* (src/src/server/student/ai-tutor-profile.ts).
THEOREM ProfileIsOwn == ProfileSpec => []ProfileIsTheStudents
<1>1. ProfileIInv => ProfileIsTheStudents
    BY DEF ProfileIInv
<1> QED
    BY <1>1, ProfileInductive, PTL

\* The exam is asked about once, before the answer: what came during an exam that still
\* runs got no further (src/src/app/api/student/ai-tutor/route.ts:53).
THEOREM ExamsAreSatAlone == ProfileSpec => NoHelpInExam
<1>1. ProfileIInv =>
          [\A a \in Asks :
              asks[a].step \in {"admitted", "answering", "graded"} /\ asks'[a] = NoAsk
                  => ~asks[a].overlong]_profileVars
    BY DEF ProfileIInv, ProfileRows, AskIsFair
<1> QED
    BY <1>1, ProfileInductive, PTL DEF ProfileSpec, NoHelpInExam
================================================================================
