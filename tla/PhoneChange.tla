----------------------------- MODULE PhoneChange -----------------------------
(***************************************************************************)
(* A student moves the account to another number.  A request spends one    *)
(* send of the account's budget and one of the number's, stores the only   *)
(* challenge of the account and sends its code; a code that the gateway    *)
(* does not acknowledge takes the challenge with it.  The student then has *)
(* a few attempts to enter the code.  Sign-in codes spend the budget of    *)
(* the number too.                                                         *)
(*                                                                         *)
(* One unit of time is the cooldown between two sends.  The gateway call   *)
(* of a request is cut off long before (sendSmsOtp), so a request that is  *)
(* still running when the clock moves has died: this is the assumption of  *)
(* Tick.  Codes are distinct, and a guess is wrong.                        *)
(***************************************************************************)
EXTENDS Naturals, FiniteSets

CONSTANTS
    Phones,       \* numbers
    FirstPhone,   \* the number the account starts with
    Lifetime,     \* of a challenge
    SendWindow,   \* in which a budget counts its sends
    MaxSends, MaxAttempts,
    LastCode, LastMinute \* bounds on the codes and on the clock

ASSUME PhoneAssumption ==
    /\ FirstPhone \in Phones
    /\ {Lifetime, SendWindow, MaxAttempts, LastCode, LastMinute} \subseteq Nat
    /\ MaxSends \in Nat \ {0}

TheAccount == "account"  \* the key of the budget of the account
ASSUME TheAccountAssumption == TheAccount \notin Phones

CodeIds == 1..LastCode
Guess == 0

NoBudget == [count |-> 0]
Budget == [count : 1..MaxSends, last : 0..LastMinute, start : 0..LastMinute]
NoChallenge == [id |-> 0]
\* A challenge keeps its id when it is overwritten.
Challenge == [id : CodeIds, phone : Phones, code : CodeIds,
              attempts : 0..MaxAttempts, expires : 0..(LastMinute + Lifetime)]
\* A request: the number it wants, the budgets it has spent, then its challenge.
Request == [phone : Phones, reserved : {1, 2}, id : 0..LastCode, code : 0..LastCode]

VARIABLES
    minute,    \* the clock
    phone,     \* the account's number
    taken,     \* numbers of other accounts
    mayChange, \* is the student's membership active?
    budget,    \* sends of the account and of each number
    challenge, \* the account's challenge
    requests,  \* requests in progress
    code       \* each code: unused, sent or acknowledged

phoneVars == <<minute, phone, taken, mayChange, budget, challenge, requests, code>>

PhoneInit ==
    /\ minute = 0 /\ phone = FirstPhone /\ taken = {} /\ mayChange = TRUE
    /\ budget = [k \in Phones \cup {TheAccount} |-> NoBudget]
    /\ challenge = NoChallenge /\ requests = {}
    /\ code = [c \in CodeIds |-> "unused"]

(***************************************************************************)
(* Budgets.                                                                *)
(***************************************************************************)
WindowOver(k) == budget[k].start + SendWindow <= minute

\* Fault: sends may follow each other at once.
NoCooldown(k) == budget[k] # NoBudget => WindowOver(k) \/ budget[k].count < MaxSends

\* Fault: one send more than the limit.
OneSendMore(k) ==
    budget[k] # NoBudget =>
        /\ budget[k].last + 1 <= minute
        /\ WindowOver(k) \/ budget[k].count <= MaxSends

MaySend(k) ==
    budget[k] # NoBudget =>
        /\ budget[k].last + 1 <= minute
        /\ WindowOver(k) \/ budget[k].count < MaxSends

ReserveOtpDispatch(k) ==
    /\ MaySend(k)
    /\ budget' = [budget EXCEPT ![k] =
           IF @ = NoBudget \/ WindowOver(k)
           THEN [count |-> 1, last |-> minute, start |-> minute]
           ELSE [count |-> @.count + 1, last |-> minute, start |-> @.start]]

\* The code itself is stored and checked by the sign-in library.
SendSignInCode(n) ==
    /\ ReserveOtpDispatch(n)
    /\ UNCHANGED <<minute, phone, taken, mayChange, challenge, requests, code>>

(***************************************************************************)
(* A request.                                                              *)
(***************************************************************************)
RequestStudentPhoneChange(n) ==
    /\ mayChange /\ n # phone /\ n \notin taken
    /\ ReserveOtpDispatch(TheAccount)
    /\ requests' = requests \cup {[phone |-> n, reserved |-> 1, id |-> 0, code |-> 0]}
    /\ UNCHANGED <<minute, phone, taken, mayChange, challenge, code>>

\* Refused, the request has spent a send of the account all the same.
ReserveForNumber(r) ==
    /\ r.reserved = 1
    /\ \/ /\ ReserveOtpDispatch(r.phone)
          /\ requests' = (requests \ {r}) \cup {[r EXCEPT !.reserved = 2]}
       \/ /\ ~MaySend(r.phone)
          /\ requests' = requests \ {r} /\ UNCHANGED budget
    /\ UNCHANGED <<minute, phone, taken, mayChange, challenge, code>>

StoreChallenge(r, c) ==
    LET id == IF challenge = NoChallenge THEN c ELSE challenge.id IN
    /\ r.reserved = 2 /\ r.code = 0
    /\ code[c] = "unused" /\ \A d \in CodeIds : d < c => code[d] # "unused"
    /\ challenge' = [id |-> id, phone |-> r.phone, code |-> c,
                     attempts |-> 0, expires |-> minute + Lifetime]
    /\ code' = [code EXCEPT ![c] = "sent"]
    /\ requests' = (requests \ {r}) \cup {[r EXCEPT !.id = id, !.code = c]}
    /\ UNCHANGED <<minute, phone, taken, mayChange, budget>>

SmsAcknowledged(r) ==
    /\ r.code # 0
    /\ code' = [code EXCEPT ![r.code] = "acknowledged"]
    /\ requests' = requests \ {r}
    /\ UNCHANGED <<minute, phone, taken, mayChange, budget, challenge>>

\* The code may have arrived all the same.
SmsFails(r) ==
    /\ r.code # 0
    /\ challenge' = IF challenge.id = r.id THEN NoChallenge ELSE challenge
    /\ requests' = requests \ {r}
    /\ UNCHANGED <<minute, phone, taken, mayChange, budget, code>>

RequestDies(r) ==
    /\ requests' = requests \ {r}
    /\ UNCHANGED <<minute, phone, taken, mayChange, budget, challenge, code>>

(***************************************************************************)
(* The code.                                                               *)
(***************************************************************************)
Expired == challenge.expires <= minute

VerifyStudentPhoneChange(c) ==
    /\ mayChange /\ challenge # NoChallenge
    /\ \/ Expired /\ challenge' = NoChallenge /\ UNCHANGED phone
       \/ /\ ~Expired /\ challenge.attempts < MaxAttempts /\ c # challenge.code
          /\ challenge' = [challenge EXCEPT !.attempts = @ + 1] /\ UNCHANGED phone
       \/ /\ ~Expired /\ challenge.attempts < MaxAttempts /\ c = challenge.code
          /\ challenge' = NoChallenge
          /\ phone' = IF challenge.phone \in taken THEN phone ELSE challenge.phone
    /\ UNCHANGED <<minute, taken, mayChange, budget, requests, code>>

(***************************************************************************)
(* Everything else.                                                        *)
(***************************************************************************)
SomebodyElseTakes(n) ==
    /\ n # phone /\ n \notin taken
    /\ taken' = taken \cup {n}
    /\ UNCHANGED <<minute, phone, mayChange, budget, challenge, requests, code>>

StudentMembershipChanges ==
    /\ mayChange' = ~mayChange
    /\ UNCHANGED <<minute, phone, taken, budget, challenge, requests, code>>

Tick ==
    /\ minute < LastMinute /\ requests = {}
    /\ minute' = minute + 1
    /\ UNCHANGED <<phone, taken, mayChange, budget, challenge, requests, code>>

PhoneNext ==
    \/ \E n \in Phones :
          SendSignInCode(n) \/ RequestStudentPhoneChange(n) \/ SomebodyElseTakes(n)
    \/ \E r \in requests :
          \/ ReserveForNumber(r) \/ SmsAcknowledged(r) \/ SmsFails(r) \/ RequestDies(r)
          \/ \E c \in CodeIds : StoreChallenge(r, c)
    \/ \E c \in CodeIds \cup {Guess} :
          (c # Guess => code[c] # "unused") /\ VerifyStudentPhoneChange(c)
    \/ StudentMembershipChanges \/ Tick

PhoneSpec == PhoneInit /\ [][PhoneNext]_phoneVars
------------------------------------------------------------------------------
(***************************************************************************)
(* Properties.                                                             *)
(***************************************************************************)
\* Every row is of its table: no budget and no challenge passes its limit, and no
\* two accounts have one number.
PhoneTypeOK ==
    /\ minute \in 0..LastMinute /\ mayChange \in BOOLEAN
    /\ taken \subseteq Phones /\ phone \in Phones \ taken
    /\ budget \in [Phones \cup {TheAccount} -> Budget \cup {NoBudget}]
    /\ challenge \in Challenge \cup {NoChallenge}
    /\ requests \subseteq Request
    /\ code \in [CodeIds -> {"unused", "sent", "acknowledged"}]

\* The code the gateway has acknowledged stays good: its challenge ends by being
\* used or expired, because the number went to another account, or by a later
\* request; an earlier request that fails late does not take it along.
AcknowledgedCodeStands ==
    [][challenge # NoChallenge /\ challenge' = NoChallenge
           /\ code[challenge.code] = "acknowledged" =>
         Expired \/ challenge.phone \in taken \cup {phone'}]_phoneVars
================================================================================
