------------------------------ MODULE Accounts ------------------------------
(***************************************************************************)
(* One account: how it is registered, activated, disabled and enabled, the *)
(* one-time codes that are mailed to it and kept in Redis, and the lockout *)
(* after too many wrong passwords.                                         *)
(*                                                                         *)
(* Requests interleave at their awaits; a step is the code from one await  *)
(* up to and with the command it awaits next.  A code is a number, kept by *)
(* its hash in Redis; who enters one enters any that was mailed.  A key    *)
(* may expire, and the cooldown of a mail be over, at any time.  What ends *)
(* the sessions after a change is in module Sessions, and so is the rest   *)
(* of the login; one other account shows only in that it may have the same *)
(* phone number, which identifies an account at the login, too; that an    *)
(* address is taken is one more way for a request to fail.                 *)
(***************************************************************************)
EXTENDS Naturals

CONSTANTS
    Handlers,       \* requests in flight at a time
    MaxCodes,       \* bound on codes
    Threshold       \* failures from which on the login is blocked

ASSUME BoundsAssumption == MaxCodes \in Nat /\ Threshold \in Nat \ {0}

Kinds == {"active", "forgot", "email"}

VARIABLES
    account,        \* MongoDB: "none", "new" until it is activated, "active"
    disabled, hasPassword,
    moved,          \* the address was changed
    phones,         \* those of this and the other account with one number
    code, next,     \* Redis: the code of each kind, 0 for none; the next one
    failures,       \* Redis: the counter of wrong passwords, up to Threshold
    blocked,        \* Redis: the key that blocks the login
    run,            \* the requests in flight
    dead,           \* history: codes that were used, replaced or have expired
    due,            \* history: the requests that began with a code not dead, or
                    \* with one that is Spared
    enabled,        \* history: the requests during which the account was
                    \* enabled at some moment
    lifted,         \* history: the block ended or was lost since the last failure
    raced           \* history: both accounts were given the number at once

userVars == <<account, disabled, hasPassword, moved, phones>>
codeVars == <<code, next, dead>>
loginVars == <<failures, blocked, lifted>>
vars == <<userVars, codeVars, loginVars, run, due, enabled, raced>>

Codes == 1..MaxCodes

Idle == [at |-> "idle", kind |-> "none", code |-> 0]

Owners == {"own", "other"}

State == [at: {"idle", "exists", "phone", "unset", "insert", "google", "save", "get", "del", "effect",
               "commit", "delEmail", "password", "disable", "enable",
               "check", "compare", "block", "clear"},
          kind: Kinds \union Owners \union {"none", "create"}, code: 0..MaxCodes]

TypeOK ==
    /\ account \in {"none", "new", "active"}
    /\ disabled \in BOOLEAN /\ hasPassword \in BOOLEAN /\ moved \in BOOLEAN
    /\ code \in [Kinds -> 0..MaxCodes]
    /\ next \in 1..(MaxCodes + 1)
    /\ failures \in 0..Threshold
    /\ blocked \in BOOLEAN /\ lifted \in BOOLEAN
    /\ run \in [Handlers -> State]
    /\ phones \subseteq Owners /\ raced \in BOOLEAN
    /\ dead \subseteq Codes
    /\ due \subseteq Handlers
    /\ enabled \subseteq Handlers

Init ==
    /\ account = "none"
    /\ disabled = FALSE /\ hasPassword = FALSE /\ moved = FALSE
    /\ code = [k \in Kinds |-> 0]
    /\ next = 1
    /\ failures = 0
    /\ blocked = FALSE /\ lifted = FALSE
    /\ run = [h \in Handlers |-> Idle]
    /\ phones = {} /\ raced = FALSE
    /\ dead = {} /\ due = {} /\ enabled = {}

-----------------------------------------------------------------------------
(* Helpers.                                                                *)

IsAt(h, stop) == run[h].at = stop
Goes(h, stop) == run' = [run EXCEPT ![h].at = stop]
Returns(h) == run' = [run EXCEPT ![h] = Idle]

Begins(h, stop, k, c) ==
    /\ IsAt(h, "idle")
    /\ run' = [run EXCEPT ![h] = [at |-> stop, kind |-> k, code |-> c]]
    /\ UNCHANGED <<userVars, codeVars, loginVars>>

-----------------------------------------------------------------------------
(* Registration, and the first login with Google.                          *)

Register(h) == account = "none" /\ Begins(h, "insert", "active", 0)

\* By an administrator, who gives a phone number, too.
Create(h) == account = "none" /\ Begins(h, "exists", "create", 0)

\* The index on the address refuses the second of two that found none.
Insert(h) ==
    /\ IsAt(h, "insert")
    /\ IF account = "none"
       THEN /\ account' = "new" /\ hasPassword' = TRUE
            /\ phones' = IF run[h].kind = "create" THEN phones \union {"own"} ELSE phones
            /\ run' = [run EXCEPT ![h].at = "save", ![h].kind = "active"]
       ELSE UNCHANGED <<account, hasPassword, phones>> /\ Returns(h)
    /\ UNCHANGED <<disabled, moved, codeVars, loginVars>>

GoogleLogin(h) == account = "none" /\ Begins(h, "google", "none", 0)

CreateGoogleAccount(h) ==
    /\ IsAt(h, "google")
    /\ account' = IF account = "none" THEN "active" ELSE account
    /\ Returns(h)
    /\ UNCHANGED <<phones, disabled, hasPassword, moved, codeVars, loginVars>>

-----------------------------------------------------------------------------
(* A code is asked for: the user is read, then the cooldown, then the code *)
(* is stored and mailed.                                                   *)

ReSendCodeActive(h) ==
    /\ account = "new" /\ ~disabled
    /\ Begins(h, "save", "active", 0)

SendMailForgotPassword(h) ==
    /\ account # "none" /\ ~disabled /\ hasPassword
    /\ Begins(h, "save", "forgot", 0)

\* For one other address.
SendMailUpdateEmail(h) ==
    /\ account = "active" /\ ~disabled /\ ~moved
    /\ Begins(h, "save", "email", 0)

SaveCode(h) ==
    LET k == run[h].kind IN
    /\ IsAt(h, "save")
    /\ next <= MaxCodes
    /\ code' = [code EXCEPT ![k] = next]
    /\ next' = next + 1
    /\ dead' = dead \union ({code[k]} \ {0})
    /\ Returns(h)
    /\ UNCHANGED <<userVars, loginVars>>

-----------------------------------------------------------------------------
(* A code is entered.                                                      *)

Mailed == 1..(next - 1)

ActivateUser(h, c) ==
    /\ account = "new" /\ ~disabled
    /\ Begins(h, "get", "active", c)

\* Mutant: the account is not asked whether it is disabled.
ResetPassword_Disabled(h, c) ==
    /\ account # "none" /\ hasPassword
    /\ Begins(h, "get", "forgot", c)

ResetPassword(h, c) ==
    /\ account # "none" /\ ~disabled /\ hasPassword
    /\ Begins(h, "get", "forgot", c)

UpdateEmail(h, c) ==
    /\ account = "active" /\ ~disabled
    /\ Begins(h, "get", "email", c)

\* The code for a new address is deleted last.
GetCode(h) ==
    LET r == run[h] IN
    /\ IsAt(h, "get")
    /\ IF code[r.kind] # r.code THEN Returns(h)
       ELSE Goes(h, IF r.kind = "email" THEN "commit" ELSE "del")
    /\ UNCHANGED <<userVars, codeVars, loginVars>>

\* Mutant: the code is left to expire.
DelCode_Left(h) ==
    /\ IsAt(h, "del")
    /\ Goes(h, "effect")
    /\ UNCHANGED <<userVars, codeVars, loginVars>>

\* Whatever code the key has by now.
DelCode(h) ==
    /\ IsAt(h, "del")
    /\ code' = [code EXCEPT ![run[h].kind] = 0]
    /\ Goes(h, "effect")
    /\ UNCHANGED <<userVars, next, dead, loginVars>>

\* A new password makes no difference to what is modelled here.
SaveUser(h) ==
    /\ IsAt(h, "effect")
    /\ account' = IF run[h].kind = "active" THEN "active" ELSE account
    /\ dead' = dead \union {run[h].code}
    /\ Returns(h)
    /\ UNCHANGED <<phones, disabled, hasPassword, moved, code, next, loginVars>>

\* The transaction asks again whether the account is enabled.
CommitEmail(h) ==
    /\ IsAt(h, "commit")
    /\ moved' = (moved \/ ~disabled)
    /\ IF disabled THEN Returns(h) /\ UNCHANGED dead
       ELSE Goes(h, "delEmail") /\ dead' = dead \union {run[h].code}
    /\ UNCHANGED <<phones, account, disabled, hasPassword, code, next, loginVars>>

\* Whatever code the key has by now.  If the command is rejected, that is logged.
DelEmailCode(h) ==
    /\ IsAt(h, "delEmail")
    /\ code' = [code EXCEPT !["email"] = 0]
    /\ Returns(h)
    /\ UNCHANGED <<userVars, next, dead, loginVars>>

Expires(k) ==
    /\ code[k] # 0
    /\ code' = [code EXCEPT ![k] = 0]
    /\ dead' = dead \union {code[k]}
    /\ UNCHANGED <<userVars, next, loginVars, run>>

-----------------------------------------------------------------------------
(* A password for an account of Google, disabling and enabling.            *)

CreatePassword(h) ==
    /\ account = "active" /\ ~disabled /\ ~hasPassword
    /\ Begins(h, "password", "none", 0)

SavePassword(h) ==
    /\ IsAt(h, "password")
    /\ hasPassword' = TRUE
    /\ Returns(h)
    /\ UNCHANGED <<phones, account, disabled, moved, codeVars, loginVars>>

DisableSelf(h) ==
    /\ account = "active" /\ ~disabled
    /\ Begins(h, "disable", "none", 0)

EnableUserByAdmin(h) ==
    /\ disabled
    /\ Begins(h, "enable", "none", 0)

SaveDisabledState(h) ==
    /\ IsAt(h, "disable") \/ IsAt(h, "enable")
    /\ disabled' = IsAt(h, "disable")
    /\ Returns(h)
    /\ UNCHANGED <<phones, account, hasPassword, moved, codeVars, loginVars>>

-----------------------------------------------------------------------------
(* The phone number of the profile; no index keeps it unique.              *)

Owner(h) == IF run[h].kind = "other" THEN "other" ELSE "own"

MayUpdate(owner) == owner = "own" => account = "active" /\ ~disabled

Update(h, owner) == MayUpdate(owner) /\ Begins(h, "exists", owner, 0)

UpdateToNone(h, owner) == MayUpdate(owner) /\ Begins(h, "unset", owner, 0)

\* Mutant: the number is looked for among the accounts of this address only.
IsPhoneExisted_Own(h) ==
    /\ IsAt(h, "exists")
    /\ IF Owner(h) \in phones THEN Returns(h)
       ELSE Goes(h, IF run[h].kind = "create" THEN "insert" ELSE "phone")
    /\ UNCHANGED <<userVars, codeVars, loginVars>>

IsPhoneExisted(h) ==
    /\ IsAt(h, "exists")
    /\ IF phones \ {Owner(h)} # {} THEN Returns(h)
       ELSE Goes(h, IF run[h].kind = "create" THEN "insert" ELSE "phone")
    /\ UNCHANGED <<userVars, codeVars, loginVars>>

SavePhone(h) ==
    /\ IsAt(h, "phone") \/ IsAt(h, "unset")
    /\ phones' = IF IsAt(h, "phone") THEN phones \union {Owner(h)} ELSE phones \ {Owner(h)}
    /\ Returns(h)
    /\ UNCHANGED <<account, disabled, hasPassword, moved, codeVars, loginVars>>

-----------------------------------------------------------------------------
(* validateUser: the block is asked for before the password is compared.   *)

ValidateUser(h) ==
    /\ account # "none" /\ hasPassword
    /\ Begins(h, "check", "none", 0)

CheckBlockedLoginFail(h) ==
    /\ IsAt(h, "check")
    /\ IF blocked THEN Returns(h) ELSE Goes(h, "compare")
    /\ UNCHANGED <<userVars, codeVars, loginVars>>

\* Mutant: the failure that reaches the threshold sets the block, no later one.
RecordLoginFailure_Once(h) ==
    /\ IsAt(h, "compare")
    /\ failures' = IF failures < Threshold THEN failures + 1 ELSE failures
    /\ IF failures = Threshold - 1 THEN Goes(h, "block") ELSE Returns(h)
    /\ lifted' = FALSE
    /\ UNCHANGED <<userVars, codeVars, blocked>>

\* The password is wrong.
RecordLoginFailure(h) ==
    /\ IsAt(h, "compare")
    /\ failures' = IF failures < Threshold THEN failures + 1 ELSE failures
    /\ IF failures' = Threshold THEN Goes(h, "block") ELSE Returns(h)
    /\ lifted' = FALSE
    /\ UNCHANGED <<userVars, codeVars, blocked>>

SetBlock(h) ==
    /\ IsAt(h, "block")
    /\ blocked' = TRUE /\ lifted' = FALSE
    /\ Returns(h)
    /\ UNCHANGED <<userVars, codeVars, failures>>

\* The password is right: the counter goes first, then the block.
ClearFailures(h) ==
    /\ IsAt(h, "compare")
    /\ failures' = 0
    /\ Goes(h, "clear")
    /\ UNCHANGED <<userVars, codeVars, blocked, lifted>>

ClearBlock(h) ==
    /\ IsAt(h, "clear")
    /\ blocked' = FALSE /\ lifted' = TRUE
    /\ Returns(h)
    /\ UNCHANGED <<userVars, codeVars, failures>>

FailuresExpire ==
    /\ failures # 0
    /\ failures' = 0
    /\ UNCHANGED <<userVars, codeVars, blocked, lifted, run>>

BlockExpires ==
    /\ blocked
    /\ blocked' = FALSE /\ lifted' = TRUE
    /\ UNCHANGED <<userVars, codeVars, failures, run>>

-----------------------------------------------------------------------------
\* A command is rejected, or the process ends.
Fails(h) ==
    /\ ~IsAt(h, "idle")
    /\ lifted' = (lifted \/ IsAt(h, "block"))
    /\ Returns(h)
    /\ UNCHANGED <<userVars, codeVars, failures, blocked>>

Request(h) ==
    \/ Register(h) \/ Create(h) \/ GoogleLogin(h)
    \/ \E owner \in Owners: Update(h, owner) \/ UpdateToNone(h, owner)
    \/ ReSendCodeActive(h) \/ SendMailForgotPassword(h) \/ SendMailUpdateEmail(h)
    \/ \E c \in Mailed: ActivateUser(h, c) \/ ResetPassword(h, c) \/ UpdateEmail(h, c)
    \/ CreatePassword(h) \/ DisableSelf(h) \/ EnableUserByAdmin(h)
    \/ ValidateUser(h)

Progress(h) ==
    \/ Insert(h) \/ CreateGoogleAccount(h) \/ SaveCode(h)
    \/ GetCode(h) \/ DelCode(h) \/ SaveUser(h) \/ CommitEmail(h) \/ DelEmailCode(h)
    \/ SavePassword(h) \/ SaveDisabledState(h)
    \/ IsPhoneExisted(h) \/ SavePhone(h)
    \/ CheckBlockedLoginFail(h) \/ RecordLoginFailure(h) \/ SetBlock(h)
    \/ ClearFailures(h) \/ ClearBlock(h)

Steps ==
    \/ \E h \in Handlers: Request(h) \/ Progress(h) \/ Fails(h)
    \/ \E k \in Kinds: Expires(k)
    \/ FailuresExpire \/ BlockExpires

Entered(h) == run'[h].code

\* A code for a new address that was used and is not deleted: the address changes
\* first, and the deletion may fail.
Spared == {code["email"]} \intersect dead

\* Past the check, before the write.
Past(h) == IsAt(h, "phone") \/ (IsAt(h, "insert") /\ run[h].kind = "create")

Remembers ==
    /\ raced' = /\ raced \/ {Owner(h): h \in {g \in Handlers: Past(g)}} = Owners
                /\ phones' = Owners \/ \E h \in Handlers: Past(h)'
    /\ due' = {h \in Handlers: /\ Entered(h) # 0
                               /\ h \in due \/ Entered(h) \notin dead \ Spared}
    /\ enabled' = {h \in Handlers: /\ run'[h].at # "idle"
                                   /\ h \in enabled \/ ~disabled'}

Next == Steps /\ Remembers

Spec == Init /\ [][Next]_vars

-----------------------------------------------------------------------------
(* Properties.                                                             *)

\* An account is activated, its password reset and its address changed only with
\* a code that was neither used up, nor replaced, nor expired when the request
\* began: of the requests with one code only those in flight at once succeed.  One
\* exception is named: a code for a new address works again until it is deleted,
\* which is after the change, or expires if that fails.
TakesEffect(h) == SaveUser(h) \/ (CommitEmail(h) /\ ~disabled)

NoDeadCode ==
    [][\A h \in Handlers: TakesEffect(h) => h \in due]_vars

\* Nothing of an account changes by a request all through which it was disabled:
\* each asks at its beginning, and an administrator enables it again meanwhile.
NothingWhileDisabled ==
    [][\A h \in Handlers: TakesEffect(h) \/ SavePassword(h) => h \in enabled]_vars

\* After too many wrong passwords the login is blocked, or about to be, unless
\* the block has expired, was lifted by a login in flight, or got lost.
LockoutHolds ==
    failures = Threshold =>
        blocked \/ lifted \/ \E h \in Handlers: IsAt(h, "block")

\* Two accounts have one phone number only when both were given it at once, each
\* after it had found the number free.
PhoneIsUnique == phones = Owners => raced

\* Whoever is past the check while the other has the number is in such a race.
PhoneRacesAreSeen ==
    \A h \in Handlers: Past(h) /\ phones \ {Owner(h)} # {} => raced

\* A code is of one kind and lives until it is used, replaced or expires, except
\* that the one for a new address may stay, and a request that found its code does
\* not leave it, or finds it there no more.
Accepted(h) == run[h].at \in {"del", "effect", "commit", "delEmail"}

CodesAreSingle ==
    /\ \A k \in Kinds: code[k] < next /\ (code[k] \notin dead \/ k = "email")
    /\ \A c \in dead: c < next
    /\ \A j, k \in Kinds: code[j] = code[k] /\ code[j] # 0 => j = k
    /\ \A h \in Handlers: run[h].code < next
    /\ \A h \in Handlers: run[h].at \in {"save", "get"} => run[h].kind \in Kinds
    /\ \A h \in Handlers: IsAt(h, "get") => run[h].code # 0

AcceptedAreDue ==
    /\ \A h \in Handlers: Accepted(h) => h \in due /\ run[h].code # 0
    /\ \A h \in Handlers: Accepted(h) =>
        /\ run[h].kind \in Kinds
        /\ \A k \in Kinds: code[k] = run[h].code => k = run[h].kind
    /\ \A h \in Handlers: IsAt(h, "effect") => code[run[h].kind] # run[h].code
    /\ \A h \in Handlers:
        run[h].at \in {"commit", "delEmail"} => run[h].kind = "email"

\* A request that asks whether the account is enabled asks before anything else.
AskedWhenEnabled ==
    \A h \in Handlers: Accepted(h) \/ run[h].at \in {"get", "password"} =>
        h \in enabled

Inv ==
    /\ TypeOK
    /\ LockoutHolds
    /\ PhoneIsUnique
    /\ PhoneRacesAreSeen
    /\ CodesAreSingle
    /\ AcceptedAreDue
    /\ AskedWhenEnabled
=============================================================================
