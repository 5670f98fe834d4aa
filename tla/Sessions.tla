------------------------------ MODULE Sessions ------------------------------
(***************************************************************************)
(* The sessions and the token version of one account: login, refresh,      *)
(* logout, logging out everywhere, changing the password and removing a    *)
(* device, with the cleanup jobs that revoke again what could not be       *)
(* revoked.  Requests interleave at their awaits; a step is the code from  *)
(* one await up to and with the command it awaits next.                    *)
(*                                                                         *)
(* A token stands for the pair of access and refresh token of one login or *)
(* refresh.  It carries the session and the token version of its payload;  *)
(* its number stands for the hash of the refresh token.  Expiry dates,     *)
(* device names and notifications are left out: a token may be refused as  *)
(* expired at any time.  A command that is rejected had no effect.         *)
(***************************************************************************)
EXTENDS Naturals, FiniteSets

CONSTANTS
    Ids,            \* sessions
    NoSession,
    All,            \* the cleanup job that revokes every session
    Handlers,       \* requests in flight at a time
    Requests,       \* the operations that are asked for
    MaxTokens,      \* bound on tokens
    MaxVersion,     \* bound on the token version
    MaxFaults       \* bound on rejected commands and restarts

Operations == {"login", "refresh", "logout", "logoutAll", "change", "remove"}

ASSUME NamesAssumption == NoSession \notin Ids /\ All \notin Ids
ASSUME RequestsAssumption == Requests \subseteq Operations
ASSUME BoundsAssumption ==
    MaxTokens \in Nat /\ MaxVersion \in Nat /\ MaxFaults \in Nat

VARIABLES
    version,        \* MongoDB: tokenVersion of the user
    session, hash,  \* MongoDB: the sessions and the token each accepts
    jobs,           \* MongoDB: open cleanup jobs
    next,           \* number of the next token
    tokens,         \* the tokens handed out
    run,            \* the requests in flight
    condemned,      \* history: what requests that returned were to end
    unrecorded,     \* history: the creation of a cleanup job failed
    faults, crashes

mongoVars == <<version, session, hash, jobs>>
historyVars == <<condemned, unrecorded>>
failureVars == <<faults, crashes>>
vars == <<mongoVars, next, tokens, run, historyVars, failureVars>>

Token == [session: Ids, number: 1..MaxTokens, version: 0..MaxVersion]

Idle == [at |-> "idle", session |-> NoSession, number |-> 0, version |-> 0]

Stops == {"create", "first", "find", "rotate", "save", "one", "all", "others",
          "jobOne", "jobAll"}

Underway == [at: Stops, session: Ids \union {NoSession},
             number: 0..MaxTokens, version: 0..MaxVersion]

TypeOK ==
    /\ version \in 0..MaxVersion
    /\ session \in [Ids -> {"none", "live", "revoked", "deleted"}]
    /\ hash \in [Ids -> 0..MaxTokens]
    /\ jobs \subseteq Ids \union {All}
    /\ next \in 1..(MaxTokens + 1)
    /\ tokens \subseteq Token
    /\ run \in [Handlers -> Underway \union {Idle}]
    /\ condemned \subseteq Ids
    /\ unrecorded \in BOOLEAN
    /\ faults \in 0..MaxFaults
    /\ crashes \in 0..MaxFaults

Init ==
    /\ version = 0
    /\ session = [s \in Ids |-> "none"]
    /\ hash = [s \in Ids |-> 0]
    /\ jobs = {}
    /\ next = 1
    /\ tokens = {}
    /\ run = [h \in Handlers |-> Idle]
    /\ condemned = {}
    /\ unrecorded = FALSE
    /\ faults = 0
    /\ crashes = 0

-----------------------------------------------------------------------------
(* Helpers.                                                                *)

IsAt(h, stop) == run[h].at = stop
Goes(h, stop) == run' = [run EXCEPT ![h].at = stop]
Returns(h) == run' = [run EXCEPT ![h] = Idle]

Live == {s \in Ids: session[s] = "live"}
Stored == Live \union {s \in Ids: session[s] = "revoked"}
HandedOut == {t.session: t \in tokens}

\* JwtStrategy takes the access token.
Valid(t) == t.version = version /\ t.session \in Live

Revoke(ids) ==
    session' = [s \in Ids |-> IF s \in ids \intersect Live THEN "revoked"
                              ELSE session[s]]

\* A request that goes to `stop' with what it knows of a token or of the user.
Begins(h, op, stop, s, n, v) ==
    /\ op \in Requests
    /\ IsAt(h, "idle")
    /\ run' = [run EXCEPT ![h] = [at |-> stop, session |-> s, number |-> n,
                                  version |-> v]]
    /\ UNCHANGED <<mongoVars, next, tokens, historyVars, failureVars>>

-----------------------------------------------------------------------------
(* login: the version is the one of the user that the credentials were     *)
(* compared with.                                                          *)

Login(h) == Begins(h, "login", "create", NoSession, 0, version)

CreateSession(h, s) ==
    /\ IsAt(h, "create")
    /\ session[s] = "none"
    /\ next <= MaxTokens
    /\ session' = [session EXCEPT ![s] = "live"]
    /\ next' = next + 1
    /\ run' = [run EXCEPT ![h] = [at |-> "first", session |-> s,
                                  number |-> next,
                                  version |-> run[h].version]]
    /\ UNCHANGED <<version, hash, jobs, tokens, historyVars, failureVars>>

HandOut(h) ==
    /\ tokens' = tokens \union
            {[session |-> run[h].session, number |-> run[h].number,
              version |-> run[h].version]}
    /\ Returns(h)

\* Mutant: the update filters on the identifier alone.
Rotate_ById(h) ==
    /\ IsAt(h, "first") \/ IsAt(h, "rotate")
    /\ hash' = [hash EXCEPT ![run[h].session] = run[h].number]
    /\ HandOut(h)
    /\ UNCHANGED <<version, session, jobs, next, historyVars, failureVars>>

\* Nobody asks whether the filter of rotateSession found the session.
Rotate(h) ==
    LET s == run[h].session IN
    /\ IsAt(h, "first") \/ IsAt(h, "rotate")
    /\ hash' = IF s \in Live THEN [hash EXCEPT ![s] = run[h].number] ELSE hash
    /\ HandOut(h)
    /\ UNCHANGED <<version, session, jobs, next, historyVars, failureVars>>

-----------------------------------------------------------------------------
(* refreshToken.                                                           *)

\* A token of another version ends every session of the account.
Refresh(h, t) ==
    \/ /\ t.version = version
       /\ Begins(h, "refresh", "find", t.session, t.number, t.version)
    \/ /\ t.version # version
       /\ Begins(h, "refresh", "all", NoSession, t.number, t.version)

FindSession(h) ==
    LET s == run[h].session IN
    /\ IsAt(h, "find")
    /\ IF s \in Live /\ hash[s] = run[h].number
       THEN /\ next <= MaxTokens
            /\ next' = next + 1
            /\ run' = [run EXCEPT ![h] = [at |-> "rotate", session |-> s,
                                          number |-> next,
                                          version |-> run[h].version]]
       ELSE UNCHANGED next /\ Returns(h)
    /\ UNCHANGED <<mongoVars, tokens, historyVars, failureVars>>

RefreshExpired(h, t) ==
    Begins(h, "refresh", "one", t.session, t.number, t.version)

-----------------------------------------------------------------------------
(* logout, logoutAllDevices, updatePassword, removeDevice.  Disabling the  *)
(* account, a ban and a new password by mail do what logging out           *)
(* everywhere does: read the user, save it with the next version, revoke.  *)

\* The refresh token need not be of the session that the access token is of.
Logout(h, t) ==
    /\ \E access \in tokens: Valid(access)
    /\ Begins(h, "logout", "one", t.session, t.number, t.version)

LogoutAllDevices(h) ==
    /\ version < MaxVersion
    /\ Begins(h, "logoutAll", "save", NoSession, 0, version)

UpdatePassword(h, t) ==
    /\ Valid(t)
    /\ Begins(h, "change", "save", t.session, t.number, t.version)

\* Only logging out everywhere saves a version: the one it read, plus one.
SaveUser(h) ==
    /\ IsAt(h, "save")
    /\ IF run[h].session = NoSession
       THEN version' = run[h].version + 1 /\ Goes(h, "all")
       ELSE UNCHANGED version /\ Goes(h, "others")
    /\ UNCHANGED <<session, hash, jobs, next, tokens, historyVars,
                   failureVars>>

\* A device is the sessions with its identifier, the revoked ones too.
RemoveDevice(t, device) ==
    /\ "remove" \in Requests
    /\ Valid(t)
    /\ session' = [s \in Ids |-> IF s \in device THEN "deleted"
                                ELSE session[s]]
    /\ UNCHANGED <<version, hash, jobs, next, tokens, run, historyVars,
                   failureVars>>

-----------------------------------------------------------------------------
(* revokeWithCleanup, revokeAllByUserIdWithCleanup and the like.           *)

\* The request is to end its own session or every other that was handed out.
ReturnsRevoking(h) ==
    /\ condemned' = condemned \union
            (IF run[h].at \in {"one", "jobOne"} THEN {run[h].session}
             ELSE HandedOut \ {run[h].session})
    /\ Returns(h)

RevokeOne(h) ==
    /\ IsAt(h, "one")
    /\ Revoke({run[h].session})
    /\ ReturnsRevoking(h)
    /\ UNCHANGED <<version, hash, jobs, next, tokens, unrecorded, failureVars>>

RevokeAll(h) ==
    /\ IsAt(h, "all")
    /\ Revoke(Ids)
    /\ ReturnsRevoking(h)
    /\ UNCHANGED <<version, hash, jobs, next, tokens, unrecorded, failureVars>>

RevokeOthers(h) ==
    /\ IsAt(h, "others")
    /\ Revoke(Ids \ {run[h].session})
    /\ ReturnsRevoking(h)
    /\ UNCHANGED <<version, hash, jobs, next, tokens, unrecorded, failureVars>>

\* Mutant: the failure to revoke is only logged.
AddSessionRevokeJob_Forgotten(h) ==
    /\ IsAt(h, "jobOne")
    /\ ReturnsRevoking(h)
    /\ UNCHANGED <<mongoVars, next, tokens, unrecorded, failureVars>>

AddSessionRevokeJob(h) ==
    /\ IsAt(h, "jobOne")
    /\ jobs' = jobs \union {run[h].session}
    /\ ReturnsRevoking(h)
    /\ UNCHANGED <<version, session, hash, next, tokens, unrecorded,
                   failureVars>>

\* Also when the session of the request was to be spared.
AddSessionRevokeAllJob(h) ==
    /\ IsAt(h, "jobAll")
    /\ jobs' = jobs \union {All}
    /\ ReturnsRevoking(h)
    /\ UNCHANGED <<version, session, hash, next, tokens, unrecorded,
                   failureVars>>

-----------------------------------------------------------------------------
(* The cleanup jobs (module CleanupJobs says when they run) and failures.  *)

\* An expired session, and one without a token yet, is no reason to revoke.
HandleSessionRevokeAll ==
    /\ All \in jobs
    /\ jobs' = jobs \ {All}
    /\ IF \E s \in Live: hash[s] # 0 THEN Revoke(Ids) ELSE UNCHANGED session
    /\ UNCHANGED <<version, hash, next, tokens, run, historyVars, failureVars>>

HandleSessionRevoke(s) ==
    /\ s \in jobs
    /\ jobs' = jobs \ {s}
    /\ Revoke({s})
    /\ UNCHANGED <<version, hash, next, tokens, run, historyVars, failureVars>>

\* A command is rejected.  Login revokes the session it created, a revocation
\* becomes a job, and the failure to create the job is swallowed.
Fails(h) ==
    /\ faults + crashes < MaxFaults
    /\ faults' = faults + 1
    /\ \/ /\ \/ IsAt(h, "first") /\ Goes(h, "one")
             \/ IsAt(h, "one") /\ Goes(h, "jobOne")
             \/ run[h].at \in {"all", "others"} /\ Goes(h, "jobAll")
             \/ /\ run[h].at \in {"create", "find", "rotate", "save"}
                /\ Returns(h)
          /\ UNCHANGED historyVars
       \/ /\ run[h].at \in {"jobOne", "jobAll"}
          /\ unrecorded' = TRUE
          /\ ReturnsRevoking(h)
    /\ UNCHANGED <<mongoVars, next, tokens, crashes>>

Crash ==
    /\ faults + crashes < MaxFaults
    /\ crashes' = crashes + 1
    /\ run' = [h \in Handlers |-> Idle]
    /\ UNCHANGED <<mongoVars, next, tokens, historyVars, faults>>

-----------------------------------------------------------------------------
Request(h) ==
    \/ Login(h)
    \/ LogoutAllDevices(h)
    \/ \E t \in tokens: \/ Refresh(h, t) \/ RefreshExpired(h, t)
                        \/ Logout(h, t) \/ UpdatePassword(h, t)

Progress(h) ==
    \/ \E s \in Ids: CreateSession(h, s)
    \/ Rotate(h) \/ FindSession(h) \/ SaveUser(h)
    \/ RevokeOne(h) \/ RevokeAll(h) \/ RevokeOthers(h)
    \/ AddSessionRevokeJob(h) \/ AddSessionRevokeAllJob(h)

Next ==
    \/ \E h \in Handlers: Request(h) \/ Progress(h) \/ Fails(h)
    \/ \E t \in tokens, device \in (SUBSET Stored) \ {{}}:
            RemoveDevice(t, device)
    \/ HandleSessionRevokeAll
    \/ \E s \in Ids: HandleSessionRevoke(s)
    \/ Crash

Spec == Init /\ [][Next]_vars

-----------------------------------------------------------------------------
(* Properties.                                                             *)

Over == {"revoked", "deleted"}

\* A session that was revoked or removed stays so and accepts no new token,
\* although a login or a refresh that found it alive writes to it later.
StaysOver ==
    \A s \in Ids: session[s] \in Over =>
        session'[s] \in Over /\ hash'[s] = hash[s]

RevokedForGood == [][StaysOver]_vars

\* What a request that returned was to revoke is revoked, or a cleanup job that
\* will revoke it is open: a failed revocation, or a failed login, is made up
\* for as long as MongoDB takes the job.
EveryRevocationHappens ==
    ~unrecorded =>
        \A s \in condemned \intersect Live: s \in jobs \/ All \in jobs

\* A request on its way knows what its stop needs: a session that exists, a
\* token, or a version below the bound.
RequestsKnow ==
    \A h \in Handlers:
        /\ run[h].at \in {"first", "find", "rotate", "one", "jobOne"} =>
            run[h].session \in Ids /\ session[run[h].session] # "none"
        /\ run[h].at \in {"first", "find", "rotate"} => run[h].number > 0
        /\ IsAt(h, "save") /\ run[h].session = NoSession =>
            run[h].version < MaxVersion

\* A session that tokens were handed out for was stored; while it is alive, it
\* has the hash without which the job for all sessions overlooks it.
TokensAreStored ==
    \A t \in tokens:
        /\ session[t.session] # "none"
        /\ session[t.session] = "live" => hash[t.session] # 0

\* The job that is to make up a revocation will find a reason to.
JobsWillDo ==
    /\ \A s \in condemned: session[s] # "none"
    /\ ~unrecorded => \A s \in condemned:
            session[s] = "live" => s \in jobs \/ (All \in jobs /\ hash[s] # 0)

Inv == TypeOK /\ RequestsKnow /\ TokensAreStored /\ JobsWillDo
=============================================================================
