---------------------------- MODULE SessionsProofs ----------------------------
(***************************************************************************)
(* For any number of sessions, requests, tokens and failures: a session    *)
(* that is over stays so, and a revocation that was asked for happens or   *)
(* has a job that will make it happen.                                     *)
(*                                                                         *)
(* The job for all sessions does nothing when it sees no session with a    *)
(* token, so the argument for the second part needs more than that the job *)
(* is open: the sessions it stands for have a token (TokensAreStored).     *)
(***************************************************************************)
EXTENDS Sessions, TLAPS

(***************************************************************************)
(* Type correctness.  What a request stores is typed because it knows its  *)
(* session and its token, which have to be carried along.                  *)
(***************************************************************************)
LEMMA TypeIsInductive ==
  ASSUME TypeOK, RequestsKnow, [Next]_vars
  PROVE  TypeOK'
  <2> USE NamesAssumption, BoundsAssumption
      DEF TypeOK, Token, Idle, Stops, Underway, RequestsKnow, IsAt, Goes,
          Returns, Live, Stored, HandedOut, Valid, Revoke, Begins, HandOut,
          ReturnsRevoking, mongoVars, historyVars, failureVars
  <2>1. ASSUME NEW h \in Handlers, Login(h)
       PROVE  TypeOK'
    BY <2>1 DEF Login
  <2>2. ASSUME NEW h \in Handlers, LogoutAllDevices(h)
       PROVE  TypeOK'
    BY <2>2 DEF LogoutAllDevices
  <2>3. ASSUME NEW h \in Handlers, NEW t \in tokens, Refresh(h, t)
       PROVE  TypeOK'
    BY <2>3 DEF Refresh
  <2>4. ASSUME NEW h \in Handlers, NEW t \in tokens, RefreshExpired(h, t)
       PROVE  TypeOK'
    BY <2>4 DEF RefreshExpired
  <2>5. ASSUME NEW h \in Handlers, NEW t \in tokens, Logout(h, t)
       PROVE  TypeOK'
    BY <2>5 DEF Logout
  <2>6. ASSUME NEW h \in Handlers, NEW t \in tokens, UpdatePassword(h, t)
       PROVE  TypeOK'
    BY <2>6 DEF UpdatePassword
  <2>7. ASSUME NEW h \in Handlers, NEW s \in Ids, CreateSession(h, s)
       PROVE  TypeOK'
    BY <2>7 DEF CreateSession
  <2>8. ASSUME NEW h \in Handlers, Rotate(h)
       PROVE  TypeOK'
    BY <2>8 DEF Rotate
  <2>9. ASSUME NEW h \in Handlers, FindSession(h)
       PROVE  TypeOK'
    BY <2>9 DEF FindSession
  <2>10. ASSUME NEW h \in Handlers, SaveUser(h)
       PROVE  TypeOK'
    BY <2>10 DEF SaveUser
  <2>11. ASSUME NEW h \in Handlers, RevokeOne(h)
       PROVE  TypeOK'
    BY <2>11 DEF RevokeOne
  <2>12. ASSUME NEW h \in Handlers, RevokeAll(h)
       PROVE  TypeOK'
    BY <2>12 DEF RevokeAll
  <2>13. ASSUME NEW h \in Handlers, RevokeOthers(h)
       PROVE  TypeOK'
    BY <2>13 DEF RevokeOthers
  <2>14. ASSUME NEW h \in Handlers, AddSessionRevokeJob(h)
       PROVE  TypeOK'
    BY <2>14 DEF AddSessionRevokeJob
  <2>15. ASSUME NEW h \in Handlers, AddSessionRevokeAllJob(h)
       PROVE  TypeOK'
    BY <2>15 DEF AddSessionRevokeAllJob
  <2>16. ASSUME NEW h \in Handlers, Fails(h)
       PROVE  TypeOK'
    <3>1. faults' \in 0..MaxFaults /\ crashes' \in 0..MaxFaults
      BY <2>16 DEF Fails
    <3>2. run' \in [Handlers -> Underway \union {Idle}]
      BY <2>16 DEF Fails
    <3>3. condemned' \subseteq Ids
      BY <2>16 DEF Fails
    <3>4. unrecorded' \in BOOLEAN
      BY <2>16 DEF Fails
    <3> QED
      BY <2>16, <3>1, <3>2, <3>3, <3>4 DEF Fails
  <2>17. ASSUME NEW t \in tokens, NEW device \in SUBSET Stored,
                RemoveDevice(t, device)
       PROVE  TypeOK'
    BY <2>17 DEF RemoveDevice
  <2>18. ASSUME HandleSessionRevokeAll
       PROVE  TypeOK'
    BY <2>18 DEF HandleSessionRevokeAll
  <2>19. ASSUME NEW s \in Ids, HandleSessionRevoke(s)
       PROVE  TypeOK'
    BY <2>19 DEF HandleSessionRevoke
  <2>20. ASSUME Crash
       PROVE  TypeOK'
    BY <2>20 DEF Crash
  <2>21. CASE UNCHANGED vars
    BY <2>21 DEF vars, mongoVars, historyVars, failureVars
  <2> QED
    BY <2>1, <2>2, <2>3, <2>4, <2>5, <2>6, <2>7, <2>8, <2>9, <2>10, <2>11,
       <2>12, <2>13, <2>14, <2>15, <2>16, <2>17, <2>18, <2>19, <2>20, <2>21
       DEF Next, Request, Progress

(***************************************************************************)
(* A session a request has in hand is stored, and a session never goes back*)
(* to not being stored.                                                    *)
(***************************************************************************)
LEMMA RequestsGoOnKnowing ==
  ASSUME TypeOK, RequestsKnow, TokensAreStored, [Next]_vars
  PROVE  RequestsKnow'
  <2> USE NamesAssumption, BoundsAssumption
      DEF TypeOK, Token, Idle, Stops, Underway, RequestsKnow, TokensAreStored,
          IsAt, Goes, Returns, Live, Stored, HandedOut, Valid, Revoke, Begins,
          HandOut, ReturnsRevoking, mongoVars, historyVars, failureVars
  <2>1. ASSUME NEW h \in Handlers, Login(h)
       PROVE  RequestsKnow'
    BY <2>1 DEF Login
  <2>2. ASSUME NEW h \in Handlers, LogoutAllDevices(h)
       PROVE  RequestsKnow'
    BY <2>2 DEF LogoutAllDevices
  <2>3. ASSUME NEW h \in Handlers, NEW t \in tokens, Refresh(h, t)
       PROVE  RequestsKnow'
    BY <2>3 DEF Refresh
  <2>4. ASSUME NEW h \in Handlers, NEW t \in tokens, RefreshExpired(h, t)
       PROVE  RequestsKnow'
    BY <2>4 DEF RefreshExpired
  <2>5. ASSUME NEW h \in Handlers, NEW t \in tokens, Logout(h, t)
       PROVE  RequestsKnow'
    BY <2>5 DEF Logout
  <2>6. ASSUME NEW h \in Handlers, NEW t \in tokens, UpdatePassword(h, t)
       PROVE  RequestsKnow'
    BY <2>6 DEF UpdatePassword
  <2>7. ASSUME NEW h \in Handlers, NEW s \in Ids, CreateSession(h, s)
       PROVE  RequestsKnow'
    BY <2>7 DEF CreateSession
  <2>8. ASSUME NEW h \in Handlers, Rotate(h)
       PROVE  RequestsKnow'
    BY <2>8 DEF Rotate
  <2>9. ASSUME NEW h \in Handlers, FindSession(h)
       PROVE  RequestsKnow'
    BY <2>9 DEF FindSession
  <2>10. ASSUME NEW h \in Handlers, SaveUser(h)
       PROVE  RequestsKnow'
    BY <2>10 DEF SaveUser
  <2>11. ASSUME NEW h \in Handlers, RevokeOne(h)
       PROVE  RequestsKnow'
    BY <2>11 DEF RevokeOne
  <2>12. ASSUME NEW h \in Handlers, RevokeAll(h)
       PROVE  RequestsKnow'
    BY <2>12 DEF RevokeAll
  <2>13. ASSUME NEW h \in Handlers, RevokeOthers(h)
       PROVE  RequestsKnow'
    BY <2>13 DEF RevokeOthers
  <2>14. ASSUME NEW h \in Handlers, AddSessionRevokeJob(h)
       PROVE  RequestsKnow'
    BY <2>14 DEF AddSessionRevokeJob
  <2>15. ASSUME NEW h \in Handlers, AddSessionRevokeAllJob(h)
       PROVE  RequestsKnow'
    BY <2>15 DEF AddSessionRevokeAllJob
  <2>16. ASSUME NEW h \in Handlers, Fails(h)
       PROVE  RequestsKnow'
    BY <2>16 DEF Fails
  <2>17. ASSUME NEW t \in tokens, NEW device \in SUBSET Stored,
                RemoveDevice(t, device)
       PROVE  RequestsKnow'
    BY <2>17 DEF RemoveDevice
  <2>18. ASSUME HandleSessionRevokeAll
       PROVE  RequestsKnow'
    BY <2>18 DEF HandleSessionRevokeAll
  <2>19. ASSUME NEW s \in Ids, HandleSessionRevoke(s)
       PROVE  RequestsKnow'
    BY <2>19 DEF HandleSessionRevoke
  <2>20. ASSUME Crash
       PROVE  RequestsKnow'
    BY <2>20 DEF Crash
  <2>21. CASE UNCHANGED vars
    BY <2>21 DEF vars, mongoVars, historyVars, failureVars
  <2> QED
    BY <2>1, <2>2, <2>3, <2>4, <2>5, <2>6, <2>7, <2>8, <2>9, <2>10, <2>11,
       <2>12, <2>13, <2>14, <2>15, <2>16, <2>17, <2>18, <2>19, <2>20, <2>21
       DEF Next, Request, Progress

(***************************************************************************)
(* A token is handed out after its session was stored with its hash, or was*)
(* revoked or removed before it could be.                                  *)
(***************************************************************************)
LEMMA TokensStayStored ==
  ASSUME TypeOK, RequestsKnow, TokensAreStored, [Next]_vars
  PROVE  TokensAreStored'
  <2> USE NamesAssumption, BoundsAssumption
      DEF TypeOK, Token, Idle, Stops, Underway, RequestsKnow, TokensAreStored,
          IsAt, Goes, Returns, Live, Stored, HandedOut, Valid, Revoke, Begins,
          HandOut, ReturnsRevoking, mongoVars, historyVars, failureVars
  <2>1. ASSUME NEW h \in Handlers, Login(h)
       PROVE  TokensAreStored'
    BY <2>1 DEF Login
  <2>2. ASSUME NEW h \in Handlers, LogoutAllDevices(h)
       PROVE  TokensAreStored'
    BY <2>2 DEF LogoutAllDevices
  <2>3. ASSUME NEW h \in Handlers, NEW t \in tokens, Refresh(h, t)
       PROVE  TokensAreStored'
    BY <2>3 DEF Refresh
  <2>4. ASSUME NEW h \in Handlers, NEW t \in tokens, RefreshExpired(h, t)
       PROVE  TokensAreStored'
    BY <2>4 DEF RefreshExpired
  <2>5. ASSUME NEW h \in Handlers, NEW t \in tokens, Logout(h, t)
       PROVE  TokensAreStored'
    BY <2>5 DEF Logout
  <2>6. ASSUME NEW h \in Handlers, NEW t \in tokens, UpdatePassword(h, t)
       PROVE  TokensAreStored'
    BY <2>6 DEF UpdatePassword
  <2>7. ASSUME NEW h \in Handlers, NEW s \in Ids, CreateSession(h, s)
       PROVE  TokensAreStored'
    BY <2>7 DEF CreateSession
  <2>8. ASSUME NEW h \in Handlers, Rotate(h)
       PROVE  TokensAreStored'
    BY <2>8 DEF Rotate
  <2>9. ASSUME NEW h \in Handlers, FindSession(h)
       PROVE  TokensAreStored'
    BY <2>9 DEF FindSession
  <2>10. ASSUME NEW h \in Handlers, SaveUser(h)
       PROVE  TokensAreStored'
    BY <2>10 DEF SaveUser
  <2>11. ASSUME NEW h \in Handlers, RevokeOne(h)
       PROVE  TokensAreStored'
    BY <2>11 DEF RevokeOne
  <2>12. ASSUME NEW h \in Handlers, RevokeAll(h)
       PROVE  TokensAreStored'
    BY <2>12 DEF RevokeAll
  <2>13. ASSUME NEW h \in Handlers, RevokeOthers(h)
       PROVE  TokensAreStored'
    BY <2>13 DEF RevokeOthers
  <2>14. ASSUME NEW h \in Handlers, AddSessionRevokeJob(h)
       PROVE  TokensAreStored'
    BY <2>14 DEF AddSessionRevokeJob
  <2>15. ASSUME NEW h \in Handlers, AddSessionRevokeAllJob(h)
       PROVE  TokensAreStored'
    BY <2>15 DEF AddSessionRevokeAllJob
  <2>16. ASSUME NEW h \in Handlers, Fails(h)
       PROVE  TokensAreStored'
    BY <2>16 DEF Fails
  <2>17. ASSUME NEW t \in tokens, NEW device \in SUBSET Stored,
                RemoveDevice(t, device)
       PROVE  TokensAreStored'
    BY <2>17 DEF RemoveDevice
  <2>18. ASSUME HandleSessionRevokeAll
       PROVE  TokensAreStored'
    BY <2>18 DEF HandleSessionRevokeAll
  <2>19. ASSUME NEW s \in Ids, HandleSessionRevoke(s)
       PROVE  TokensAreStored'
    BY <2>19 DEF HandleSessionRevoke
  <2>20. ASSUME Crash
       PROVE  TokensAreStored'
    BY <2>20 DEF Crash
  <2>21. CASE UNCHANGED vars
    BY <2>21 DEF vars, mongoVars, historyVars, failureVars
  <2> QED
    BY <2>1, <2>2, <2>3, <2>4, <2>5, <2>6, <2>7, <2>8, <2>9, <2>10, <2>11,
       <2>12, <2>13, <2>14, <2>15, <2>16, <2>17, <2>18, <2>19, <2>20, <2>21
       DEF Next, Request, Progress

(***************************************************************************)
(* A revocation that fails leaves its job, and the jobs that run leave no  *)
(* session alive that another was to revoke.                               *)
(***************************************************************************)
LEMMA JobsGoOnDoing ==
  ASSUME Inv, [Next]_vars
  PROVE  JobsWillDo'
  <2> USE NamesAssumption, BoundsAssumption
      DEF Inv, TypeOK, Token, Idle, Stops, Underway, RequestsKnow,
          TokensAreStored, JobsWillDo, IsAt, Goes, Returns, Live, Stored,
          HandedOut, Valid, Revoke, Begins, HandOut, ReturnsRevoking,
          mongoVars, historyVars, failureVars
  <2>1. ASSUME NEW h \in Handlers, Login(h)
       PROVE  JobsWillDo'
    BY <2>1 DEF Login
  <2>2. ASSUME NEW h \in Handlers, LogoutAllDevices(h)
       PROVE  JobsWillDo'
    BY <2>2 DEF LogoutAllDevices
  <2>3. ASSUME NEW h \in Handlers, NEW t \in tokens, Refresh(h, t)
       PROVE  JobsWillDo'
    BY <2>3 DEF Refresh
  <2>4. ASSUME NEW h \in Handlers, NEW t \in tokens, RefreshExpired(h, t)
       PROVE  JobsWillDo'
    BY <2>4 DEF RefreshExpired
  <2>5. ASSUME NEW h \in Handlers, NEW t \in tokens, Logout(h, t)
       PROVE  JobsWillDo'
    BY <2>5 DEF Logout
  <2>6. ASSUME NEW h \in Handlers, NEW t \in tokens, UpdatePassword(h, t)
       PROVE  JobsWillDo'
    BY <2>6 DEF UpdatePassword
  <2>7. ASSUME NEW h \in Handlers, NEW s \in Ids, CreateSession(h, s)
       PROVE  JobsWillDo'
    BY <2>7 DEF CreateSession
  <2>8. ASSUME NEW h \in Handlers, Rotate(h)
       PROVE  JobsWillDo'
    BY <2>8 DEF Rotate
  <2>9. ASSUME NEW h \in Handlers, FindSession(h)
       PROVE  JobsWillDo'
    BY <2>9 DEF FindSession
  <2>10. ASSUME NEW h \in Handlers, SaveUser(h)
       PROVE  JobsWillDo'
    BY <2>10 DEF SaveUser
  <2>11. ASSUME NEW h \in Handlers, RevokeOne(h)
       PROVE  JobsWillDo'
    BY <2>11 DEF RevokeOne
  <2>12. ASSUME NEW h \in Handlers, RevokeAll(h)
       PROVE  JobsWillDo'
    BY <2>12 DEF RevokeAll
  <2>13. ASSUME NEW h \in Handlers, RevokeOthers(h)
       PROVE  JobsWillDo'
    BY <2>13 DEF RevokeOthers
  <2>14. ASSUME NEW h \in Handlers, AddSessionRevokeJob(h)
       PROVE  JobsWillDo'
    BY <2>14 DEF AddSessionRevokeJob
  <2>15. ASSUME NEW h \in Handlers, AddSessionRevokeAllJob(h)
       PROVE  JobsWillDo'
    BY <2>15 DEF AddSessionRevokeAllJob
  <2>16. ASSUME NEW h \in Handlers, Fails(h)
       PROVE  JobsWillDo'
    BY <2>16 DEF Fails
  <2>17. ASSUME NEW t \in tokens, NEW device \in SUBSET Stored,
                RemoveDevice(t, device)
       PROVE  JobsWillDo'
    BY <2>17 DEF RemoveDevice
  <2>18. ASSUME HandleSessionRevokeAll
       PROVE  JobsWillDo'
    BY <2>18 DEF HandleSessionRevokeAll
  <2>19. ASSUME NEW s \in Ids, HandleSessionRevoke(s)
       PROVE  JobsWillDo'
    BY <2>19 DEF HandleSessionRevoke
  <2>20. ASSUME Crash
       PROVE  JobsWillDo'
    BY <2>20 DEF Crash
  <2>21. CASE UNCHANGED vars
    BY <2>21 DEF vars, mongoVars, historyVars, failureVars
  <2> QED
    BY <2>1, <2>2, <2>3, <2>4, <2>5, <2>6, <2>7, <2>8, <2>9, <2>10, <2>11,
       <2>12, <2>13, <2>14, <2>15, <2>16, <2>17, <2>18, <2>19, <2>20, <2>21
       DEF Next, Request, Progress

(***************************************************************************)
(* Every update of a session filters on its not being revoked.             *)
(***************************************************************************)
LEMMA StepsKeepOver ==
  ASSUME TypeOK, RequestsKnow, [Next]_vars
  PROVE  StaysOver
  <2> USE NamesAssumption, BoundsAssumption
      DEF TypeOK, Token, Idle, Stops, Underway, RequestsKnow, StaysOver, Over,
          IsAt, Goes, Returns, Live, Stored, HandedOut, Valid, Revoke, Begins,
          HandOut, ReturnsRevoking, mongoVars, historyVars, failureVars
  <2>1. ASSUME NEW h \in Handlers, Login(h)
       PROVE  StaysOver
    BY <2>1 DEF Login
  <2>2. ASSUME NEW h \in Handlers, LogoutAllDevices(h)
       PROVE  StaysOver
    BY <2>2 DEF LogoutAllDevices
  <2>3. ASSUME NEW h \in Handlers, NEW t \in tokens, Refresh(h, t)
       PROVE  StaysOver
    BY <2>3 DEF Refresh
  <2>4. ASSUME NEW h \in Handlers, NEW t \in tokens, RefreshExpired(h, t)
       PROVE  StaysOver
    BY <2>4 DEF RefreshExpired
  <2>5. ASSUME NEW h \in Handlers, NEW t \in tokens, Logout(h, t)
       PROVE  StaysOver
    BY <2>5 DEF Logout
  <2>6. ASSUME NEW h \in Handlers, NEW t \in tokens, UpdatePassword(h, t)
       PROVE  StaysOver
    BY <2>6 DEF UpdatePassword
  <2>7. ASSUME NEW h \in Handlers, NEW s \in Ids, CreateSession(h, s)
       PROVE  StaysOver
    BY <2>7 DEF CreateSession
  <2>8. ASSUME NEW h \in Handlers, Rotate(h)
       PROVE  StaysOver
    BY <2>8 DEF Rotate
  <2>9. ASSUME NEW h \in Handlers, FindSession(h)
       PROVE  StaysOver
    BY <2>9 DEF FindSession
  <2>10. ASSUME NEW h \in Handlers, SaveUser(h)
       PROVE  StaysOver
    BY <2>10 DEF SaveUser
  <2>11. ASSUME NEW h \in Handlers, RevokeOne(h)
       PROVE  StaysOver
    BY <2>11 DEF RevokeOne
  <2>12. ASSUME NEW h \in Handlers, RevokeAll(h)
       PROVE  StaysOver
    BY <2>12 DEF RevokeAll
  <2>13. ASSUME NEW h \in Handlers, RevokeOthers(h)
       PROVE  StaysOver
    BY <2>13 DEF RevokeOthers
  <2>14. ASSUME NEW h \in Handlers, AddSessionRevokeJob(h)
       PROVE  StaysOver
    BY <2>14 DEF AddSessionRevokeJob
  <2>15. ASSUME NEW h \in Handlers, AddSessionRevokeAllJob(h)
       PROVE  StaysOver
    BY <2>15 DEF AddSessionRevokeAllJob
  <2>16. ASSUME NEW h \in Handlers, Fails(h)
       PROVE  StaysOver
    BY <2>16 DEF Fails
  <2>17. ASSUME NEW t \in tokens, NEW device \in SUBSET Stored,
                RemoveDevice(t, device)
       PROVE  StaysOver
    BY <2>17 DEF RemoveDevice
  <2>18. ASSUME HandleSessionRevokeAll
       PROVE  StaysOver
    BY <2>18 DEF HandleSessionRevokeAll
  <2>19. ASSUME NEW s \in Ids, HandleSessionRevoke(s)
       PROVE  StaysOver
    BY <2>19 DEF HandleSessionRevoke
  <2>20. ASSUME Crash
       PROVE  StaysOver
    BY <2>20 DEF Crash
  <2>21. CASE UNCHANGED vars
    BY <2>21 DEF vars, mongoVars, historyVars, failureVars
  <2> QED
    BY <2>1, <2>2, <2>3, <2>4, <2>5, <2>6, <2>7, <2>8, <2>9, <2>10, <2>11,
       <2>12, <2>13, <2>14, <2>15, <2>16, <2>17, <2>18, <2>19, <2>20, <2>21
       DEF Next, Request, Progress

(***************************************************************************)
(* The invariant holds, and with it type correctness.                      *)
(***************************************************************************)
THEOREM InvHolds == Spec => []Inv
<1>1. Init => Inv
  <2> SUFFICES ASSUME Init PROVE Inv
    OBVIOUS
  <2> USE BoundsAssumption DEF Init
  <2>1. TypeOK
    <3>1. run \in [Handlers -> Underway \union {Idle}]
      OBVIOUS
    <3>2. /\ version \in 0..MaxVersion /\ next \in 1..(MaxTokens + 1)
          /\ faults \in 0..MaxFaults /\ crashes \in 0..MaxFaults
      OBVIOUS
    <3>3. /\ session \in [Ids -> {"none", "live", "revoked", "deleted"}]
          /\ hash \in [Ids -> 0..MaxTokens]
      OBVIOUS
    <3>4. unrecorded \in BOOLEAN
      OBVIOUS
    <3> QED
      BY <3>1, <3>2, <3>3, <3>4 DEF TypeOK
  <2>2. RequestsKnow
    BY DEF RequestsKnow, IsAt, Idle
  <2>3. TokensAreStored /\ JobsWillDo
    BY DEF TokensAreStored, JobsWillDo
  <2> QED
    BY <2>1, <2>2, <2>3 DEF Inv
<1>2. Inv /\ [Next]_vars => Inv'
  BY TypeIsInductive, RequestsGoOnKnowing, TokensStayStored, JobsGoOnDoing
     DEF Inv
<1>3. QED
  BY <1>1, <1>2, PTL DEF Spec

(***************************************************************************)
(* A revocation that a request reported done is done, or an open cleanup   *)
(* job will do it, unless the creation of that job failed.                 *)
(***************************************************************************)
THEOREM Revocations == Spec => []EveryRevocationHappens
<1>1. Inv => EveryRevocationHappens
  BY DEF Inv, JobsWillDo, EveryRevocationHappens, Live
<1>2. QED
  BY <1>1, InvHolds, PTL

(***************************************************************************)
(* A revoked or removed session stays so, whatever login or refresh was    *)
(* on its way.                                                             *)
(***************************************************************************)
THEOREM OverForGood == Spec => RevokedForGood
<1>1. Inv /\ [Next]_vars => [StaysOver]_vars
  BY StepsKeepOver DEF Inv
<1>2. QED
  BY <1>1, InvHolds, PTL DEF Spec, RevokedForGood

=============================================================================
