--------------------------- MODULE RealtimeProofs ---------------------------
(***************************************************************************)
(* What belongs to one person: the sockets, the indicators shown to others,*)
(* and the account.  The three share no state, so each is proved alone.    *)
(*                                                                         *)
(* For any number of sockets and sessions: a socket of an ended session in *)
(* the room is about to be closed, or came late, or nobody emits an event; *)
(* and a command acts only if its session was not over all along.  The     *)
(* second needs what the two checks of a command have found (ChecksHold):  *)
(* the user is read before the session, and a session is not taken back    *)
(* once it is over.                                                        *)
(***************************************************************************)
EXTENDS Realtime, Indicators, Accounts, TLAPS

(***************************************************************************)
(* Type correctness.                                                       *)
(***************************************************************************)
PlainTypeOK ==
    /\ started \subseteq Sessions
    /\ outdated \subseteq started
    /\ revoked \subseteq started
    /\ session \in [Sockets -> Sessions]
    /\ connected \subseteq Sockets
    /\ inRoom \subseteq connected
    /\ conn \in [Sockets -> {"idle", "user", "session", "join"}]
    /\ command \in [Sockets -> {"idle", "user", "session", "act"}]
    /\ ending \in [Sessions -> {"no", "event", "found"}]
    /\ found \in [Sessions -> SUBSET Sockets]
    /\ endingAll \in {"no", "event", "disabled"}
    /\ untold \subseteq started

LEMMA StepsAreTyped ==
  ASSUME PlainTypeOK, SocketSteps
  PROVE  PlainTypeOK'
  <1> USE DEF PlainTypeOK, dbVars, socketVars, eventVars
  <1>1. ASSUME NEW x \in Sessions, Login(x)
       PROVE  PlainTypeOK'
    BY <1>1 DEF Login
  <1>2. ASSUME NEW x \in Sessions, RevokeSession(x)
       PROVE  PlainTypeOK'
    BY <1>2 DEF RevokeSession
  <1>3. ASSUME NEW x \in Sessions, RevokeQuietly(x)
       PROVE  PlainTypeOK'
    BY <1>3 DEF RevokeQuietly
  <1>4. ASSUME NEW x \in Sessions, FetchSockets(x)
       PROVE  PlainTypeOK'
    BY <1>4 DEF FetchSockets
  <1>5. ASSUME NEW x \in Sessions, DisconnectFound(x)
       PROVE  PlainTypeOK'
    BY <1>5 DEF DisconnectFound, Closes
  <1>6. ASSUME NEW s \in Sockets, NEW x \in Sessions, Connect(s, x)
       PROVE  PlainTypeOK'
    BY <1>6 DEF Connect, Connection
  <1>7. ASSUME NEW s \in Sockets, FindUser(s)
       PROVE  PlainTypeOK'
    BY <1>7 DEF FindUser, Refuses, Closes, Connection
  <1>8. ASSUME NEW s \in Sockets, FindSession(s)
       PROVE  PlainTypeOK'
    BY <1>8 DEF FindSession, Refuses, Closes, Connection
  <1>9. ASSUME NEW s \in Sockets, Join(s)
       PROVE  PlainTypeOK'
    BY <1>9 DEF Join, Connection
  <1>10. ASSUME NEW s \in Sockets, ConnectionFails(s)
       PROVE  PlainTypeOK'
    BY <1>10 DEF ConnectionFails, Refuses, Closes, Connection
  <1>11. ASSUME NEW s \in Sockets, Disconnect(s)
       PROVE  PlainTypeOK'
    BY <1>11 DEF Disconnect, Closes
  <1>12. ASSUME NEW s \in Sockets, Send(s)
       PROVE  PlainTypeOK'
    BY <1>12 DEF Send, Command
  <1>13. ASSUME NEW s \in Sockets, CheckUser(s)
       PROVE  PlainTypeOK'
    BY <1>13 DEF CheckUser, Rejects, Closes, Command
  <1>14. ASSUME NEW s \in Sockets, CheckSession(s)
       PROVE  PlainTypeOK'
    BY <1>14 DEF CheckSession, Rejects, Closes, Command
  <1>15. ASSUME NEW s \in Sockets, Act(s)
       PROVE  PlainTypeOK'
    BY <1>15 DEF Act, Command
  <1>16. CASE EndAll("event")
    BY <1>16 DEF EndAll
  <1>17. CASE EndAll("disabled")
    BY <1>17 DEF EndAll
  <1>18. CASE OutdateQuietly
    BY <1>18 DEF OutdateQuietly
  <1>19. CASE DisconnectSockets
    BY <1>19 DEF DisconnectSockets, Closes
  <1>20. CASE DisabledFails
    BY <1>20 DEF DisabledFails
  <1> QED
    BY <1>1, <1>2, <1>3, <1>4, <1>5, <1>6, <1>7, <1>8, <1>9,
       <1>10, <1>11, <1>12, <1>13, <1>14, <1>15, <1>16, <1>17,
       <1>18, <1>19, <1>20 DEF SocketSteps, Handles

LEMMA HistoryIsTyped ==
  ASSUME KeepsHistory, inRoom' \subseteq Sockets
  PROVE  late' \subseteq Sockets /\ live' \subseteq Sockets
  BY DEF KeepsHistory

LEMMA TypeIsInductive ==
  ASSUME RealtimeTypeOK, RealtimeNext
  PROVE  RealtimeTypeOK'
  <1>1. PlainTypeOK /\ SocketSteps /\ KeepsHistory
    BY DEF RealtimeTypeOK, PlainTypeOK, RealtimeNext
  <1>2. PlainTypeOK'
    BY <1>1, StepsAreTyped
  <1>3. late' \subseteq Sockets /\ live' \subseteq Sockets
    BY <1>1, <1>2, HistoryIsTyped DEF PlainTypeOK
  <1> QED
    BY <1>2, <1>3 DEF PlainTypeOK, RealtimeTypeOK

(***************************************************************************)
(* The sockets in the room.                                                *)
(***************************************************************************)
LEMMA DeadSocketsStayCovered ==
  ASSUME PlainTypeOK, DeadSocketsAreClosed, SocketSteps, KeepsHistory
  PROVE  DeadSocketsAreClosed'
  <1>0. SUFFICES ASSUME NEW t \in inRoom', Over(session[t])', t \notin late',
                        session'[t] \notin untold'
                 PROVE  IsBeingClosed(t)'
    BY DEF DeadSocketsAreClosed
  <1>a. /\ t \notin late
        /\ t \in inRoom \/ ~Over(session[t])
        /\ ~(Over(session[t]) /\ endingAll = "disabled" /\ endingAll' = "no")
    BY <1>0 DEF KeepsHistory
  <1>b. t \in inRoom =>
          (Over(session[t]) => session[t] \in untold \/ IsBeingClosed(t))
    BY <1>a DEF DeadSocketsAreClosed
  <1> USE <1>0, <1>a, <1>b
      DEF PlainTypeOK, Over, IsBeingClosed, dbVars, socketVars, eventVars
  <1>1. ASSUME NEW x \in Sessions, Login(x)
       PROVE  IsBeingClosed(t)'
    BY <1>1 DEF Login
  <1>2. ASSUME NEW x \in Sessions, RevokeSession(x)
       PROVE  IsBeingClosed(t)'
    BY <1>2 DEF RevokeSession
  <1>3. ASSUME NEW x \in Sessions, RevokeQuietly(x)
       PROVE  IsBeingClosed(t)'
    BY <1>3 DEF RevokeQuietly
  <1>4. ASSUME NEW x \in Sessions, FetchSockets(x)
       PROVE  IsBeingClosed(t)'
    BY <1>4 DEF FetchSockets
  <1>5. ASSUME NEW x \in Sessions, DisconnectFound(x)
       PROVE  IsBeingClosed(t)'
    BY <1>5 DEF DisconnectFound, Closes
  <1>6. ASSUME NEW s \in Sockets, NEW x \in Sessions, Connect(s, x)
       PROVE  IsBeingClosed(t)'
    BY <1>6 DEF Connect, Connection
  <1>7. ASSUME NEW s \in Sockets, FindUser(s)
       PROVE  IsBeingClosed(t)'
    BY <1>7 DEF FindUser, Refuses, Closes, Connection
  <1>8. ASSUME NEW s \in Sockets, FindSession(s)
       PROVE  IsBeingClosed(t)'
    BY <1>8 DEF FindSession, Refuses, Closes, Connection
  <1>9. ASSUME NEW s \in Sockets, Join(s)
       PROVE  IsBeingClosed(t)'
    BY <1>9 DEF Join, Connection
  <1>10. ASSUME NEW s \in Sockets, ConnectionFails(s)
       PROVE  IsBeingClosed(t)'
    BY <1>10 DEF ConnectionFails, Refuses, Closes, Connection
  <1>11. ASSUME NEW s \in Sockets, Disconnect(s)
       PROVE  IsBeingClosed(t)'
    BY <1>11 DEF Disconnect, Closes
  <1>12. ASSUME NEW s \in Sockets, Send(s)
       PROVE  IsBeingClosed(t)'
    BY <1>12 DEF Send, Command
  <1>13. ASSUME NEW s \in Sockets, CheckUser(s)
       PROVE  IsBeingClosed(t)'
    BY <1>13 DEF CheckUser, Rejects, Closes, Command
  <1>14. ASSUME NEW s \in Sockets, CheckSession(s)
       PROVE  IsBeingClosed(t)'
    BY <1>14 DEF CheckSession, Rejects, Closes, Command
  <1>15. ASSUME NEW s \in Sockets, Act(s)
       PROVE  IsBeingClosed(t)'
    BY <1>15 DEF Act, Command
  <1>16. CASE EndAll("event")
    BY <1>16 DEF EndAll
  <1>17. CASE EndAll("disabled")
    BY <1>17 DEF EndAll
  <1>18. CASE OutdateQuietly
    BY <1>18 DEF OutdateQuietly
  <1>19. CASE DisconnectSockets
    BY <1>19 DEF DisconnectSockets, Closes
  <1>20. CASE DisabledFails
    BY <1>20 DEF DisabledFails
  <1> QED
    BY <1>1, <1>2, <1>3, <1>4, <1>5, <1>6, <1>7, <1>8, <1>9,
       <1>10, <1>11, <1>12, <1>13, <1>14, <1>15, <1>16, <1>17,
       <1>18, <1>19, <1>20 DEF SocketSteps, Handles

(***************************************************************************)
(* The checks of a command.                                                *)
(***************************************************************************)
Holds(t) ==
    /\ command[t] = "session" => t \in live \/ session[t] \in revoked
    /\ command[t] = "act" => t \in live

LEMMA ChecksStillHold ==
  ASSUME PlainTypeOK, ChecksHold, SocketSteps, KeepsHistory
  PROVE  ChecksHold'
  <1>0. SUFFICES ASSUME NEW t \in Sockets
                 PROVE  Holds(t)'
    BY DEF ChecksHold, Holds
  <1>a. t \in live' <=> command'[t] # "idle" /\ (t \in live \/ ~Over(session[t])')
    BY DEF KeepsHistory
  <1>b. /\ command[t] = "session" => t \in live \/ session[t] \in revoked
        /\ command[t] = "act" => t \in live
    BY DEF ChecksHold
  <1> USE <1>a, <1>b DEF Holds, PlainTypeOK, Over, dbVars, socketVars, eventVars
  <1>1. ASSUME NEW x \in Sessions, Login(x)
       PROVE  Holds(t)'
    BY <1>1 DEF Login
  <1>2. ASSUME NEW x \in Sessions, RevokeSession(x)
       PROVE  Holds(t)'
    BY <1>2 DEF RevokeSession
  <1>3. ASSUME NEW x \in Sessions, RevokeQuietly(x)
       PROVE  Holds(t)'
    BY <1>3 DEF RevokeQuietly
  <1>4. ASSUME NEW x \in Sessions, FetchSockets(x)
       PROVE  Holds(t)'
    BY <1>4 DEF FetchSockets
  <1>5. ASSUME NEW x \in Sessions, DisconnectFound(x)
       PROVE  Holds(t)'
    BY <1>5 DEF DisconnectFound, Closes
  <1>6. ASSUME NEW s \in Sockets, NEW x \in Sessions, Connect(s, x)
       PROVE  Holds(t)'
    BY <1>6 DEF Connect, Connection
  <1>7. ASSUME NEW s \in Sockets, FindUser(s)
       PROVE  Holds(t)'
    BY <1>7 DEF FindUser, Refuses, Closes, Connection
  <1>8. ASSUME NEW s \in Sockets, FindSession(s)
       PROVE  Holds(t)'
    BY <1>8 DEF FindSession, Refuses, Closes, Connection
  <1>9. ASSUME NEW s \in Sockets, Join(s)
       PROVE  Holds(t)'
    BY <1>9 DEF Join, Connection
  <1>10. ASSUME NEW s \in Sockets, ConnectionFails(s)
       PROVE  Holds(t)'
    BY <1>10 DEF ConnectionFails, Refuses, Closes, Connection
  <1>11. ASSUME NEW s \in Sockets, Disconnect(s)
       PROVE  Holds(t)'
    BY <1>11 DEF Disconnect, Closes
  <1>12. ASSUME NEW s \in Sockets, Send(s)
       PROVE  Holds(t)'
    BY <1>12 DEF Send, Command
  <1>13. ASSUME NEW s \in Sockets, CheckUser(s)
       PROVE  Holds(t)'
    BY <1>13 DEF CheckUser, Rejects, Closes, Command
  <1>14. ASSUME NEW s \in Sockets, CheckSession(s)
       PROVE  Holds(t)'
    BY <1>14 DEF CheckSession, Rejects, Closes, Command
  <1>15. ASSUME NEW s \in Sockets, Act(s)
       PROVE  Holds(t)'
    BY <1>15 DEF Act, Command
  <1>16. CASE EndAll("event")
    BY <1>16 DEF EndAll
  <1>17. CASE EndAll("disabled")
    BY <1>17 DEF EndAll
  <1>18. CASE OutdateQuietly
    BY <1>18 DEF OutdateQuietly
  <1>19. CASE DisconnectSockets
    BY <1>19 DEF DisconnectSockets, Closes
  <1>20. CASE DisabledFails
    BY <1>20 DEF DisabledFails
  <1> QED
    BY <1>1, <1>2, <1>3, <1>4, <1>5, <1>6, <1>7, <1>8, <1>9,
       <1>10, <1>11, <1>12, <1>13, <1>14, <1>15, <1>16, <1>17,
       <1>18, <1>19, <1>20 DEF SocketSteps, Handles

(***************************************************************************)
(* The theorems.                                                           *)
(***************************************************************************)

\* Every socket of an ended session that is in the room is accounted for, and a
\* command that passed a check had a session that was not over.
THEOREM RealtimeHolds == RealtimeSpec => []RealtimeInv
  <1>1. RealtimeInit => RealtimeInv
    BY DEF RealtimeInit, RealtimeInv, RealtimeTypeOK, DeadSocketsAreClosed, ChecksHold
  <1>2. RealtimeInv /\ [RealtimeNext]_realtimeVars => RealtimeInv'
    <2>1. ASSUME RealtimeInv, RealtimeNext PROVE RealtimeInv'
      <3>1. PlainTypeOK /\ SocketSteps /\ KeepsHistory
        BY <2>1 DEF RealtimeInv, RealtimeTypeOK, PlainTypeOK, RealtimeNext
      <3>2. RealtimeTypeOK'
        BY <2>1, TypeIsInductive DEF RealtimeInv
      <3>3. DeadSocketsAreClosed'
        BY <2>1, <3>1, DeadSocketsStayCovered DEF RealtimeInv
      <3>4. ChecksHold'
        BY <2>1, <3>1, ChecksStillHold DEF RealtimeInv
      <3> QED
        BY <3>2, <3>3, <3>4 DEF RealtimeInv
    <2>2. ASSUME RealtimeInv, UNCHANGED realtimeVars PROVE RealtimeInv'
      BY <2>2 DEF RealtimeInv, RealtimeTypeOK, DeadSocketsAreClosed, ChecksHold,
         IsBeingClosed,
                  Over, realtimeVars, dbVars, socketVars, eventVars
    <2> QED
      BY <2>1, <2>2
  <1> QED
    BY <1>1, <1>2, PTL DEF RealtimeSpec

\* A command that acts, whatever events came late or were never emitted, has a
\* session that was not over at some moment since the command began.
THEOREM CommandsAreLive == RealtimeSpec => NoCommandAfterTheEnd
  <1>1. RealtimeInv /\ [RealtimeNext]_realtimeVars
          => [\A s \in Sockets: Act(s) => s \in live]_realtimeVars
    BY DEF RealtimeInv, ChecksHold, Act
  <1> QED
    BY <1>1, RealtimeHolds, PTL DEF RealtimeSpec, NoCommandAfterTheEnd

-----------------------------------------------------------------------------
(***************************************************************************)
(* The indicators of the same gateway, which share no state with the       *)
(* sockets above.  For any number of tabs and of events handled at a time: *)
(* whoever is shown online, or typing, without a key has a handler on its  *)
(* way that will tell the others otherwise, unless that handler failed or  *)
(* a start was told too late.  That it arrives is liveness, which TLC      *)
(* checks.                                                                 *)
(***************************************************************************)
PresenceOK ==
    /\ tabConn \in [Tabs -> {"idle", "join", "list"}]
    /\ online \in BOOLEAN
    /\ offline \in BOOLEAN
    /\ shownOnline \in BOOLEAN
    /\ missed \in BOOLEAN

TypingOK ==
    /\ typingRun \in [Typings -> {NoTyping} \union [at: Starts, tab: Tabs]
                                           \union [at: Stops, tab: {NoTab}]]
    /\ typing \subseteq Tabs
    /\ shownTyping \in BOOLEAN
    /\ unheard \in BOOLEAN

\* The presence keeps its invariant.
LEMMA PresenceStays ==
  ASSUME PresenceOK, OfflineIsComing, Presence
  PROVE  PresenceOK' /\ OfflineIsComing'
  <1> USE DEF PresenceOK, OfflineIsComing
  <1>1. ASSUME NEW t \in Tabs, HandleConnection(t)
        PROVE  PresenceOK' /\ OfflineIsComing'
    BY <1>1 DEF HandleConnection, ConnGoes
  <1>2. ASSUME NEW t \in Tabs, SetPresence(t)
        PROVE  PresenceOK' /\ OfflineIsComing'
    BY <1>2 DEF SetPresence, ConnGoes
  <1>3. ASSUME NEW t \in Tabs, Announce(t)
        PROVE  PresenceOK' /\ OfflineIsComing'
    BY <1>3 DEF Announce, ConnGoes
  <1>4. ASSUME NEW t \in Tabs, ConnectFails(t)
        PROVE  PresenceOK' /\ OfflineIsComing'
    BY <1>4 DEF ConnectFails, ConnGoes
  <1>5. CASE Heartbeat
    BY <1>5 DEF Heartbeat
  <1>6. CASE PresenceExpires
    BY <1>6 DEF PresenceExpires
  <1>7. CASE UserOffline
    BY <1>7 DEF UserOffline
  <1>8. CASE OfflineFails
    BY <1>8 DEF OfflineFails
  <1> QED
    BY <1>1, <1>2, <1>3, <1>4, <1>5, <1>6, <1>7, <1>8 DEF Presence

\* The handlers of typing stay typed.
LEMMA TypingIsTyped ==
  ASSUME TypingOK, Typing
  PROVE  TypingOK'
  <1> USE DEF TypingOK, Starts, Stops, NoTyping, TypingIs, TypingGoes, TypingEnds
  <1>1. ASSUME NEW h \in Typings, NEW t \in Tabs, Begin(h, t, "start")
        PROVE  TypingOK'
    BY <1>1 DEF Begin
  <1>2. ASSUME NEW h \in Typings, NEW t \in Tabs, Begin(h, t, "stop")
        PROVE  TypingOK'
    BY <1>2 DEF Begin
  <1>3. ASSUME NEW h \in Typings, NEW t \in Tabs, TypingExpires(h, t)
        PROVE  TypingOK'
    BY <1>3 DEF TypingExpires
  <1>4. ASSUME NEW h \in Typings, SetTyping(h)
        PROVE  TypingOK'
    <2>1. typingRun[h].tab \in Tabs
      BY <1>4 DEF SetTyping
    <2>2. \/ typingRun' = [typingRun EXCEPT ![h] = NoTyping]
          \/ typingRun' = [typingRun EXCEPT ![h] = [at |-> "countOne", tab |-> NoTab]]
      BY <1>4 DEF SetTyping
    <2>3. typingRun' \in [Typings -> {NoTyping} \union [at: Starts, tab: Tabs]
                                             \union [at: Stops, tab: {NoTab}]]
      BY <2>2
    <2>4. typing' \subseteq Tabs /\ unheard' \in BOOLEAN /\ shownTyping' \in BOOLEAN
      BY <1>4, <2>1 DEF SetTyping
    <2> QED
      BY <2>3, <2>4
  <1>5. ASSUME NEW h \in Typings, CountOne(h)
        PROVE  TypingOK'
    BY <1>5 DEF CountOne
  <1>6. ASSUME NEW h \in Typings, TellOn(h)
        PROVE  TypingOK'
    BY <1>6 DEF TellOn
  <1>7. ASSUME NEW h \in Typings, RemoveTyping(h)
        PROVE  TypingOK'
    BY <1>7 DEF RemoveTyping
  <1>8. ASSUME NEW h \in Typings, CountNone(h)
        PROVE  TypingOK'
    BY <1>8 DEF CountNone
  <1>9. ASSUME NEW h \in Typings, TellOff(h)
        PROVE  TypingOK'
    BY <1>9 DEF TellOff
  <1>10. ASSUME NEW h \in Typings, TypingFails(h)
        PROVE  TypingOK'
    BY <1>10 DEF TypingFails
  <1> QED
    BY <1>1, <1>2, <1>3, <1>4, <1>5, <1>6, <1>7, <1>8, <1>9, <1>10
       DEF Typing, HandlesTyping

\* Whoever removes a key, or sees it expire, is then itself on the way; it gives up
\* only when it finds another key, or fails.
LEMMA TypingStays ==
  ASSUME TypingOK, StopIsComing, Typing
  PROVE  StopIsComing'
  <1> USE DEF TypingOK, StopIsComing, TypingIs, IsToTell, TypingGoes, TypingEnds, NoTyping
  <1>1. ASSUME NEW h \in Typings, NEW t \in Tabs, Begin(h, t, "start")
        PROVE  StopIsComing'
    BY <1>1 DEF Begin
  <1>2. ASSUME NEW h \in Typings, NEW t \in Tabs, Begin(h, t, "stop")
        PROVE  StopIsComing'
    BY <1>2 DEF Begin
  <1>3. ASSUME NEW h \in Typings, NEW t \in Tabs, TypingExpires(h, t)
        PROVE  StopIsComing'
    BY <1>3 DEF TypingExpires
  <1>4. ASSUME NEW h \in Typings, SetTyping(h)
        PROVE  StopIsComing'
    BY <1>4 DEF SetTyping
  <1>5. ASSUME NEW h \in Typings, CountOne(h)
        PROVE  StopIsComing'
    BY <1>5 DEF CountOne
  <1>6. ASSUME NEW h \in Typings, TellOn(h)
        PROVE  StopIsComing'
    BY <1>6 DEF TellOn
  <1>7. ASSUME NEW h \in Typings, RemoveTyping(h)
        PROVE  StopIsComing'
    BY <1>7 DEF RemoveTyping
  <1>8. ASSUME NEW h \in Typings, CountNone(h)
        PROVE  StopIsComing'
    BY <1>8 DEF CountNone
  <1>9. ASSUME NEW h \in Typings, TellOff(h)
        PROVE  StopIsComing'
    BY <1>9 DEF TellOff
  <1>10. ASSUME NEW h \in Typings, TypingFails(h)
        PROVE  StopIsComing'
    <2>1. /\ typing' = typing /\ shownTyping' = shownTyping
          /\ typingRun' = [typingRun EXCEPT ![h] = NoTyping]
      BY <1>10 DEF TypingFails
    <2>2. unheard' = (unheard \/ (typing = {} /\ IsToTell(h)))
      BY <1>10 DEF TypingFails
    <2> QED
      BY <2>1, <2>2
  <1> QED
    BY <1>1, <1>2, <1>3, <1>4, <1>5, <1>6, <1>7, <1>8, <1>9, <1>10
       DEF Typing, HandlesTyping

\* A key that is gone leaves a handler behind that will tell the others: of two
\* tabs that stop at once, and keys that expire meanwhile, one finds none left,
\* unless it fails or a start is told after the keys are gone.
THEOREM IndicatorsHold == IndicatorsSpec => []IndicatorsInv
  <1> DEFINE P == PresenceOK /\ OfflineIsComing
             T == TypingOK /\ StopIsComing
  <1>1. IndicatorsInit => P /\ T
    BY DEF IndicatorsInit, PresenceOK, OfflineIsComing, TypingOK, StopIsComing
  <1>2. P /\ T /\ [IndicatorsNext]_indicatorVars => P' /\ T'
    <2>1. ASSUME P, T, Presence PROVE P' /\ T'
      <3>1. P'
        BY <2>1, PresenceStays
      <3>2. UNCHANGED typingVars
        BY <2>1 DEF Presence, HandleConnection, SetPresence, Announce,
                    ConnectFails, Heartbeat, PresenceExpires, UserOffline,
                    OfflineFails
      <3> QED
        BY <2>1, <3>1, <3>2 DEF typingVars, TypingOK, StopIsComing, TypingIs, IsToTell
    <2>2. ASSUME P, T, Typing PROVE P' /\ T'
      <3>1. T'
        BY <2>2, TypingIsTyped, TypingStays
      <3>2. UNCHANGED presenceVars
        BY <2>2 DEF Typing, HandlesTyping, Begin, TypingFails,
                    SetTyping, CountOne, TellOn, RemoveTyping, CountNone, TellOff,
                    TypingExpires
      <3> QED
        BY <2>2, <3>1, <3>2 DEF presenceVars, PresenceOK, OfflineIsComing
    <2>3. ASSUME P, T, UNCHANGED indicatorVars PROVE P' /\ T'
      BY <2>3 DEF indicatorVars, presenceVars, typingVars, PresenceOK,
                  OfflineIsComing, TypingOK, StopIsComing, TypingIs, IsToTell
    <2> QED
      BY <2>1, <2>2, <2>3 DEF IndicatorsNext
  <1>3. P /\ T => IndicatorsInv
    BY DEF PresenceOK, TypingOK, IndicatorsInv, IndicatorsTypeOK
  <1> HIDE DEF P, T
  <1> QED
    BY <1>1, <1>2, <1>3, PTL DEF IndicatorsSpec

-----------------------------------------------------------------------------
(***************************************************************************)
(* The account whose sessions the sockets belong to; it shares no state    *)
(* with the two above.  For any number of requests in flight and of codes. *)
(***************************************************************************)

(***************************************************************************)
(* What a request may begin with, and what it knows then.                  *)
(***************************************************************************)
FirstStops == {"insert", "exists", "google", "unset", "save", "get", "password",
               "disable", "enable", "check"}

Fits(stop, k, c) ==
    /\ c < next
    /\ stop \in {"save", "get"} => k \in Kinds
    /\ stop = "get" => c # 0
    /\ stop = "insert" => k = "active"
    /\ stop \in {"get", "password"} => ~disabled

StartKinds == Kinds \union Owners \union {"none", "create"}

LEMMA Requested ==
  ASSUME TypeOK, NEW h \in Handlers, Request(h)
  PROVE  \E stop \in FirstStops, k \in StartKinds, c \in 0..MaxCodes:
            Begins(h, stop, k, c) /\ Fits(stop, k, c)
  <1> DEFINE Some == \E stop \in FirstStops, k \in StartKinds, c \in 0..MaxCodes:
                        Begins(h, stop, k, c) /\ Fits(stop, k, c)
  <1>1. ASSUME NEW stop \in FirstStops, NEW k \in StartKinds, NEW c \in 0..MaxCodes,
               Begins(h, stop, k, c), Fits(stop, k, c)
        PROVE  Some
    BY <1>1
  <1> HIDE DEF Some
  <1>0. next \in Nat /\ 0 < next /\ Mailed \subseteq 0..MaxCodes
        /\ \A c \in Mailed: c < next /\ c # 0
    BY BoundsAssumption DEF TypeOK, Mailed
  <1>zero. 0 \in 0..MaxCodes
    BY BoundsAssumption
  <1> USE <1>0, <1>zero, <1>1 DEF Fits, FirstStops, StartKinds, Kinds, Owners
  <1>2. ASSUME Register(h)
        PROVE  Some
    BY <1>2 DEF Register
  <1>3. ASSUME Create(h)
        PROVE  Some
    BY <1>3 DEF Create
  <1>4. ASSUME GoogleLogin(h)
        PROVE  Some
    BY <1>4 DEF GoogleLogin
  <1>5. ASSUME ReSendCodeActive(h)
        PROVE  Some
    BY <1>5 DEF ReSendCodeActive
  <1>6. ASSUME SendMailForgotPassword(h)
        PROVE  Some
    BY <1>6 DEF SendMailForgotPassword
  <1>7. ASSUME SendMailUpdateEmail(h)
        PROVE  Some
    BY <1>7 DEF SendMailUpdateEmail
  <1>8. ASSUME CreatePassword(h)
        PROVE  Some
    BY <1>8 DEF CreatePassword
  <1>9. ASSUME DisableSelf(h)
        PROVE  Some
    BY <1>9 DEF DisableSelf
  <1>10. ASSUME EnableUserByAdmin(h)
        PROVE  Some
    BY <1>10 DEF EnableUserByAdmin
  <1>11. ASSUME ValidateUser(h)
        PROVE  Some
    BY <1>11 DEF ValidateUser
  <1>12. ASSUME NEW owner \in Owners, Update(h, owner)
        PROVE  Some
    BY <1>12 DEF Update
  <1>13. ASSUME NEW owner \in Owners, UpdateToNone(h, owner)
        PROVE  Some
    BY <1>13 DEF UpdateToNone
  <1>14. ASSUME NEW c \in Mailed, ActivateUser(h, c)
        PROVE  Some
    <2>1. c \in 0..MaxCodes
      OBVIOUS
    <2> QED
      BY <1>14, <2>1 DEF ActivateUser
  <1>15. ASSUME NEW c \in Mailed, ResetPassword(h, c)
        PROVE  Some
    <2>1. c \in 0..MaxCodes
      OBVIOUS
    <2> QED
      BY <1>15, <2>1 DEF ResetPassword
  <1>16. ASSUME NEW c \in Mailed, UpdateEmail(h, c)
        PROVE  Some
    <2>1. c \in 0..MaxCodes
      OBVIOUS
    <2> QED
      BY <1>16, <2>1 DEF UpdateEmail
  <1>17. Some
    BY <1>2, <1>3, <1>4, <1>5, <1>6, <1>7, <1>8, <1>9, <1>10, <1>11, <1>12,
       <1>13, <1>14, <1>15, <1>16
       DEF Request
  <1> QED
    BY <1>17 DEF Some

(***************************************************************************)
(* A request begins or makes one step; each ends in a proper state.  A code*)
(* that is stored or has died is one of those that were mailed.            *)
(***************************************************************************)
LEMMA TypeStays ==
  ASSUME Inv, Next
  PROVE  TypeOK'
  <1> DEFINE Goal == TypeOK'
  <1> SUFFICES Goal
    OBVIOUS
  <1> USE BoundsAssumption DEF TypeOK, userVars, codeVars, loginVars, Inv
  <1>rem. Remembers
    BY DEF Next
  <1>his. raced' \in BOOLEAN /\ due' \subseteq Handlers /\ enabled' \subseteq Handlers
    <2>1. raced' \in BOOLEAN
      BY <1>rem, Zenon DEF Remembers
    <2> QED
      BY <1>rem, <2>1 DEF Remembers
  <1>kn. /\ code \in [Kinds -> 0..MaxCodes] /\ next \in 1..(MaxCodes + 1)
        /\ account \in {"none", "new", "active"} /\ dead \subseteq Codes
        /\ failures \in 0..Threshold /\ phones \subseteq Owners
        /\ \A h \in Handlers: run[h].code \in 0..MaxCodes
        /\ CodesAreSingle /\ AcceptedAreDue
    BY DEF State
  <1>goes. ASSUME NEW h \in Handlers, NEW stop,
               Goes(h, stop), [run[h] EXCEPT !.at = stop] \in State
        PROVE  run' \in [Handlers -> State]
    BY <1>goes DEF Goes
  <1>ret. ASSUME NEW h \in Handlers, Returns(h)
        PROVE  run' \in [Handlers -> State]
    <2>1. Idle \in State
      BY DEF Idle, State
    <2> QED
      BY <1>ret, <2>1 DEF Returns
  <1>1. ASSUME NEW h \in Handlers, NEW stop \in FirstStops, NEW k \in StartKinds,
               NEW c \in 0..MaxCodes, Begins(h, stop, k, c)
        PROVE  Goal
    <2>1. [at |-> stop, kind |-> k, code |-> c] \in State
      BY DEF State, FirstStops, StartKinds
    <2>2. run' \in [Handlers -> State]
      BY <1>1, <2>1 DEF Begins
    <2> QED
      BY <1>1, <1>his, <2>2 DEF Begins
  <1>2. ASSUME NEW h \in Handlers, Insert(h)
        PROVE  Goal
    <2>1. [run[h] EXCEPT !.at = "save", !.kind = "active"] \in State
      BY DEF State, Kinds
    <2>2. run' \in [Handlers -> State]
      BY <1>2, <1>ret, <2>1 DEF Insert
    <2>3. account' \in {"none", "new", "active"} /\ hasPassword' \in BOOLEAN
      BY <1>2 DEF Insert
    <2>4. phones' \subseteq Owners
      BY <1>2 DEF Insert, Owners
    <2> QED
      BY <1>2, <1>his, <2>2, <2>3, <2>4 DEF Insert
  <1>3. ASSUME NEW h \in Handlers, CreateGoogleAccount(h)
        PROVE  Goal
    <2>1. run' \in [Handlers -> State]
      BY <1>3, <1>ret DEF CreateGoogleAccount
    <2> QED
      BY <1>3, <1>his, <2>1 DEF CreateGoogleAccount
  <1>4. ASSUME NEW h \in Handlers, SaveCode(h)
        PROVE  Goal
    <2>1. run' \in [Handlers -> State]
      BY <1>4, <1>ret DEF SaveCode
    <2>2. /\ code' \in [Kinds -> 0..MaxCodes] /\ next' \in 1..(MaxCodes + 1)
          /\ dead' \subseteq Codes
      <3> HIDE DEF TypeOK, Inv
      <3>1. run[h].kind \in Kinds /\ next \in Codes
        BY <1>4, <1>kn DEF SaveCode, IsAt, CodesAreSingle, Codes
      <3>2. code[run[h].kind] \in 0..MaxCodes
        BY <1>kn, <3>1
      <3> QED
        <4>1. code' \in [Kinds -> 0..MaxCodes]
          BY <1>4, <1>kn, <3>1 DEF SaveCode, Codes
        <4>2. next' \in 1..(MaxCodes + 1)
          BY <1>4, <1>kn, <3>1 DEF SaveCode, Codes
        <4>3. dead' \subseteq Codes
          <5>1. dead' = dead \union ({code[run[h].kind]} \ {0})
            BY <1>4 DEF SaveCode
          <5>2. {code[run[h].kind]} \ {0} \subseteq Codes
            BY <3>2 DEF Codes
          <5> HIDE DEF Codes
          <5> QED
            BY <1>kn, <5>1, <5>2
        <4> QED
          BY <4>1, <4>2, <4>3
    <2> QED
      BY <1>4, <1>his, <2>1, <2>2 DEF SaveCode
  <1>5. ASSUME NEW h \in Handlers, GetCode(h)
        PROVE  Goal
    <2>1. /\ [run[h] EXCEPT !.at = "commit"] \in State
          /\ [run[h] EXCEPT !.at = "del"] \in State
      BY DEF State
    <2>2. run' \in [Handlers -> State]
      BY <1>5, <1>ret, <1>goes, <2>1 DEF GetCode
    <2> QED
      BY <1>5, <1>his, <2>2 DEF GetCode
  <1>6. ASSUME NEW h \in Handlers, DelCode(h)
        PROVE  Goal
    <2>1. [run[h] EXCEPT !.at = "effect"] \in State
      BY DEF State
    <2>2. run' \in [Handlers -> State]
      BY <1>6, <1>ret, <1>goes, <2>1 DEF DelCode
    <2>3. code' \in [Kinds -> 0..MaxCodes]
      <3> HIDE DEF TypeOK, Inv
      <3>1. run[h].kind \in Kinds
        BY <1>6, <1>kn DEF DelCode, IsAt, AcceptedAreDue, Accepted
      <3> QED
        BY <1>6, <1>kn, <3>1 DEF DelCode
    <2> QED
      BY <1>6, <1>his, <2>2, <2>3 DEF DelCode
  <1>7. ASSUME NEW h \in Handlers, SaveUser(h)
        PROVE  Goal
    <2>1. run' \in [Handlers -> State]
      BY <1>7, <1>ret DEF SaveUser
    <2>2. dead' \subseteq Codes /\ account' \in {"none", "new", "active"}
      <3> HIDE DEF TypeOK, Inv
      <3>1. run[h].code \in Codes
        BY <1>7, <1>kn DEF SaveUser, AcceptedAreDue, Accepted, IsAt, Codes
      <3> QED
        BY <1>7, <1>kn, <3>1 DEF SaveUser
    <2> QED
      BY <1>7, <1>his, <2>1, <2>2 DEF SaveUser
  <1>8. ASSUME NEW h \in Handlers, CommitEmail(h)
        PROVE  Goal
    <2>1. [run[h] EXCEPT !.at = "delEmail"] \in State
      BY DEF State
    <2>2. run' \in [Handlers -> State]
      BY <1>8, <1>ret, <1>goes, <2>1 DEF CommitEmail
    <2>3. dead' \subseteq Codes /\ moved' \in BOOLEAN
      <3> HIDE DEF TypeOK, Inv
      <3>1. run[h].code \in Codes
        BY <1>8, <1>kn DEF CommitEmail, AcceptedAreDue, Accepted, IsAt, Codes
      <3>2. moved' \in BOOLEAN
        BY <1>8, Zenon DEF CommitEmail
      <3> QED
        BY <1>8, <1>kn, <3>1, <3>2 DEF CommitEmail
    <2> QED
      BY <1>8, <1>his, <2>2, <2>3 DEF CommitEmail
  <1>9. ASSUME NEW h \in Handlers, DelEmailCode(h)
        PROVE  Goal
    <2>1. run' \in [Handlers -> State]
      BY <1>9, <1>ret DEF DelEmailCode
    <2>2. code' \in [Kinds -> 0..MaxCodes]
      BY <1>9, <1>kn DEF DelEmailCode, Kinds
    <2> QED
      BY <1>9, <1>his, <2>1, <2>2 DEF DelEmailCode
  <1>10. ASSUME NEW h \in Handlers, SavePassword(h)
        PROVE  Goal
    <2>1. run' \in [Handlers -> State]
      BY <1>10, <1>ret DEF SavePassword
    <2> QED
      BY <1>10, <1>his, <2>1 DEF SavePassword
  <1>11. ASSUME NEW h \in Handlers, SaveDisabledState(h)
        PROVE  Goal
    <2>1. run' \in [Handlers -> State]
      BY <1>11, <1>ret DEF SaveDisabledState
    <2>2. disabled' \in BOOLEAN
      <3>1. disabled' = IsAt(h, "disable")
        BY <1>11 DEF SaveDisabledState
      <3> QED
        BY <3>1, Zenon DEF IsAt
    <2> QED
      BY <1>11, <1>his, <2>1, <2>2 DEF SaveDisabledState
  <1>12. ASSUME NEW h \in Handlers, IsPhoneExisted(h)
        PROVE  Goal
    <2>1. /\ [run[h] EXCEPT !.at = "insert"] \in State
          /\ [run[h] EXCEPT !.at = "phone"] \in State
      BY DEF State
    <2>2. run' \in [Handlers -> State]
      BY <1>12, <1>ret, <1>goes, <2>1 DEF IsPhoneExisted
    <2> QED
      BY <1>12, <1>his, <2>2 DEF IsPhoneExisted
  <1>13. ASSUME NEW h \in Handlers, SavePhone(h)
        PROVE  Goal
    <2>1. run' \in [Handlers -> State]
      BY <1>13, <1>ret DEF SavePhone
    <2>2. phones' \subseteq Owners
      BY <1>13 DEF SavePhone, Owner, Owners
    <2> QED
      BY <1>13, <1>his, <2>1, <2>2 DEF SavePhone
  <1>14. ASSUME NEW h \in Handlers, CheckBlockedLoginFail(h)
        PROVE  Goal
    <2>1. [run[h] EXCEPT !.at = "compare"] \in State
      BY DEF State
    <2>2. run' \in [Handlers -> State]
      BY <1>14, <1>ret, <1>goes, <2>1 DEF CheckBlockedLoginFail
    <2> QED
      BY <1>14, <1>his, <2>2 DEF CheckBlockedLoginFail
  <1>15. ASSUME NEW h \in Handlers, RecordLoginFailure(h)
        PROVE  Goal
    <2>1. [run[h] EXCEPT !.at = "block"] \in State
      BY DEF State
    <2>2. run' \in [Handlers -> State]
      BY <1>15, <1>ret, <1>goes, <2>1 DEF RecordLoginFailure
    <2>3. failures' \in 0..Threshold
      BY <1>15 DEF RecordLoginFailure
    <2> QED
      BY <1>15, <1>his, <2>2, <2>3 DEF RecordLoginFailure
  <1>16. ASSUME NEW h \in Handlers, SetBlock(h)
        PROVE  Goal
    <2>1. run' \in [Handlers -> State]
      BY <1>16, <1>ret DEF SetBlock
    <2> QED
      BY <1>16, <1>his, <2>1 DEF SetBlock
  <1>17. ASSUME NEW h \in Handlers, ClearFailures(h)
        PROVE  Goal
    <2>1. [run[h] EXCEPT !.at = "clear"] \in State
      BY DEF State
    <2>2. run' \in [Handlers -> State]
      BY <1>17, <1>ret, <1>goes, <2>1 DEF ClearFailures
    <2> QED
      BY <1>17, <1>his, <2>2 DEF ClearFailures
  <1>18. ASSUME NEW h \in Handlers, ClearBlock(h)
        PROVE  Goal
    <2>1. run' \in [Handlers -> State]
      BY <1>18, <1>ret DEF ClearBlock
    <2> QED
      BY <1>18, <1>his, <2>1 DEF ClearBlock
  <1>19. ASSUME NEW h \in Handlers, Fails(h)
        PROVE  Goal
    <2>1. run' \in [Handlers -> State]
      BY <1>19, <1>ret DEF Fails
    <2> QED
      BY <1>19, <1>his, <2>1 DEF Fails
  <1>20. ASSUME NEW k \in Kinds, Expires(k)
        PROVE  Goal
    <2>1. code' \in [Kinds -> 0..MaxCodes] /\ dead' \subseteq Codes
      <3> HIDE DEF TypeOK, Inv
      <3>1. code[k] \in Codes
        BY <1>20, <1>kn DEF Expires, Codes
      <3> QED
        BY <1>20, <1>kn, <3>1 DEF Expires
    <2> QED
      BY <1>20, <1>his, <2>1 DEF Expires
  <1>21. ASSUME FailuresExpire
        PROVE  Goal
    BY <1>21, <1>his DEF FailuresExpire
  <1>22. ASSUME BlockExpires
        PROVE  Goal
    BY <1>22, <1>his DEF BlockExpires
  <1>typ. TypeOK
    OBVIOUS
  <1> HIDE DEF Goal, TypeOK
  <1> QED
    BY Requested, <1>typ, <1>1, <1>2, <1>3, <1>4, <1>5, <1>6, <1>7,
       <1>8, <1>9, <1>10, <1>11, <1>12, <1>13, <1>14, <1>15, <1>16,
       <1>17, <1>18, <1>19, <1>20, <1>21, <1>22
       DEF Next, Steps, Progress

(***************************************************************************)
(* The counter at its limit has the block, somebody who will set it, or a  *)
(* reason why there is none: only who counts comes to set it.              *)
(***************************************************************************)
LEMMA LockoutStays ==
  ASSUME Inv, TypeOK', Next
  PROVE  LockoutHolds'
  <1> DEFINE Goal == LockoutHolds'
  <1> SUFFICES Goal
    OBVIOUS
  <1> USE BoundsAssumption
      DEF IsAt, Goes, Returns, Begins, Idle, userVars, codeVars, loginVars,
          LockoutHolds, Inv, TypeOK, State
  <1>0. Remembers
    BY DEF Next
  <1>1. ASSUME NEW h \in Handlers, NEW stop \in FirstStops, NEW k \in StartKinds,
               NEW c \in 0..MaxCodes, Begins(h, stop, k, c), Fits(stop, k, c)
        PROVE  Goal
    BY <1>0, <1>1 DEF Begins, FirstStops, StartKinds, Fits
  <1>2. ASSUME NEW h \in Handlers, Insert(h)
        PROVE  Goal
    <2>1. CASE account = "none"
      BY <1>0, <1>2, <2>1 DEF Insert
    <2>2. CASE account # "none"
      BY <1>0, <1>2, <2>2 DEF Insert
    <2> QED
      BY <2>1, <2>2
  <1>3. ASSUME NEW h \in Handlers, CreateGoogleAccount(h)
        PROVE  Goal
    BY <1>0, <1>3 DEF CreateGoogleAccount
  <1>4. ASSUME NEW h \in Handlers, SaveCode(h)
        PROVE  Goal
    BY <1>0, <1>4 DEF SaveCode
  <1>5. ASSUME NEW h \in Handlers, GetCode(h)
        PROVE  Goal
    <2>1. CASE code[run[h].kind] # run[h].code
      BY <1>0, <1>5, <2>1 DEF GetCode
    <2>2. CASE code[run[h].kind] = run[h].code /\ run[h].kind = "email"
      BY <1>0, <1>5, <2>2 DEF GetCode
    <2>3. CASE code[run[h].kind] = run[h].code /\ run[h].kind # "email"
      BY <1>0, <1>5, <2>3 DEF GetCode
    <2> QED
      BY <2>1, <2>2, <2>3
  <1>6. ASSUME NEW h \in Handlers, DelCode(h)
        PROVE  Goal
    BY <1>0, <1>6 DEF DelCode
  <1>7. ASSUME NEW h \in Handlers, SaveUser(h)
        PROVE  Goal
    BY <1>0, <1>7 DEF SaveUser
  <1>8. ASSUME NEW h \in Handlers, CommitEmail(h)
        PROVE  Goal
    BY <1>0, <1>8 DEF CommitEmail
  <1>9. ASSUME NEW h \in Handlers, DelEmailCode(h)
        PROVE  Goal
    BY <1>0, <1>9 DEF DelEmailCode
  <1>10. ASSUME NEW h \in Handlers, SavePassword(h)
        PROVE  Goal
    BY <1>0, <1>10 DEF SavePassword
  <1>11. ASSUME NEW h \in Handlers, SaveDisabledState(h)
        PROVE  Goal
    BY <1>0, <1>11 DEF SaveDisabledState
  <1>12. ASSUME NEW h \in Handlers, IsPhoneExisted(h)
        PROVE  Goal
    BY <1>0, <1>12 DEF IsPhoneExisted
  <1>13. ASSUME NEW h \in Handlers, SavePhone(h)
        PROVE  Goal
    BY <1>0, <1>13 DEF SavePhone
  <1>14. ASSUME NEW h \in Handlers, CheckBlockedLoginFail(h)
        PROVE  Goal
    BY <1>0, <1>14 DEF CheckBlockedLoginFail
  <1>15. ASSUME NEW h \in Handlers, RecordLoginFailure(h)
        PROVE  Goal
    <2>1. CASE failures' = Threshold
      BY <1>0, <1>15, <2>1 DEF RecordLoginFailure
    <2>2. CASE failures' # Threshold
      BY <1>0, <1>15, <2>2 DEF RecordLoginFailure
    <2> QED
      BY <2>1, <2>2
  <1>16. ASSUME NEW h \in Handlers, SetBlock(h)
        PROVE  Goal
    BY <1>0, <1>16 DEF SetBlock
  <1>17. ASSUME NEW h \in Handlers, ClearFailures(h)
        PROVE  Goal
    BY <1>0, <1>17 DEF ClearFailures
  <1>18. ASSUME NEW h \in Handlers, ClearBlock(h)
        PROVE  Goal
    BY <1>0, <1>18 DEF ClearBlock
  <1>19. ASSUME NEW h \in Handlers, Fails(h)
        PROVE  Goal
    BY <1>0, <1>19 DEF Fails
  <1>20. ASSUME NEW k \in Kinds, Expires(k)
        PROVE  Goal
    BY <1>0, <1>20 DEF Expires
  <1>21. ASSUME FailuresExpire
        PROVE  Goal
    BY <1>0, <1>21 DEF FailuresExpire
  <1>22. ASSUME BlockExpires
        PROVE  Goal
    BY <1>0, <1>22 DEF BlockExpires
  <1>typ. TypeOK
    BY DEF Inv
  <1> HIDE DEF Goal, IsAt, Goes, Returns, Begins, Idle, userVars, codeVars, loginVars,
          LockoutHolds
  <1> QED
    BY Requested, <1>typ, <1>1, <1>2, <1>3, <1>4, <1>5, <1>6, <1>7,
       <1>8, <1>9, <1>10, <1>11, <1>12, <1>13, <1>14, <1>15, <1>16,
       <1>17, <1>18, <1>19, <1>20, <1>21, <1>22
       DEF Next, Steps, Progress

(***************************************************************************)
(* Whoever writes a number had found it free: if the other has it by then, *)
(* both were past the check at one moment, and raced is remembered as long *)
(* as it can matter.                                                       *)
(***************************************************************************)
LEMMA PhonesStay ==
  ASSUME Inv, TypeOK', Next
  PROVE  PhoneIsUnique' /\ PhoneRacesAreSeen'
  <1> DEFINE Goal == PhoneIsUnique' /\ PhoneRacesAreSeen'
  <1> SUFFICES Goal
    OBVIOUS
  <1> USE BoundsAssumption
      DEF IsAt, Goes, Returns, Begins, Idle, userVars, codeVars, loginVars,
          PhoneIsUnique, PhoneRacesAreSeen, Past, Owner, Owners, Inv, TypeOK,
          State, Remembers
  <1>0. Remembers
    BY DEF Next
  <1>1. ASSUME NEW h \in Handlers, NEW stop \in FirstStops, NEW k \in StartKinds,
               NEW c \in 0..MaxCodes, Begins(h, stop, k, c), Fits(stop, k, c)
        PROVE  Goal
    BY <1>0, <1>1 DEF Begins, FirstStops, StartKinds, Fits
  <1>2. ASSUME NEW h \in Handlers, Insert(h)
        PROVE  Goal
    <2>1. CASE account = "none" /\ run[h].kind = "create"
      <3>1. Past(h)
        BY <1>2, <2>1 DEF Insert
      <3>2. /\ phones' = phones \union {"own"}
            /\ run' = [run EXCEPT ![h].at = "save", ![h].kind = "active"]
        BY <1>2, <2>1 DEF Insert
      <3>3. Owner(h) = "own"
        BY <2>1
      <3>4. \A g \in Handlers: Past(g)' => g # h /\ Past(g) /\ Owner(g)' = Owner(g)
        BY <3>2
      <3>5. phones' = Owners => raced'
        <4>1. phones' = Owners => "other" \in phones
          BY <3>2
        <4>2. "other" \in phones => raced
          BY <3>1, <3>3
        <4>3. raced /\ phones' = Owners => raced'
          BY <1>0
        <4> QED
          BY <4>1, <4>2, <4>3
      <3>6. ASSUME NEW g \in Handlers, Past(g)', phones' \ {Owner(g)'} # {}
            PROVE  raced'
        <4>1. CASE raced
          BY <1>0, <3>6, <4>1
        <4>2. CASE ~raced
          <5>1. Owner(g) = "other"
            BY <3>2, <3>4, <3>6, <4>2
          <5>2. {Owner(f): f \in {g2 \in Handlers: Past(g2)}} = Owners
            <6>1. Owner(g) \in {Owner(f): f \in {g2 \in Handlers: Past(g2)}}
              BY <3>4, <3>6
            <6>2. Owner(h) \in {Owner(f): f \in {g2 \in Handlers: Past(g2)}}
              BY <3>1
            <6> QED
              BY <3>3, <5>1, <6>1, <6>2
          <5> QED
            BY <1>0, <3>6, <5>2
        <4> QED
          BY <4>1, <4>2
      <3> QED
        BY <3>5, <3>6
    <2>2. CASE account = "none" /\ run[h].kind # "create"
      BY <1>0, <1>2, <2>2, SMTT(30) DEF Insert
    <2>3. CASE account # "none"
      BY <1>0, <1>2, <2>3 DEF Insert
    <2> QED
      BY <2>1, <2>2, <2>3
  <1>3. ASSUME NEW h \in Handlers, CreateGoogleAccount(h)
        PROVE  Goal
    BY <1>0, <1>3 DEF CreateGoogleAccount
  <1>4. ASSUME NEW h \in Handlers, SaveCode(h)
        PROVE  Goal
    BY <1>0, <1>4 DEF SaveCode
  <1>5. ASSUME NEW h \in Handlers, GetCode(h)
        PROVE  Goal
    <2>1. CASE code[run[h].kind] # run[h].code
      BY <1>0, <1>5, <2>1 DEF GetCode
    <2>2. CASE code[run[h].kind] = run[h].code /\ run[h].kind = "email"
      BY <1>0, <1>5, <2>2 DEF GetCode
    <2>3. CASE code[run[h].kind] = run[h].code /\ run[h].kind # "email"
      BY <1>0, <1>5, <2>3 DEF GetCode
    <2> QED
      BY <2>1, <2>2, <2>3
  <1>6. ASSUME NEW h \in Handlers, DelCode(h)
        PROVE  Goal
    BY <1>0, <1>6 DEF DelCode
  <1>7. ASSUME NEW h \in Handlers, SaveUser(h)
        PROVE  Goal
    BY <1>0, <1>7 DEF SaveUser
  <1>8. ASSUME NEW h \in Handlers, CommitEmail(h)
        PROVE  Goal
    BY <1>0, <1>8 DEF CommitEmail
  <1>9. ASSUME NEW h \in Handlers, DelEmailCode(h)
        PROVE  Goal
    BY <1>0, <1>9 DEF DelEmailCode
  <1>10. ASSUME NEW h \in Handlers, SavePassword(h)
        PROVE  Goal
    BY <1>0, <1>10 DEF SavePassword
  <1>11. ASSUME NEW h \in Handlers, SaveDisabledState(h)
        PROVE  Goal
    BY <1>0, <1>11 DEF SaveDisabledState
  <1>12. ASSUME NEW h \in Handlers, IsPhoneExisted(h)
        PROVE  Goal
    BY <1>0, <1>12 DEF IsPhoneExisted
  <1>13. ASSUME NEW h \in Handlers, SavePhone(h)
        PROVE  Goal
    BY <1>0, <1>13, SMTT(30) DEF SavePhone
  <1>14. ASSUME NEW h \in Handlers, CheckBlockedLoginFail(h)
        PROVE  Goal
    BY <1>0, <1>14 DEF CheckBlockedLoginFail
  <1>15. ASSUME NEW h \in Handlers, RecordLoginFailure(h)
        PROVE  Goal
    <2>1. CASE failures' = Threshold
      BY <1>0, <1>15, <2>1 DEF RecordLoginFailure
    <2>2. CASE failures' # Threshold
      BY <1>0, <1>15, <2>2 DEF RecordLoginFailure
    <2> QED
      BY <2>1, <2>2
  <1>16. ASSUME NEW h \in Handlers, SetBlock(h)
        PROVE  Goal
    BY <1>0, <1>16 DEF SetBlock
  <1>17. ASSUME NEW h \in Handlers, ClearFailures(h)
        PROVE  Goal
    BY <1>0, <1>17 DEF ClearFailures
  <1>18. ASSUME NEW h \in Handlers, ClearBlock(h)
        PROVE  Goal
    BY <1>0, <1>18 DEF ClearBlock
  <1>19. ASSUME NEW h \in Handlers, Fails(h)
        PROVE  Goal
    BY <1>0, <1>19 DEF Fails
  <1>20. ASSUME NEW k \in Kinds, Expires(k)
        PROVE  Goal
    BY <1>0, <1>20 DEF Expires
  <1>21. ASSUME FailuresExpire
        PROVE  Goal
    BY <1>0, <1>21 DEF FailuresExpire
  <1>22. ASSUME BlockExpires
        PROVE  Goal
    BY <1>0, <1>22 DEF BlockExpires
  <1>typ. TypeOK
    BY DEF Inv
  <1> HIDE DEF Goal, IsAt, Goes, Returns, Begins, Idle, userVars, codeVars, loginVars,
          PhoneIsUnique, PhoneRacesAreSeen, Past, Owner, Owners
  <1> QED
    BY Requested, <1>typ, <1>1, <1>2, <1>3, <1>4, <1>5, <1>6, <1>7,
       <1>8, <1>9, <1>10, <1>11, <1>12, <1>13, <1>14, <1>15, <1>16,
       <1>17, <1>18, <1>19, <1>20, <1>21, <1>22
       DEF Next, Steps, Progress

(***************************************************************************)
(* A code is written once, as the next one, so no two keys hold the same,  *)
(* and none holds one that has died, but the one for a new address.        *)
(***************************************************************************)
LEMMA CodesStay ==
  ASSUME Inv, TypeOK', Next
  PROVE  CodesAreSingle'
  <1> DEFINE Goal == CodesAreSingle'
  <1> SUFFICES Goal
    OBVIOUS
  <1> USE BoundsAssumption
      DEF IsAt, Goes, Returns, Begins, Idle, userVars, codeVars, loginVars,
          CodesAreSingle, AcceptedAreDue, Accepted, Entered,
          Inv, TypeOK, State, Codes, Remembers
  <1>0. Remembers
    BY DEF Next
  <1>1. ASSUME NEW h \in Handlers, NEW stop \in FirstStops, NEW k \in StartKinds,
               NEW c \in 0..MaxCodes, Begins(h, stop, k, c), Fits(stop, k, c)
        PROVE  Goal
    BY <1>0, <1>1 DEF Begins, FirstStops, StartKinds, Fits
  <1>2. ASSUME NEW h \in Handlers, Insert(h)
        PROVE  Goal
    <2>1. /\ code' = code /\ next' = next /\ dead' = dead
          /\ \/ run' = [run EXCEPT ![h].at = "save", ![h].kind = "active"]
             \/ run' = [run EXCEPT ![h] = Idle]
      BY <1>2 DEF Insert
    <2>2. "active" \in Kinds
      BY DEF Kinds
    <2>3. 0 < next
      BY DEF Inv, TypeOK
    <2> QED
      <3>1. \A g \in Handlers:
               \/ run'[g] = run[g]
               \/ /\ run'[g].at = "save" /\ run'[g].kind = "active"
                  /\ run'[g].code = run[g].code
               \/ run'[g].at = "idle" /\ run'[g].code = 0
        BY <2>1
      <3> QED
        BY <2>1, <2>2, <2>3, <3>1
  <1>3. ASSUME NEW h \in Handlers, CreateGoogleAccount(h)
        PROVE  Goal
    BY <1>0, <1>3 DEF CreateGoogleAccount
  <1>4. ASSUME NEW h \in Handlers, SaveCode(h)
        PROVE  Goal
    BY <1>0, <1>4 DEF SaveCode
  <1>5. ASSUME NEW h \in Handlers, GetCode(h)
        PROVE  Goal
    <2>1. /\ code' = code /\ next' = next /\ dead' = dead
          /\ \/ \E stop \in {"commit", "del"}: run' = [run EXCEPT ![h].at = stop]
             \/ run' = [run EXCEPT ![h] = Idle]
      BY <1>5 DEF GetCode
    <2>2. 0 < next
      BY DEF Inv, TypeOK
    <2> QED
      BY <2>1, <2>2
  <1>6. ASSUME NEW h \in Handlers, DelCode(h)
        PROVE  Goal
    BY <1>0, <1>6 DEF DelCode
  <1>7. ASSUME NEW h \in Handlers, SaveUser(h)
        PROVE  Goal
    BY <1>0, <1>7 DEF SaveUser
  <1>8. ASSUME NEW h \in Handlers, CommitEmail(h)
        PROVE  Goal
    BY <1>0, <1>8 DEF CommitEmail
  <1>9. ASSUME NEW h \in Handlers, DelEmailCode(h)
        PROVE  Goal
    BY <1>0, <1>9 DEF DelEmailCode
  <1>10. ASSUME NEW h \in Handlers, SavePassword(h)
        PROVE  Goal
    BY <1>0, <1>10 DEF SavePassword
  <1>11. ASSUME NEW h \in Handlers, SaveDisabledState(h)
        PROVE  Goal
    BY <1>0, <1>11 DEF SaveDisabledState
  <1>12. ASSUME NEW h \in Handlers, IsPhoneExisted(h)
        PROVE  Goal
    BY <1>0, <1>12, SMTT(30) DEF IsPhoneExisted
  <1>13. ASSUME NEW h \in Handlers, SavePhone(h)
        PROVE  Goal
    BY <1>0, <1>13 DEF SavePhone
  <1>14. ASSUME NEW h \in Handlers, CheckBlockedLoginFail(h)
        PROVE  Goal
    BY <1>0, <1>14 DEF CheckBlockedLoginFail
  <1>15. ASSUME NEW h \in Handlers, RecordLoginFailure(h)
        PROVE  Goal
    <2>1. CASE failures' = Threshold
      BY <1>0, <1>15, <2>1, SMTT(30) DEF RecordLoginFailure
    <2>2. CASE failures' # Threshold
      BY <1>0, <1>15, <2>2 DEF RecordLoginFailure
    <2> QED
      BY <2>1, <2>2
  <1>16. ASSUME NEW h \in Handlers, SetBlock(h)
        PROVE  Goal
    BY <1>0, <1>16 DEF SetBlock
  <1>17. ASSUME NEW h \in Handlers, ClearFailures(h)
        PROVE  Goal
    BY <1>0, <1>17 DEF ClearFailures
  <1>18. ASSUME NEW h \in Handlers, ClearBlock(h)
        PROVE  Goal
    BY <1>0, <1>18 DEF ClearBlock
  <1>19. ASSUME NEW h \in Handlers, Fails(h)
        PROVE  Goal
    BY <1>0, <1>19 DEF Fails
  <1>20. ASSUME NEW k \in Kinds, Expires(k)
        PROVE  Goal
    BY <1>0, <1>20 DEF Expires
  <1>21. ASSUME FailuresExpire
        PROVE  Goal
    BY <1>0, <1>21 DEF FailuresExpire
  <1>22. ASSUME BlockExpires
        PROVE  Goal
    BY <1>0, <1>22 DEF BlockExpires
  <1>typ. TypeOK
    BY DEF Inv
  <1> HIDE DEF Goal, IsAt, Goes, Returns, Begins, Idle, userVars, codeVars, loginVars,
          CodesAreSingle, AcceptedAreDue, Accepted, Entered
  <1> QED
    BY Requested, <1>typ, <1>1, <1>2, <1>3, <1>4, <1>5, <1>6, <1>7,
       <1>8, <1>9, <1>10, <1>11, <1>12, <1>13, <1>14, <1>15, <1>16,
       <1>17, <1>18, <1>19, <1>20, <1>21, <1>22
       DEF Next, Steps, Progress

(***************************************************************************)
(* Who was accepted found the code it had brought in its key: the code had *)
(* not died before, or is one for a new address that nobody has deleted    *)
(* yet.  A code that is about to activate or to reset is in no key.        *)
(***************************************************************************)
LEMMA AcceptedStay ==
  ASSUME Inv, TypeOK', Next
  PROVE  AcceptedAreDue'
  <1> DEFINE Goal == AcceptedAreDue'
  <1> SUFFICES Goal
    OBVIOUS
  <1> USE BoundsAssumption
      DEF IsAt, Goes, Returns, Begins, Idle, userVars, codeVars, loginVars,
          CodesAreSingle, AcceptedAreDue, Accepted, Entered,
          Inv, TypeOK, State, Codes, Remembers, Kinds
  <1>0. Remembers
    BY DEF Next
  <1>1. ASSUME NEW h \in Handlers, NEW stop \in FirstStops, NEW k \in StartKinds,
               NEW c \in 0..MaxCodes, Begins(h, stop, k, c), Fits(stop, k, c)
        PROVE  Goal
    BY <1>0, <1>1 DEF Begins, FirstStops, StartKinds, Fits
  <1>2. ASSUME NEW h \in Handlers, Insert(h)
        PROVE  Goal
    <2>1. CASE account = "none"
      BY <1>0, <1>2, <2>1 DEF Insert
    <2>2. CASE account # "none"
      BY <1>0, <1>2, <2>2 DEF Insert
    <2> QED
      BY <2>1, <2>2
  <1>3. ASSUME NEW h \in Handlers, CreateGoogleAccount(h)
        PROVE  Goal
    BY <1>0, <1>3 DEF CreateGoogleAccount
  <1>4. ASSUME NEW h \in Handlers, SaveCode(h)
        PROVE  Goal
    BY <1>0, <1>4 DEF SaveCode
  <1>5. ASSUME NEW h \in Handlers, GetCode(h)
        PROVE  Goal
    <2>1. CASE code[run[h].kind] # run[h].code
      BY <1>0, <1>5, <2>1, SMTT(30) DEF GetCode
    <2>2. CASE code[run[h].kind] = run[h].code /\ run[h].kind = "email"
      <3>1. code["email"] = run[h].code /\ run[h].code # 0
        BY <1>5, <2>2, Zenon DEF GetCode
      <3>2. run[h].code \notin dead \ Spared
        BY <3>1 DEF Spared
      <3> QED
        BY <1>0, <1>5, <2>2, <3>1, <3>2 DEF GetCode
    <2>3. CASE code[run[h].kind] = run[h].code /\ run[h].kind # "email"
      BY <1>0, <1>5, <2>3 DEF GetCode
    <2> QED
      BY <2>1, <2>2, <2>3
  <1>6. ASSUME NEW h \in Handlers, DelCode(h)
        PROVE  Goal
    BY <1>0, <1>6 DEF DelCode
  <1>7. ASSUME NEW h \in Handlers, SaveUser(h)
        PROVE  Goal
    BY <1>0, <1>7 DEF SaveUser
  <1>8. ASSUME NEW h \in Handlers, CommitEmail(h)
        PROVE  Goal
    BY <1>0, <1>8 DEF CommitEmail
  <1>9. ASSUME NEW h \in Handlers, DelEmailCode(h)
        PROVE  Goal
    BY <1>0, <1>9 DEF DelEmailCode
  <1>10. ASSUME NEW h \in Handlers, SavePassword(h)
        PROVE  Goal
    BY <1>0, <1>10 DEF SavePassword
  <1>11. ASSUME NEW h \in Handlers, SaveDisabledState(h)
        PROVE  Goal
    BY <1>0, <1>11 DEF SaveDisabledState
  <1>12. ASSUME NEW h \in Handlers, IsPhoneExisted(h)
        PROVE  Goal
    BY <1>0, <1>12 DEF IsPhoneExisted
  <1>13. ASSUME NEW h \in Handlers, SavePhone(h)
        PROVE  Goal
    BY <1>0, <1>13 DEF SavePhone
  <1>14. ASSUME NEW h \in Handlers, CheckBlockedLoginFail(h)
        PROVE  Goal
    BY <1>0, <1>14, SMTT(30) DEF CheckBlockedLoginFail
  <1>15. ASSUME NEW h \in Handlers, RecordLoginFailure(h)
        PROVE  Goal
    <2>1. /\ code' = code /\ dead' = dead
          /\ \/ run' = [run EXCEPT ![h].at = "block"]
             \/ run' = [run EXCEPT ![h] = Idle]
      BY <1>15 DEF RecordLoginFailure
    <2> QED
      BY <1>0, <2>1
  <1>16. ASSUME NEW h \in Handlers, SetBlock(h)
        PROVE  Goal
    BY <1>0, <1>16 DEF SetBlock
  <1>17. ASSUME NEW h \in Handlers, ClearFailures(h)
        PROVE  Goal
    BY <1>0, <1>17 DEF ClearFailures
  <1>18. ASSUME NEW h \in Handlers, ClearBlock(h)
        PROVE  Goal
    BY <1>0, <1>18 DEF ClearBlock
  <1>19. ASSUME NEW h \in Handlers, Fails(h)
        PROVE  Goal
    BY <1>0, <1>19 DEF Fails
  <1>20. ASSUME NEW k \in Kinds, Expires(k)
        PROVE  Goal
    BY <1>0, <1>20 DEF Expires
  <1>21. ASSUME FailuresExpire
        PROVE  Goal
    BY <1>0, <1>21 DEF FailuresExpire
  <1>22. ASSUME BlockExpires
        PROVE  Goal
    BY <1>0, <1>22 DEF BlockExpires
  <1>typ. TypeOK
    BY DEF Inv
  <1> HIDE DEF Goal, IsAt, Goes, Returns, Begins, Idle, userVars, codeVars, loginVars,
          CodesAreSingle, AcceptedAreDue, Accepted, Entered
  <1> QED
    BY Requested, <1>typ, <1>1, <1>2, <1>3, <1>4, <1>5, <1>6, <1>7,
       <1>8, <1>9, <1>10, <1>11, <1>12, <1>13, <1>14, <1>15, <1>16,
       <1>17, <1>18, <1>19, <1>20, <1>21, <1>22
       DEF Next, Steps, Progress

(***************************************************************************)
(* A request that changes something read the account before, enabled.      *)
(***************************************************************************)
LEMMA AskedStay ==
  ASSUME Inv, TypeOK', Next
  PROVE  AskedWhenEnabled'
  <1> DEFINE Goal == AskedWhenEnabled'
  <1> SUFFICES Goal
    OBVIOUS
  <1> USE BoundsAssumption
      DEF IsAt, Goes, Returns, Begins, Idle, userVars, codeVars, loginVars,
          AskedWhenEnabled, Accepted, Inv, TypeOK, State, Remembers
  <1>0. Remembers
    BY DEF Next
  <1>1. ASSUME NEW h \in Handlers, NEW stop \in FirstStops, NEW k \in StartKinds,
               NEW c \in 0..MaxCodes, Begins(h, stop, k, c), Fits(stop, k, c)
        PROVE  Goal
    BY <1>0, <1>1 DEF Begins, FirstStops, StartKinds, Fits
  <1>2. ASSUME NEW h \in Handlers, Insert(h)
        PROVE  Goal
    <2>1. CASE account = "none"
      BY <1>0, <1>2, <2>1 DEF Insert
    <2>2. CASE account # "none"
      BY <1>0, <1>2, <2>2 DEF Insert
    <2> QED
      BY <2>1, <2>2
  <1>3. ASSUME NEW h \in Handlers, CreateGoogleAccount(h)
        PROVE  Goal
    BY <1>0, <1>3 DEF CreateGoogleAccount
  <1>4. ASSUME NEW h \in Handlers, SaveCode(h)
        PROVE  Goal
    BY <1>0, <1>4 DEF SaveCode
  <1>5. ASSUME NEW h \in Handlers, GetCode(h)
        PROVE  Goal
    <2>1. CASE code[run[h].kind] # run[h].code
      BY <1>0, <1>5, <2>1 DEF GetCode
    <2>2. CASE code[run[h].kind] = run[h].code /\ run[h].kind = "email"
      BY <1>0, <1>5, <2>2 DEF GetCode
    <2>3. CASE code[run[h].kind] = run[h].code /\ run[h].kind # "email"
      BY <1>0, <1>5, <2>3 DEF GetCode
    <2> QED
      BY <2>1, <2>2, <2>3
  <1>6. ASSUME NEW h \in Handlers, DelCode(h)
        PROVE  Goal
    BY <1>0, <1>6 DEF DelCode
  <1>7. ASSUME NEW h \in Handlers, SaveUser(h)
        PROVE  Goal
    BY <1>0, <1>7 DEF SaveUser
  <1>8. ASSUME NEW h \in Handlers, CommitEmail(h)
        PROVE  Goal
    BY <1>0, <1>8 DEF CommitEmail
  <1>9. ASSUME NEW h \in Handlers, DelEmailCode(h)
        PROVE  Goal
    BY <1>0, <1>9 DEF DelEmailCode
  <1>10. ASSUME NEW h \in Handlers, SavePassword(h)
        PROVE  Goal
    BY <1>0, <1>10 DEF SavePassword
  <1>11. ASSUME NEW h \in Handlers, SaveDisabledState(h)
        PROVE  Goal
    BY <1>0, <1>11 DEF SaveDisabledState
  <1>12. ASSUME NEW h \in Handlers, IsPhoneExisted(h)
        PROVE  Goal
    BY <1>0, <1>12 DEF IsPhoneExisted
  <1>13. ASSUME NEW h \in Handlers, SavePhone(h)
        PROVE  Goal
    BY <1>0, <1>13 DEF SavePhone
  <1>14. ASSUME NEW h \in Handlers, CheckBlockedLoginFail(h)
        PROVE  Goal
    BY <1>0, <1>14 DEF CheckBlockedLoginFail
  <1>15. ASSUME NEW h \in Handlers, RecordLoginFailure(h)
        PROVE  Goal
    <2>1. /\ disabled' = disabled
          /\ \/ run' = [run EXCEPT ![h].at = "block"]
             \/ run' = [run EXCEPT ![h] = Idle]
      BY <1>15 DEF RecordLoginFailure
    <2> QED
      BY <1>0, <2>1
  <1>16. ASSUME NEW h \in Handlers, SetBlock(h)
        PROVE  Goal
    BY <1>0, <1>16 DEF SetBlock
  <1>17. ASSUME NEW h \in Handlers, ClearFailures(h)
        PROVE  Goal
    BY <1>0, <1>17 DEF ClearFailures
  <1>18. ASSUME NEW h \in Handlers, ClearBlock(h)
        PROVE  Goal
    BY <1>0, <1>18 DEF ClearBlock
  <1>19. ASSUME NEW h \in Handlers, Fails(h)
        PROVE  Goal
    BY <1>0, <1>19 DEF Fails
  <1>20. ASSUME NEW k \in Kinds, Expires(k)
        PROVE  Goal
    BY <1>0, <1>20 DEF Expires
  <1>21. ASSUME FailuresExpire
        PROVE  Goal
    BY <1>0, <1>21 DEF FailuresExpire
  <1>22. ASSUME BlockExpires
        PROVE  Goal
    BY <1>0, <1>22 DEF BlockExpires
  <1>typ. TypeOK
    BY DEF Inv
  <1> HIDE DEF Goal, IsAt, Goes, Returns, Begins, Idle, userVars, codeVars, loginVars,
          AskedWhenEnabled, Accepted
  <1> QED
    BY Requested, <1>typ, <1>1, <1>2, <1>3, <1>4, <1>5, <1>6, <1>7,
       <1>8, <1>9, <1>10, <1>11, <1>12, <1>13, <1>14, <1>15, <1>16,
       <1>17, <1>18, <1>19, <1>20, <1>21, <1>22
       DEF Next, Steps, Progress

(***************************************************************************)
(* The theorems.                                                           *)
(***************************************************************************)

\* One-time codes, the lockout and the phone number, for any number of requests
\* in flight: of those that brought one code the accepted began before it died,
\* or while a used one for a new address was not deleted; the counter at its
\* limit is answered by a block, and two accounts share a number only after a
\* race of two that had found it free.
THEOREM AccountsHold == Spec => []Inv
  <1>1. Init => Inv
    <2>1. ASSUME Init PROVE TypeOK
      <3>1. Idle \in State
        BY BoundsAssumption DEF Idle, State
      <3>2. /\ 0 \in 0..MaxCodes /\ 0 \in 0..Threshold
            /\ 1 \in 1..(MaxCodes + 1)
        BY BoundsAssumption
      <3>3. run \in [Handlers -> State]
        BY <2>1, <3>1 DEF Init
      <3> QED
        BY <2>1, <3>2, <3>3 DEF Init, TypeOK
    <2>2. ASSUME Init PROVE LockoutHolds
      BY <2>2, BoundsAssumption DEF Init, LockoutHolds
    <2>3. ASSUME Init PROVE PhoneIsUnique /\ PhoneRacesAreSeen
      BY <2>3 DEF Init, PhoneIsUnique, PhoneRacesAreSeen, Past, IsAt, Owners, Idle
    <2>4. ASSUME Init PROVE CodesAreSingle /\ AcceptedAreDue /\ AskedWhenEnabled
      BY <2>4 DEF Init, CodesAreSingle, AcceptedAreDue, AskedWhenEnabled, Accepted,
                  IsAt, Idle
    <2> QED
      BY <2>1, <2>2, <2>3, <2>4 DEF Inv
  <1>2. Inv /\ [Next]_vars => Inv'
    <2>1. ASSUME Inv, Next PROVE Inv'
      <3>1. TypeOK'
        BY <2>1, TypeStays
      <3> QED
        BY <2>1, <3>1, LockoutStays, PhonesStay, CodesStay, AcceptedStay, AskedStay
           DEF Inv
    <2>2. ASSUME Inv, UNCHANGED vars PROVE Inv'
      BY <2>2 DEF Inv, vars, userVars, codeVars, loginVars, TypeOK, LockoutHolds,
                  PhoneIsUnique, PhoneRacesAreSeen, Past, Owner, IsAt, CodesAreSingle,
                  AcceptedAreDue, AskedWhenEnabled, Accepted
    <2> QED
      BY <2>1, <2>2
  <1> QED
    BY <1>1, <1>2, PTL DEF Spec

\* An account is activated, its password reset and its address changed only with
\* a code that had not died when the request began, or, the address, with one
\* that was used but not yet deleted.
THEOREM NoneUsedTwice == Spec => NoDeadCode
  <1>1. Inv => \A h \in Handlers: TakesEffect(h) => h \in due
    BY DEF Inv, AcceptedAreDue, Accepted, TakesEffect, SaveUser, CommitEmail, IsAt
  <1>2. Inv /\ [Next]_vars => [\A h \in Handlers: TakesEffect(h) => h \in due]_vars
    BY <1>1
  <1> QED
    BY <1>2, AccountsHold, PTL DEF Spec, NoDeadCode

\* A request that changes the account of a person has seen it enabled, or an
\* administrator enabled it meanwhile.
THEOREM DisabledIsLeftAlone == Spec => NothingWhileDisabled
  <1>1. Inv => \A h \in Handlers: TakesEffect(h) \/ SavePassword(h) => h \in enabled
    BY DEF Inv, AskedWhenEnabled, Accepted, TakesEffect, SaveUser, CommitEmail,
           SavePassword, IsAt
  <1>2. Inv /\ [Next]_vars
          => [\A h \in Handlers: TakesEffect(h) \/ SavePassword(h) => h \in enabled]_vars
    BY <1>1
  <1> QED
    BY <1>2, AccountsHold, PTL DEF Spec, NothingWhileDisabled
=============================================================================
