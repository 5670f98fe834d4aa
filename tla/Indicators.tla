----------------------------- MODULE Indicators -----------------------------
(***************************************************************************)
(* What the others see of one person: online, and typing in a conversation.*)
(* Each is told by events, decided from keys in Redis that several tabs    *)
(* set and that expire.  Events of one socket, and expiries, are handled   *)
(* side by side: the handlers interleave at their awaits, any of which may *)
(* be rejected, and a typing key may expire under the handler that set it. *)
(*                                                                         *)
(* Assumed: Redis delivers every expiry and the process runs, the presence *)
(* key, kept for 120 s, outlives the one query of the handler that set it, *)
(* and a count of the typing keys is taken at one moment.                  *)
(***************************************************************************)
EXTENDS Naturals, FiniteSets

CONSTANTS
    Tabs,       \* the sockets of the person
    Typings,    \* typing events and expiries of typing keys handled at a time
    NoTab

ASSUME NoTabAssumption == NoTab \notin Tabs

VARIABLES
    tabConn,        \* handleConnection of the tabs
    online,         \* Redis: the presence key
    offline,        \* its expiry is being handled
    shownOnline,    \* what the others were told last
    missed,         \* history: that handler failed and the key is not set again
    typingRun,      \* the handlers: typingStart, typingStop, userTypingStop$
    typing,         \* Redis: the tabs with a typing key
    shownTyping,    \* what the others were told last
    unheard         \* history: when no key was left, a handler that was to tell
                    \*   the others failed, or one told them of a start

presenceVars == <<tabConn, online, offline, shownOnline, missed>>
typingVars == <<typingRun, typing, shownTyping, unheard>>
indicatorVars == <<presenceVars, typingVars>>

NoTyping == [at |-> "idle", tab |-> NoTab]
Starts == {"start", "stop"}
Stops == {"countOne", "tellOn", "countNone", "tellOff"}

IndicatorsTypeOK ==
    /\ tabConn \in [Tabs -> {"idle", "join", "list"}]
    /\ online \in BOOLEAN /\ offline \in BOOLEAN
    /\ shownOnline \in BOOLEAN /\ missed \in BOOLEAN
    /\ typingRun \in [Typings -> {NoTyping} \union [at: Starts, tab: Tabs]
                                         \union [at: Stops, tab: {NoTab}]]
    /\ typing \subseteq Tabs
    /\ shownTyping \in BOOLEAN /\ unheard \in BOOLEAN

IndicatorsInit ==
    /\ tabConn = [t \in Tabs |-> "idle"]
    /\ online = FALSE /\ offline = FALSE
    /\ shownOnline = FALSE /\ missed = FALSE
    /\ typingRun = [h \in Typings |-> NoTyping]
    /\ typing = {}
    /\ shownTyping = FALSE /\ unheard = FALSE

-----------------------------------------------------------------------------
(* Presence.                                                               *)

ConnGoes(t, stop) == tabConn' = [tabConn EXCEPT ![t] = stop]

\* The connection is let in: module Realtime.
HandleConnection(t) ==
    /\ tabConn[t] = "idle"
    /\ ConnGoes(t, "join")
    /\ UNCHANGED <<online, offline, shownOnline, missed, typingVars>>

\* Mutant: the others are told before the key is set.
SetPresence_TellsFirst(t) ==
    /\ tabConn[t] = "join"
    /\ shownOnline' = TRUE
    /\ ConnGoes(t, "list")
    /\ UNCHANGED <<online, offline, missed, typingVars>>

SetPresence(t) ==
    /\ tabConn[t] = "join"
    /\ online' = TRUE
    /\ missed' = FALSE
    /\ ConnGoes(t, "list")
    /\ UNCHANGED <<offline, shownOnline, typingVars>>

Announce(t) ==
    /\ tabConn[t] = "list"
    /\ shownOnline' = TRUE
    /\ ConnGoes(t, "idle")
    /\ UNCHANGED <<online, offline, missed, typingVars>>

\* The connection is refused, or a command of its handler is rejected.
ConnectFails(t) ==
    /\ tabConn[t] # "idle"
    /\ ConnGoes(t, "idle")
    /\ UNCHANGED <<online, offline, shownOnline, missed, typingVars>>

\* Of a tab that is connected; it does not tell the others.
Heartbeat ==
    /\ online' = TRUE
    /\ missed' = FALSE
    /\ UNCHANGED <<tabConn, offline, shownOnline, typingVars>>

PresenceExpires ==
    /\ online /\ ~offline
    /\ \A t \in Tabs: tabConn[t] # "list"
    /\ online' = FALSE
    /\ offline' = TRUE
    /\ UNCHANGED <<tabConn, shownOnline, missed, typingVars>>

\* Mutant: who is connecting is not told to be offline.
UserOffline_Waits ==
    /\ offline
    /\ offline' = FALSE
    /\ shownOnline' = (shownOnline /\ \E t \in Tabs: tabConn[t] # "idle")
    /\ UNCHANGED <<tabConn, online, missed, typingVars>>

\* After the await of the conversations, whatever the key is by now.
UserOffline ==
    /\ offline
    /\ offline' = FALSE
    /\ shownOnline' = FALSE
    /\ UNCHANGED <<tabConn, online, missed, typingVars>>

\* The query of the conversations is rejected, which is only logged.
OfflineFails ==
    /\ offline
    /\ offline' = FALSE
    /\ missed' = (missed \/ ~online)
    /\ UNCHANGED <<tabConn, online, shownOnline, typingVars>>

-----------------------------------------------------------------------------
(* Typing.                                                                 *)

TypingIs(h, stop) == typingRun[h].at = stop
TypingGoes(h, stop) == typingRun' = [typingRun EXCEPT ![h] = [at |-> stop, tab |-> NoTab]]
IsToTell(h) == TypingIs(h, "countNone") \/ TypingIs(h, "tellOff")
TypingEnds(h) == typingRun' = [typingRun EXCEPT ![h] = NoTyping]

\* After the checks of the session, the rate and the membership.  Nobody waits for
\* the event before it, of the same socket, to be handled.
Begin(h, t, stop) ==
    /\ TypingIs(h, "idle")
    /\ typingRun' = [typingRun EXCEPT ![h] = [at |-> stop, tab |-> t]]
    /\ UNCHANGED <<presenceVars, typing, shownTyping, unheard>>

\* SET NX; an existing key is only kept longer.
SetTyping(h) ==
    LET t == typingRun[h].tab IN
    /\ TypingIs(h, "start")
    /\ typing' = typing \union {t}
    /\ unheard' = FALSE
    /\ IF t \in typing THEN TypingEnds(h) ELSE TypingGoes(h, "countOne")
    /\ UNCHANGED <<presenceVars, shownTyping>>

CountOne(h) ==
    /\ TypingIs(h, "countOne")
    /\ IF Cardinality(typing) = 1 THEN TypingGoes(h, "tellOn") ELSE TypingEnds(h)
    /\ UNCHANGED <<presenceVars, typing, shownTyping, unheard>>

\* The others are told after who of them has blocked the person was asked, whatever
\* the keys are by now.
TellOn(h) ==
    /\ TypingIs(h, "tellOn")
    /\ shownTyping' = TRUE
    /\ unheard' = (unheard \/ typing = {})
    /\ TypingEnds(h)
    /\ UNCHANGED <<presenceVars, typing>>

RemoveTyping(h) ==
    LET t == typingRun[h].tab IN
    /\ TypingIs(h, "stop")
    /\ typing' = typing \ {t}
    /\ IF t \in typing THEN TypingGoes(h, "countNone") ELSE TypingEnds(h)
    /\ UNCHANGED <<presenceVars, shownTyping, unheard>>

\* The key expires and its expiry is handled, with what typingStop does next.
TypingExpires(h, t) ==
    /\ TypingIs(h, "idle")
    /\ t \in typing
    /\ typing' = typing \ {t}
    /\ TypingGoes(h, "countNone")
    /\ UNCHANGED <<presenceVars, shownTyping, unheard>>

\* Mutant: the number that typingStart asks for.
CountNone_One(h) ==
    /\ TypingIs(h, "countNone")
    /\ IF Cardinality(typing) = 1 THEN TypingGoes(h, "tellOff") ELSE TypingEnds(h)
    /\ UNCHANGED <<presenceVars, typing, shownTyping, unheard>>

CountNone(h) ==
    /\ TypingIs(h, "countNone")
    /\ IF typing = {} THEN TypingGoes(h, "tellOff") ELSE TypingEnds(h)
    /\ UNCHANGED <<presenceVars, typing, shownTyping, unheard>>

TellOff(h) ==
    /\ TypingIs(h, "tellOff")
    /\ shownTyping' = FALSE
    /\ unheard' = FALSE
    /\ TypingEnds(h)
    /\ UNCHANGED <<presenceVars, typing>>

\* A command of the handler is rejected, which is only logged and, to the client,
\* acknowledged as an error: what it has done to the keys stays.
TypingFails(h) ==
    /\ ~TypingIs(h, "idle")
    /\ unheard' = (unheard \/ (typing = {} /\ IsToTell(h)))
    /\ TypingEnds(h)
    /\ UNCHANGED <<presenceVars, typing, shownTyping>>

-----------------------------------------------------------------------------
Presence ==
    \/ \E t \in Tabs: \/ HandleConnection(t) \/ SetPresence(t) \/ Announce(t)
                      \/ ConnectFails(t)
    \/ Heartbeat \/ PresenceExpires \/ UserOffline \/ OfflineFails

HandlesTyping(h) ==
    \/ SetTyping(h) \/ CountOne(h) \/ TellOn(h)
    \/ RemoveTyping(h) \/ CountNone(h) \/ TellOff(h)

Typing == \E h \in Typings:
    \/ \E t \in Tabs: Begin(h, t, "start") \/ Begin(h, t, "stop") \/ TypingExpires(h, t)
    \/ HandlesTyping(h) \/ TypingFails(h)

IndicatorsNext == Presence \/ Typing

IndicatorsSpec == IndicatorsInit /\ [][IndicatorsNext]_indicatorVars

\* A handler that has begun is run to its end; nobody need connect or type.
FairSpec ==
    /\ IndicatorsSpec
    /\ WF_indicatorVars(UserOffline)
    /\ \A h \in Typings: WF_indicatorVars(HandlesTyping(h))

-----------------------------------------------------------------------------
(* Properties.                                                             *)

\* Who is shown online with no key left is about to be shown offline, unless that
\* handler failed.
OfflineIsComing ==
    /\ shownOnline /\ ~online => offline \/ missed
    /\ \A t \in Tabs: tabConn[t] = "list" => online

\* Who is shown typing with no key left has a handler on its way that will tell the
\* others, unless one that was to has failed or a start was told too late: of two
\* tabs that stop at once at least one finds none left.
StopIsComing ==
    shownTyping /\ typing = {} /\ ~unheard =>
        \E h \in Typings: IsToTell(h)

IndicatorsInv == IndicatorsTypeOK /\ OfflineIsComing /\ StopIsComing

\* Nobody stays online, or typing, to the others once the last key has gone,
\* whichever tabs stop, close or begin meanwhile, but by a failure or by a start
\* that was overtaken.
NobodyStaysOnline == shownOnline /\ ~online ~> ~shownOnline \/ online \/ missed
NobodyStaysTyping ==
    shownTyping /\ typing = {} ~> ~shownTyping \/ typing # {} \/ unheard
=============================================================================
