------------------------------ MODULE Realtime ------------------------------
(***************************************************************************)
(* The sockets of one person: how a connection is let in, how a command    *)
(* that arrives on it is checked again, and how the events that end a      *)
(* session, or all of them, close the sockets they find.                   *)
(*                                                                         *)
(* The handler of a connection, a command and an event run side by side    *)
(* and interleave at their awaits; a step is the code from one await up to *)
(* and with the command it awaits next.  A ban, a disabled account and a   *)
(* new token version make the sessions of that moment outdated, which the  *)
(* user document tells; a revoked or deleted session tells it itself.  Of  *)
(* the requests that end sessions only some emit an event.  The presence   *)
(* that a connection sets is in module Indicators.                         *)
(***************************************************************************)

CONSTANTS
    Sockets,
    Sessions        \* logins of the person, each used once

VARIABLES
    started, outdated, revoked,     \* MongoDB: the sessions
    session, connected, inRoom,     \* the sockets: whose they are, and the room
    conn,                           \* the handler of the connection
    command,                        \* a command of the socket
    ending, found,                  \* the event of one session that is revoked
    endingAll,                      \* the event that closes every socket
    untold,                         \* history: the sessions that ended with no event
    late,                           \* history: the sockets let in, or left in the
                                    \* room, after their session had ended
    live                            \* history: the sockets whose session was not
                                    \* over at some moment since the command began

dbVars == <<started, outdated, revoked, untold>>
socketVars == <<session, connected, inRoom>>
eventVars == <<ending, found, endingAll>>
realtimeVars == <<dbVars, socketVars, conn, command, eventVars, late, live>>

Over(x) == x \in outdated \union revoked

RealtimeTypeOK ==
    /\ started \subseteq Sessions
    /\ outdated \subseteq started
    /\ revoked \subseteq started
    /\ session \in [Sockets -> Sessions]
    /\ connected \subseteq Sockets
    /\ inRoom \subseteq connected
    /\ conn \in [Sockets -> {"idle", "user", "session", "join"}]
    /\ command \in [Sockets -> {"idle", "user", "session", "act"}]
    /\ ending \in [Sessions -> {"no", "event", "found"}]
    /\ found \in [Sessions -> SUBSET Sockets]
    /\ endingAll \in {"no", "event", "disabled"}
    /\ untold \subseteq started
    /\ late \subseteq Sockets
    /\ live \subseteq Sockets

RealtimeInit ==
    /\ started = {} /\ outdated = {} /\ revoked = {}
    /\ session \in [Sockets -> Sessions]
    /\ connected = {} /\ inRoom = {}
    /\ conn = [s \in Sockets |-> "idle"]
    /\ command = [s \in Sockets |-> "idle"]
    /\ ending = [x \in Sessions |-> "no"]
    /\ found = [x \in Sessions |-> {}]
    /\ endingAll = "no"
    /\ untold = {}
    /\ late = {}
    /\ live = {}

-----------------------------------------------------------------------------
(* Helpers.                                                                *)

\* A closed socket leaves its rooms.  Its handlers run on.
Closes(closed) ==
    /\ connected' = connected \ closed
    /\ inRoom' = inRoom \ closed
    /\ UNCHANGED session

Connection(s, stop) == conn' = [conn EXCEPT ![s] = stop]
Command(s, stop) == command' = [command EXCEPT ![s] = stop]

Login(x) ==
    /\ x \notin started
    /\ started' = started \union {x}
    /\ UNCHANGED <<outdated, revoked, untold, socketVars, conn, command,
                   eventVars>>

-----------------------------------------------------------------------------
(* handleConnection.                                                       *)

\* The token is verified; the user is read next.
Connect(s, x) ==
    /\ s \notin connected /\ conn[s] = "idle" /\ command[s] = "idle"
    /\ \A y \in Sessions: s \notin found[y]
    /\ x \in started
    /\ session' = [session EXCEPT ![s] = x]
    /\ connected' = connected \union {s}
    /\ Connection(s, "user")
    /\ UNCHANGED <<dbVars, inRoom, command, eventVars>>

Refuses(s) ==
    /\ Connection(s, "idle")
    /\ Closes({s})

FindUser(s) ==
    /\ conn[s] = "user"
    /\ IF session[s] \in outdated
       THEN Refuses(s)
       ELSE Connection(s, "session") /\ UNCHANGED socketVars
    /\ UNCHANGED <<dbVars, command, eventVars>>

FindSession(s) ==
    /\ conn[s] = "session"
    /\ IF session[s] \in revoked
       THEN Refuses(s)
       ELSE Connection(s, "join") /\ UNCHANGED socketVars
    /\ UNCHANGED <<dbVars, command, eventVars>>

Join(s) ==
    /\ conn[s] = "join"
    /\ inRoom' = inRoom \union ({s} \intersect connected)
    /\ Connection(s, "idle")
    /\ UNCHANGED <<dbVars, session, connected, command, eventVars>>

\* A command that is rejected ends the connection.
ConnectionFails(s) ==
    /\ conn[s] # "idle"
    /\ Refuses(s)
    /\ UNCHANGED <<dbVars, command, eventVars>>

Disconnect(s) ==
    /\ s \in connected
    /\ Closes({s})
    /\ UNCHANGED <<dbVars, conn, command, eventVars>>

-----------------------------------------------------------------------------
(* A command of the client: validateActiveSession, then what it does.  It  *)
(* may arrive before the connection is let in.                             *)

Send(s) ==
    /\ s \in connected /\ command[s] = "idle"
    /\ Command(s, "user")
    /\ UNCHANGED <<dbVars, socketVars, conn, eventVars>>

Rejects(s) ==
    /\ Command(s, "idle")
    /\ Closes({s})

CheckUser(s) ==
    /\ command[s] = "user"
    /\ IF session[s] \in outdated
       THEN Rejects(s)
       ELSE Command(s, "session") /\ UNCHANGED socketVars
    /\ UNCHANGED <<dbVars, conn, eventVars>>

\* Mutant: a socket that was let in is trusted.
CheckSession_Trusts(s) ==
    /\ command[s] = "session"
    /\ IF session[s] \in revoked /\ s \notin inRoom
       THEN Rejects(s)
       ELSE Command(s, "act") /\ UNCHANGED socketVars
    /\ UNCHANGED <<dbVars, conn, eventVars>>

CheckSession(s) ==
    /\ command[s] = "session"
    /\ IF session[s] \in revoked
       THEN Rejects(s)
       ELSE Command(s, "act") /\ UNCHANGED socketVars
    /\ UNCHANGED <<dbVars, conn, eventVars>>

\* A message, an edit, a deletion, a receipt: what Messages and Groups have.
Act(s) ==
    /\ command[s] = "act"
    /\ Command(s, "idle")
    /\ UNCHANGED <<dbVars, socketVars, conn, eventVars>>

-----------------------------------------------------------------------------
(* The end of a session.                                                   *)

\* Mutant: the session is revoked without an event.
RevokeSession_Untold(x) ==
    /\ x \in started \ revoked
    /\ revoked' = revoked \union {x}
    /\ UNCHANGED <<started, outdated, untold, socketVars, conn, command,
                   eventVars>>

\* logout.
RevokeSession(x) ==
    /\ x \in started \ revoked
    /\ revoked' = revoked \union {x}
    /\ ending' = [ending EXCEPT ![x] = "event"]
    /\ UNCHANGED <<started, outdated, untold, socketVars, conn, command, found,
                   endingAll>>

\* A changed password, a device that is removed, and a revocation that a cleanup
\* job makes up: no event is emitted.
RevokeQuietly(x) ==
    /\ x \in started \ revoked
    /\ revoked' = revoked \union {x}
    /\ untold' = untold \union {x}
    /\ UNCHANGED <<started, outdated, socketVars, conn, command, eventVars>>

FetchSockets(x) ==
    /\ ending[x] = "event"
    /\ ending' = [ending EXCEPT ![x] = "found"]
    /\ found' = [found EXCEPT ![x] = {s \in inRoom: session[s] = x}]
    /\ UNCHANGED <<dbVars, socketVars, conn, command, endingAll>>

DisconnectFound(x) ==
    /\ ending[x] = "found"
    /\ Closes(found[x])
    /\ ending' = [ending EXCEPT ![x] = "no"]
    /\ found' = [found EXCEPT ![x] = {}]
    /\ UNCHANGED <<dbVars, conn, command, endingAll>>

\* logout of all devices, a ban: the event follows the update.  Disabling the
\* account reads the conversations first.
EndAll(kind) ==
    /\ started \ outdated # {}
    /\ endingAll = "no"
    /\ outdated' = started
    /\ endingAll' = kind
    /\ UNCHANGED <<started, revoked, untold, socketVars, conn, command, ending,
                   found>>

\* Neither a password that is reset by mail nor a new role is told the sockets.
OutdateQuietly ==
    /\ started \ outdated # {}
    /\ outdated' = started
    /\ untold' = untold \union (started \ outdated)
    /\ UNCHANGED <<started, revoked, socketVars, conn, command, eventVars>>

DisconnectSockets ==
    /\ endingAll # "no"
    /\ Closes(inRoom)
    /\ endingAll' = "no"
    /\ UNCHANGED <<dbVars, conn, command, ending, found>>

\* An error of that read is logged, and no socket is closed.
DisabledFails ==
    /\ endingAll = "disabled"
    /\ endingAll' = "no"
    /\ UNCHANGED <<dbVars, socketVars, conn, command, ending, found>>

-----------------------------------------------------------------------------
Handles(s) ==
    \/ FindUser(s) \/ FindSession(s) \/ Join(s)
    \/ ConnectionFails(s) \/ Disconnect(s)
    \/ Send(s) \/ CheckUser(s) \/ CheckSession(s) \/ Act(s)

SocketSteps ==
    \/ \E x \in Sessions: \/ Login(x) \/ RevokeSession(x) \/ RevokeQuietly(x)
                          \/ FetchSockets(x) \/ DisconnectFound(x)
    \/ \E s \in Sockets, x \in Sessions: Connect(s, x)
    \/ \E s \in Sockets: Handles(s)
    \/ EndAll("event") \/ EndAll("disabled") \/ OutdateQuietly
    \/ DisconnectSockets \/ DisabledFails

\* Late are the sockets that join when their session is over, were fetched before
\* they joined, or whose event failed.
KeepsHistory ==
    /\ late' = {s \in inRoom':
                  \/ s \in late
                  \/ s \notin inRoom /\ Over(session[s])
                  \/ Over(session[s]) /\ endingAll = "disabled" /\ endingAll' = "no"}
    /\ live' = {s \in Sockets:
                  command'[s] # "idle" /\ (s \in live \/ ~Over(session[s])')}

RealtimeNext == SocketSteps /\ KeepsHistory

RealtimeSpec == RealtimeInit /\ [][RealtimeNext]_realtimeVars

-----------------------------------------------------------------------------
(* Properties.                                                             *)

\* No command acts whose session was over all the time since it began: a socket
\* that was let in late, or that no event closed, cannot write.
NoCommandAfterTheEnd ==
    [][\A s \in Sockets: Act(s) => s \in live]_realtimeVars

\* A socket in the room of the person whose session is over is about to be closed
\* by an event, joined after the end of its session, or no event was emitted.
IsBeingClosed(s) ==
    \/ ending[session[s]] = "event"
    \/ s \in found[session[s]]
    \/ session[s] \in outdated /\ endingAll # "no"

DeadSocketsAreClosed ==
    \A s \in inRoom: Over(session[s]) =>
        s \in late \/ session[s] \in untold \/ IsBeingClosed(s)

\* The user and the session are read one after the other, and yet there was one
\* moment at which both allowed the command.
ChecksHold ==
    \A s \in Sockets:
        /\ command[s] = "session" => s \in live \/ session[s] \in revoked
        /\ command[s] = "act" => s \in live

RealtimeInv == RealtimeTypeOK /\ DeadSocketsAreClosed /\ ChecksHold
=============================================================================
