------------------------------- MODULE Groups -------------------------------
(***************************************************************************)
(* A group: its members, its administrator, and the requests that add,     *)
(* remove, promote, write, read, join its room and disband it.  Each reads *)
(* the conversation, checks what it read, and after other awaits writes by *)
(* the identifier alone; requests interleave in between.                   *)
(*                                                                         *)
(* Of what a membership leaves behind (a read receipt, a flag of unseen    *)
(* messages in Redis, a socket in the room) only the traces of one person, *)
(* Watched, are kept, and of the files only the first one: what is said of *)
(* them holds of all.  Every check is made when the conversation is read,  *)
(* on what was read; the lookups that may still refuse are a request that  *)
(* fails.  Names, acceptedBy and hiddenHistory are left out, and so are    *)
(* restarts, a cleanup job that cannot be created, and the nightly orphan  *)
(* job: the file is none of those whose document it takes (see Messages).  *)
(***************************************************************************)
EXTENDS Integers, FiniteSets

CONSTANTS
    People,
    Nobody,         \* the administrator when there is no group
    Watched,        \* the member whose traces are kept
    MaxMembers,     \* MAX_GROUP_MEMBERS
    Handlers        \* requests in flight at a time

ASSUME WatchedAssumption == Watched \in People /\ Nobody \notin People
ASSUME PeopleAssumption == IsFiniteSet(People)
ASSUME MaxAssumption == MaxMembers \in Nat

VARIABLES
    group, users, admin,        \* MongoDB: the conversation
    message, file,              \* its messages; a file of one of them
    receipt, flagged, inRoom,   \* the traces of Watched
    owed,                       \* a cleanup job is to remove the flag
    run,                        \* the requests in flight
    fresh,                      \* history: the members and the administrator
                                \* are as the request read them
    late                        \* history: the traces that were written after
                                \* what they belong to was gone

groupVars == <<group, users, admin>>
dataVars == <<message, file>>
traceVars == <<receipt, flagged, inRoom, owed>>
vars == <<groupVars, dataVars, traceVars, run, fresh, late>>

Traces == {"receipt", "flag", "room", "message", "file"}

Commits == {"add", "remove", "setAdmin", "disband", "create", "read", "join"}
Stops == Commits \union
         {"idle", "upload", "unflag", "leave", "unflagAll", "files", "notify"}

\* A request about `who': `own' is whether it is one of Watched, `saw' whether
\* Watched was a member when it read, `key' whether it holds the file.
State == [at: Stops, who: SUBSET People, own: BOOLEAN, saw: BOOLEAN,
          key: BOOLEAN]

Idle == [at |-> "idle", who |-> {}, own |-> FALSE, saw |-> FALSE, key |-> FALSE]

TypeOK ==
    /\ group \in {"none", "live", "gone"}
    /\ users \subseteq People
    /\ admin \in People \union {Nobody}
    /\ message \in BOOLEAN
    /\ file \in {"none", "uploaded", "stored", "gone"}
    /\ receipt \in BOOLEAN
    /\ flagged \in BOOLEAN
    /\ inRoom \in BOOLEAN
    /\ owed \in BOOLEAN
    /\ run \in [Handlers -> State]
    /\ fresh \in [Handlers -> BOOLEAN]
    /\ late \subseteq Traces

Init ==
    /\ group = "none" /\ users = {} /\ admin = Nobody
    /\ message = FALSE /\ file = "none"
    /\ receipt = FALSE /\ flagged = FALSE /\ inRoom = FALSE /\ owed = FALSE
    /\ run = [h \in Handlers |-> Idle]
    /\ fresh = [h \in Handlers |-> TRUE]
    /\ late = {}

-----------------------------------------------------------------------------
(* Helpers.                                                                *)

IsAt(h, stop) == run[h].at = stop
Goes(h, stop) == run' = [run EXCEPT ![h].at = stop]
Returns(h) == run' = [run EXCEPT ![h] = Idle]

IsMember(p) == group = "live" /\ p \in users
IsAdmin(p) == group = "live" /\ admin = p

\* getConversationOrThrow: the request has read the conversation.  Two requests
\* use the members that were read again.
Begins(h, stop, p, who) ==
    /\ IsAt(h, "idle")
    /\ run' = [run EXCEPT ![h] =
            [at |-> stop, who |-> who, own |-> p = Watched, key |-> FALSE,
             saw |-> stop \in {"create", "upload", "disband"} /\ Watched \in users]]
    /\ UNCHANGED <<groupVars, dataVars, traceVars>>

Throws(h) == Returns(h) /\ UNCHANGED <<groupVars, dataVars, traceVars>>

\* The flag is set for whom of the members that were read is online, but for the
\* sender.
Flags(h, read) ==
    \/ UNCHANGED flagged
    \/ read /\ ~run[h].own /\ flagged' = TRUE

\* createMessage of a system message, in the transaction of the caller; it
\* reads the members outside of that transaction.
Announces(h) ==
    /\ message' = TRUE
    /\ Flags(h, Watched \in users)
    /\ UNCHANGED <<file, inRoom, owed>>

\* What a request is at once it has written: only Watched matters to it still.
Done(h, stop) ==
    run' = [run EXCEPT ![h].at = stop, ![h].who = run[h].who \intersect {Watched},
                       ![h].own = FALSE]

-----------------------------------------------------------------------------
(* The life of the group.                                                  *)

\* The members are those of the list who are not blocked.
CreateGroup(p, members) ==
    /\ group = "none"
    /\ p \in members
    /\ Cardinality(members) \in 3 .. MaxMembers
    /\ group' = "live"
    /\ users' = members
    /\ admin' = p
    /\ UNCHANGED <<dataVars, traceVars, run>>

\* Mutant: the limit is compared before the new members are counted.
AddMembers_Uncounted(h, p, new) ==
    /\ IsAdmin(p)
    /\ new # {} /\ new \intersect users = {}
    /\ Cardinality(users) <= MaxMembers
    /\ Begins(h, "add", p, new)

\* The limit is compared with the members that were read.
AddMembers(h, p, new) ==
    /\ IsAdmin(p)
    /\ new # {} /\ new \intersect users = {}
    /\ Cardinality(users) + Cardinality(new) <= MaxMembers
    /\ Begins(h, "add", p, new)

CommitAdd(h) ==
    /\ IsAt(h, "add")
    /\ IF group = "live"
       THEN /\ users' = users \union run[h].who
            /\ receipt' = (receipt \/ run[h].own)
            /\ Announces(h)
            /\ Returns(h)
            /\ UNCHANGED <<group, admin>>
       ELSE Throws(h)

\* Mutant: the administrator may leave.
RemoveMember_AdminLeaves(h, p, q) ==
    /\ IsMember(q)
    /\ p # q => IsAdmin(p)
    /\ Begins(h, "remove", p, {q})

RemoveMember(h, p, q) ==
    /\ IsMember(q)
    /\ IF p = q THEN ~IsAdmin(p) ELSE IsAdmin(p)
    /\ Begins(h, "remove", p, {q})

\* Who leaves is the sender of the message that says so, and gets a receipt
\* again.
CommitRemove(h) ==
    /\ IsAt(h, "remove")
    /\ IF group = "live"
       THEN /\ users' = users \ run[h].who
            /\ receipt' = (run[h].own \/ (receipt /\ Watched \notin run[h].who))
            /\ Announces(h)
            /\ Done(h, "unflag")
            /\ UNCHANGED <<group, admin>>
       ELSE Throws(h)

\* removeUnseenConversationWithCleanup, whose failure makes a cleanup job.
Unflag(h) ==
    /\ IsAt(h, "unflag")
    /\ \/ /\ flagged' = (flagged /\ Watched \notin run[h].who)
          /\ UNCHANGED owed
       \/ /\ owed' = (owed \/ Watched \in run[h].who)
          /\ UNCHANGED flagged
    /\ Goes(h, "leave")
    /\ UNCHANGED <<groupVars, dataVars, receipt, inRoom>>

RunCleanupJob ==
    /\ owed
    /\ owed' = FALSE
    /\ flagged' = FALSE
    /\ UNCHANGED <<groupVars, dataVars, receipt, inRoom, run>>

\* Mutant: the removal is told, and nobody leaves the room.
Leave_InRoom(h) ==
    /\ IsAt(h, "leave")
    /\ UNCHANGED inRoom
    /\ Returns(h)
    /\ UNCHANGED <<groupVars, dataVars, receipt, flagged, owed>>

\* memberRemoved$: the sockets of the person leave the room.
Leave(h) ==
    /\ IsAt(h, "leave")
    /\ inRoom' = (inRoom /\ Watched \notin run[h].who)
    /\ Returns(h)
    /\ UNCHANGED <<groupVars, dataVars, receipt, flagged, owed>>

ChangeAdmin(h, p, q) ==
    /\ IsAdmin(p) /\ IsMember(q) /\ p # q
    /\ Begins(h, "setAdmin", p, {q})

CommitAdmin(h) ==
    /\ IsAt(h, "setAdmin")
    /\ IF group = "live"
       THEN /\ admin' \in run[h].who
            /\ receipt' = (receipt \/ run[h].own)
            /\ Announces(h)
            /\ Returns(h)
            /\ UNCHANGED <<group, users>>
       ELSE Throws(h)

DisbandGroup(h, p) ==
    /\ IsAdmin(p)
    /\ Begins(h, "disband", p, {})

\* Mutant: the media are deleted without their keys being kept.
CommitDisband_NoKeys(h) ==
    /\ IsAt(h, "disband")
    /\ group' = "gone" /\ users' = {} /\ admin' = Nobody
    /\ message' = FALSE /\ receipt' = FALSE
    /\ Goes(h, "unflagAll")
    /\ UNCHANGED <<file, flagged, inRoom, owed>>

\* The transaction lists the media, and deletes them, the messages and the
\* conversation.
CommitDisband(h) ==
    /\ IsAt(h, "disband")
    /\ group' = "gone" /\ users' = {} /\ admin' = Nobody
    /\ message' = FALSE /\ receipt' = FALSE
    /\ run' = [run EXCEPT ![h].at = "unflagAll", ![h].key = (file = "stored")]
    /\ UNCHANGED <<file, flagged, inRoom, owed>>

\* removeAllUnseenConversation: what the pipeline could not do is not looked at.
UnflagAll(h) ==
    /\ IsAt(h, "unflagAll")
    /\ \/ flagged' = (flagged /\ ~run[h].saw)
       \/ UNCHANGED flagged
    /\ Goes(h, "files")
    /\ UNCHANGED <<groupVars, dataVars, receipt, inRoom, owed>>

\* Deleted, or left to a cleanup job.
DeleteFiles(h) ==
    /\ IsAt(h, "files")
    /\ file' = IF run[h].key THEN "gone" ELSE file
    /\ Returns(h)
    /\ UNCHANGED <<groupVars, message, traceVars>>

-----------------------------------------------------------------------------
(* What members do in it.                                                  *)

CreateMessage(h, p, stop) ==
    /\ IsMember(p)
    /\ stop = "upload" => file = "none"
    /\ Begins(h, stop, p, {})

Upload(h) ==
    /\ IsAt(h, "upload")
    /\ IF file = "none"
       THEN /\ file' = "uploaded"
            /\ run' = [run EXCEPT ![h].at = "create", ![h].key = TRUE]
       ELSE Goes(h, "create") /\ UNCHANGED file
    /\ UNCHANGED <<groupVars, message, traceVars>>

\* Nothing asks whether the conversation is still there.
CommitMessage(h) ==
    /\ IsAt(h, "create")
    /\ message' = TRUE
    /\ file' = IF run[h].key THEN "stored" ELSE file
    /\ receipt' = (receipt \/ (group = "live" /\ run[h].own))
    /\ Goes(h, "notify")
    /\ UNCHANGED <<groupVars, flagged, inRoom, owed>>

\* getUnseenMessageUserIds, of the members that were read.
Notify(h) ==
    /\ IsAt(h, "notify")
    /\ Flags(h, run[h].saw)
    /\ Returns(h)
    /\ UNCHANGED <<groupVars, dataVars, receipt, inRoom, owed>>

MarkAsRead(h) ==
    /\ IsMember(Watched)
    /\ Begins(h, "read", Watched, {})

CommitRead(h) ==
    /\ IsAt(h, "read")
    /\ receipt' = (receipt \/ group = "live")
    /\ Returns(h)
    /\ UNCHANGED <<groupVars, dataVars, flagged, inRoom, owed>>

JoinConversation(h) ==
    /\ IsMember(Watched)
    /\ Begins(h, "join", Watched, {})

Join(h) ==
    /\ IsAt(h, "join")
    /\ inRoom' = TRUE
    /\ Returns(h)
    /\ UNCHANGED <<groupVars, dataVars, receipt, flagged, owed>>

\* markRead clears the flag; the socket is closed.
SeeMessages ==
    /\ flagged
    /\ flagged' = FALSE
    /\ UNCHANGED <<groupVars, dataVars, receipt, inRoom, owed, run>>

Disconnect ==
    /\ inRoom
    /\ inRoom' = FALSE
    /\ UNCHANGED <<groupVars, dataVars, receipt, flagged, owed, run>>

-----------------------------------------------------------------------------
\* A check after the read refuses, or a command is rejected: createMessage
\* deletes its file, whatever was committed.
Fails(h) ==
    /\ run[h].at \in Commits \union {"upload", "notify"}
    /\ file' = IF run[h].key THEN "gone" ELSE file
    /\ Returns(h)
    /\ UNCHANGED <<groupVars, message, traceVars>>

Request(h, p) ==
    \/ \E new \in SUBSET People: AddMembers(h, p, new)
    \/ \E q \in People: RemoveMember(h, p, q) \/ ChangeAdmin(h, p, q)
    \/ DisbandGroup(h, p)
    \/ CreateMessage(h, p, "upload") \/ CreateMessage(h, p, "create")

Progress(h) ==
    \/ CommitAdd(h) \/ CommitRemove(h) \/ Unflag(h) \/ Leave(h)
    \/ CommitAdmin(h) \/ CommitDisband(h) \/ UnflagAll(h) \/ DeleteFiles(h)
    \/ Upload(h) \/ CommitMessage(h) \/ Notify(h)
    \/ MarkAsRead(h) \/ CommitRead(h) \/ JoinConversation(h) \/ Join(h)
    \/ Fails(h)

Act ==
    \/ \E p \in People, members \in SUBSET People: CreateGroup(p, members)
    \/ \E h \in Handlers, p \in People: Request(h, p)
    \/ \E h \in Handlers: Progress(h)
    \/ RunCleanupJob \/ SeeMessages \/ Disconnect

Present == {t \in Traces:
    \/ t = "receipt" /\ receipt
    \/ t = "flag" /\ flagged
    \/ t = "room" /\ inRoom
    \/ t = "message" /\ message
    \/ t = "file" /\ file = "stored"}

\* The traces whose member, or whose group, is gone.
Homeless == (IF group = "gone" THEN {"message", "file"} ELSE {})
            \union (IF IsMember(Watched) THEN {} ELSE {"receipt", "flag", "room"})

Leaving == \E h \in Handlers: IsAt(h, "remove") /\ run[h].who = {Watched}
                                /\ run[h].own /\ run'[h].at = "unflag"

Remembers ==
    /\ fresh' = [h \in Handlers |->
                    \/ run'[h].at \notin Commits \union {"upload", "notify"}
                    \/ fresh[h] /\ users' = users /\ admin' = admin]
    /\ late' = {t \in Present' \intersect Homeless':
                    \/ t \in late
                    \/ t \in Homeless \ Present
                    \/ t = "receipt" /\ Leaving}

Next == Act /\ Remembers

Spec == Init /\ [][Next]_vars

-----------------------------------------------------------------------------
(* Properties.                                                             *)

\* The administrator is a member, and the members are within the limit.
Sound ==
    group = "live" => admin \in users /\ Cardinality(users) <= MaxMembers

\* What was breaks, or a trace of what is gone appears.
Breaks ==
    /\ Sound
    /\ \/ ~Sound'
       \/ \E t \in Homeless \ Present: t \in Homeless' /\ t \in Present'

\* No request breaks the group by itself, nor leaves a trace of a member who is
\* no more or in a group that is no more: only one whose members or administrator
\* another request changed after it had read them does, whatever the order.
\* The checks made on what was read are all that is needed without a race.
OnlyRacesBreak ==
    Breaks => \E h \in Handlers: run'[h] # run[h] /\ ~fresh[h]

OnlyRacesBreakTheGroup == [][OnlyRacesBreak]_vars

Pending(h, stops) == run[h].at \in stops /\ Watched \in run[h].who

\* Of a person who is no member any more the receipt, the flag and the socket in
\* the room go with the removal, or are about to, or belong to a later write.
TracesGoWithTheMember ==
    group = "live" /\ Watched \notin users =>
        /\ receipt => "receipt" \in late
        /\ flagged => \/ "flag" \in late \/ owed
                      \/ \E h \in Handlers: Pending(h, {"unflag"})
        /\ inRoom => \/ "room" \in late
                     \/ \E h \in Handlers: Pending(h, {"unflag", "leave"})

\* A group that is disbanded leaves no message, and no file but one that the
\* disbanding request is about to delete; other than those committed later.
NothingIsLeftOfTheGroup ==
    /\ group = "gone" =>
        /\ message => "message" \in late
        /\ file = "stored" =>
            \/ "file" \in late
            \/ \E h \in Handlers: run[h].at \in {"unflagAll", "files"} /\ run[h].key
    /\ file = "uploaded" =>
        \E h \in Handlers: IsAt(h, "create") /\ run[h].key

\* There is nothing before there is a group, a group has an administrator, and
\* one person at a time is removed.
GroupIsFirst ==
    /\ group = "none" =>
        /\ ~receipt /\ ~flagged /\ ~inRoom
        /\ \A h \in Handlers: IsAt(h, "idle")
    /\ group = "live" => admin \in People
    /\ \A h \in Handlers: IsAt(h, "remove") => \E q \in People: run[h].who = {q}

\* Of a request that is to write or to notify, what it checked when it read holds
\* as long as neither the members nor the administrator are others.
ReadsHold(h) ==
    /\ group = "live"
    /\ run[h].saw => Watched \in users
    /\ run[h].own => Watched \in users \/ admin = Watched
    /\ run[h].at \in {"read", "join"} => Watched \in users
    /\ IsAt(h, "add") => Cardinality(users) + Cardinality(run[h].who) <= MaxMembers
    /\ IsAt(h, "remove") => admin \notin run[h].who
    /\ IsAt(h, "setAdmin") => run[h].who \subseteq users

FreshReadsHold ==
    \A h \in Handlers:
        fresh[h] /\ run[h].at \in Commits \union {"upload", "notify"} => ReadsHold(h)

Inv ==
    /\ TypeOK
    /\ TracesGoWithTheMember
    /\ NothingIsLeftOfTheGroup
    /\ GroupIsFirst
    /\ FreshReadsHold
=============================================================================
