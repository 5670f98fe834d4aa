--------------------------- MODULE Relationships ---------------------------
(***************************************************************************)
(* Two people: the relationship documents between them, their direct       *)
(* conversations, and the requests of both that read one and write the     *)
(* other.  Requests interleave at their awaits; a step is the code from    *)
(* one await up to and with the command it awaits next.                    *)
(*                                                                         *)
(* The index on (requester, recipient) is unique, so there is at most one  *)
(* document per requester, and two for the pair.  A request that the check *)
(* of the two accounts refuses is a request never made.  Messages are not  *)
(* kept, only whom they may reach; acceptedBy, events, the flags of unseen *)
(* messages and the counters of the statistics are left out.  The          *)
(* hiddenHistory of a conversation has an entry of a person ("hidden" or   *)
(* "shown") or none.                                                       *)
(***************************************************************************)
EXTENDS FiniteSets

CONSTANTS
    People,         \* the two of them
    Nobody,
    Docs,           \* identifiers of relationships, each used once
    NoDoc,
    Convs,          \* identifiers of conversations
    NoConv,
    Handlers,       \* requests in flight at a time
    Requests        \* the operations that are asked for

Operations == {"request", "accept", "delete", "block", "blockAndDelete",
               "unblock", "talk", "hide", "send"}

ASSUME PairAssumption ==
    \E p, q \in People: p # q /\ People = {p, q}
ASSUME NamesAssumption ==
    Nobody \notin People /\ NoDoc \notin Docs /\ NoConv \notin Convs
ASSUME RequestsAssumption == Requests \subseteq Operations

VARIABLES
    status, requester, blockedBy,   \* MongoDB: the relationships
    open, history,                  \* MongoDB: the direct conversations
    run,                            \* the requests in flight
    clear                           \* history: since the request began there
                                    \* was a moment without a block

docVars == <<status, requester, blockedBy>>
convVars == <<open, history>>
vars == <<docVars, convVars, run, clear>>

Idle == [at |-> "idle", op |-> "request", user |-> Nobody, doc |-> NoDoc,
         conv |-> NoConv, read |-> "none", entry |-> "none"]

Reaching == {"existing", "unhide", "open", "welcome", "send"}
Stops == Reaching \union
         {"check", "insert", "seek", "accept", "filter", "isBlocked", "find",
          "update", "hideRead", "hideWrite", "commit"}

State == [at: Stops \union {"idle"}, op: Operations,
          user: People \union {Nobody}, doc: Docs \union {NoDoc},
          conv: Convs \union {NoConv}, read: {"none", "pending", "accepted"},
          entry: {"none", "shown"}]

TypeOK ==
    /\ status \in [Docs -> {"free", "pending", "accepted", "blocked", "gone"}]
    /\ requester \in [Docs -> People \union {Nobody}]
    /\ blockedBy \in [Docs -> People \union {Nobody}]
    /\ open \subseteq Convs
    /\ history \in [Convs -> [People -> {"none", "shown", "hidden"}]]
    /\ run \in [Handlers -> State]
    /\ clear \in [Handlers -> BOOLEAN]

Init ==
    /\ status = [d \in Docs |-> "free"]
    /\ requester = [d \in Docs |-> Nobody]
    /\ blockedBy = [d \in Docs |-> Nobody]
    /\ open = {}
    /\ history = [c \in Convs |-> [p \in People |-> "none"]]
    /\ run = [h \in Handlers |-> Idle]
    /\ clear = [h \in Handlers |-> FALSE]

-----------------------------------------------------------------------------
(* Helpers.                                                                *)

IsAt(h, stop) == run[h].at = stop
Goes(h, stop) == run' = [run EXCEPT ![h].at = stop]
Returns(h) == run' = [run EXCEPT ![h] = Idle]

Stored == {d \in Docs: status[d] \in {"pending", "accepted", "blocked"}}
Blocked == \E d \in Docs: status[d] = "blocked"

\* A request of p that goes to `stop' with a relationship or a conversation.
Begins(h, op, stop, p, d, c) ==
    /\ op \in Requests
    /\ IsAt(h, "idle")
    /\ run' = [run EXCEPT ![h] = [at |-> stop, op |-> op, user |-> p, doc |-> d,
                                  conv |-> c, read |-> "none",
                                  entry |-> "none"]]
    /\ UNCHANGED <<docVars, convVars>>

\* Blocking from a conversation goes on to hide it.
Ends(h) ==
    IF run[h].op = "blockAndDelete"
    THEN run' = [run EXCEPT ![h].at = "hideRead", ![h].doc = NoDoc]
    ELSE Returns(h)

Throws(h) == Returns(h) /\ UNCHANGED <<docVars, convVars>>

Set(d, s, p) ==
    /\ status' = [status EXCEPT ![d] = s]
    /\ blockedBy' = [blockedBy EXCEPT ![d] = p]
    /\ UNCHANGED <<requester, convVars>>

-----------------------------------------------------------------------------
(* create: a request, or the block of somebody there is no relationship    *)
(* with.                                                                   *)

Create(h, p) == Begins(h, "request", "check", p, NoDoc, NoConv)

\* findOne may find either of two documents.  A request of the other person is
\* accepted, whatever the status that was to be created.
GetPendingRelationshipOrNull(h) ==
    /\ IsAt(h, "check")
    /\ \/ Stored = {} /\ Goes(h, "insert")
       \/ \E d \in Stored:
            IF status[d] = "pending" /\ requester[d] # run[h].user
            THEN run' = [run EXCEPT ![h].at = "seek", ![h].doc = d]
            ELSE Returns(h)
    /\ UNCHANGED <<docVars, convVars>>

\* Mutant: there is no unique index.
Insert_NoIndex(h) ==
    /\ IsAt(h, "insert")
    /\ \E d \in Docs:
         /\ status[d] = "free"
         /\ status' = [status EXCEPT ![d] =
                         IF run[h].op # "request" THEN "blocked" ELSE "pending"]
         /\ requester' = [requester EXCEPT ![d] = run[h].user]
         /\ blockedBy' = [blockedBy EXCEPT ![d] =
                IF run[h].op # "request" THEN run[h].user ELSE Nobody]
    /\ Ends(h)
    /\ UNCHANGED convVars

\* The unique index refuses a second document of the requester.
Insert(h) ==
    LET p == run[h].user
        blocks == run[h].op # "request"
    IN
    /\ IsAt(h, "insert")
    /\ IF \E d \in Stored: requester[d] = p
       THEN Throws(h)
       ELSE /\ \E d \in Docs:
                 /\ status[d] = "free"
                 /\ status' = [status EXCEPT ![d] =
                                 IF blocks THEN "blocked" ELSE "pending"]
                 /\ requester' = [requester EXCEPT ![d] = p]
                 /\ blockedBy' = [blockedBy EXCEPT ![d] =
                                    IF blocks THEN p ELSE Nobody]
            /\ Ends(h)
            /\ UNCHANGED convVars

-----------------------------------------------------------------------------
(* accept, with the conversation and the message it leads to.              *)

Accept(h, p, d) ==
    /\ status[d] # "free"
    /\ Begins(h, "accept", "seek", p, d, NoConv)

SeekPending(h) ==
    LET d == run[h].doc IN
    /\ IsAt(h, "seek")
    /\ IF status[d] = "pending" /\ requester[d] # run[h].user
       THEN Goes(h, "accept")
       ELSE Returns(h)
    /\ UNCHANGED <<docVars, convVars>>

\* Mutant: the update filters on the identifier alone.
SetAccepted_ById(h) ==
    LET d == run[h].doc IN
    /\ IsAt(h, "accept")
    /\ Set(d, "accepted", blockedBy[d])
    /\ run' = [run EXCEPT ![h].at = "filter", ![h].doc = NoDoc]

SetAccepted(h) ==
    LET d == run[h].doc IN
    /\ IsAt(h, "accept")
    /\ IF status[d] = "pending"
       THEN /\ Set(d, "accepted", blockedBy[d])
            /\ run' = [run EXCEPT ![h].at = "filter", ![h].doc = NoDoc]
       ELSE Throws(h)

\* An error from here on is logged and the acceptance stands.
FailsOrEnds(h) ==
    IF run[h].op = "talk" THEN Returns(h) ELSE Ends(h)

\* createMessage of a system message: no check of a block.  The last message of
\* a conversation brings it back to those who hid it.
Restored(c) ==
    [history EXCEPT ![c] = [p \in People |->
        IF history[c][p] = "hidden" THEN "shown" ELSE history[c][p]]]

Welcome(h) ==
    /\ IsAt(h, "welcome")
    /\ history' = Restored(run[h].conv)
    /\ Ends(h)
    /\ UNCHANGED <<docVars, open>>

-----------------------------------------------------------------------------
(* createConversation, of its own or for accept.                           *)

CreateConversation(h, p) == Begins(h, "talk", "filter", p, NoDoc, NoConv)

\* Mutant: only the requester of the blocked relationship is looked up.
FilterBlocked_OneDirection(h) ==
    /\ IsAt(h, "filter")
    /\ IF \E d \in Docs: status[d] = "blocked" /\ requester[d] = run[h].user
       THEN FailsOrEnds(h)
       ELSE Goes(h, "existing")
    /\ UNCHANGED <<docVars, convVars>>

FilterBlocked(h) ==
    /\ IsAt(h, "filter")
    /\ IF Blocked THEN FailsOrEnds(h) ELSE Goes(h, "existing")
    /\ UNCHANGED <<docVars, convVars>>

HasConversation(h, c) ==
    IF run[h].op = "talk" THEN Returns(h)
    ELSE run' = [run EXCEPT ![h].at = "welcome", ![h].conv = c]

FindExisting(h) ==
    /\ IsAt(h, "existing")
    /\ \/ open = {} /\ Goes(h, "open")
       \/ \E c \in open:
            IF history[c][run[h].user] = "hidden"
            THEN run' = [run EXCEPT ![h].at = "unhide", ![h].conv = c]
            ELSE HasConversation(h, c)
    /\ UNCHANGED <<docVars, convVars>>

Unhide(h) ==
    LET c == run[h].conv
        p == run[h].user
    IN
    /\ IsAt(h, "unhide")
    /\ history' = [history EXCEPT ![c][p] = "shown"]
    /\ HasConversation(h, c)
    /\ UNCHANGED <<docVars, open>>

\* Nothing forbids a second conversation of the pair.
Open(h) ==
    LET p == run[h].user IN
    /\ IsAt(h, "open")
    /\ \E c \in Convs \ open:
         /\ open' = open \union {c}
         /\ history' = [history EXCEPT ![c] =
                [q \in People |-> IF q = p THEN "none" ELSE "hidden"]]
         /\ HasConversation(h, c)
    /\ UNCHANGED docVars

-----------------------------------------------------------------------------
(* createMessage of a member.                                              *)

CreateMessage(h, p, c) ==
    /\ c \in open
    /\ Begins(h, "send", "isBlocked", p, NoDoc, c)

CheckIsBlocked(h) ==
    /\ IsAt(h, "isBlocked")
    /\ IF Blocked THEN Returns(h) ELSE Goes(h, "send")
    /\ UNCHANGED <<docVars, convVars>>

Send(h) ==
    /\ IsAt(h, "send")
    /\ history' = Restored(run[h].conv)
    /\ Returns(h)
    /\ UNCHANGED <<docVars, open>>

-----------------------------------------------------------------------------
(* rejectOrRemove, unfriend and unblockUser: one findOneAndDelete each.    *)

\* Either person may.
DeleteOne(d, expected) ==
    /\ "delete" \in Requests
    /\ status[d] = expected
    /\ Set(d, "gone", Nobody)
    /\ UNCHANGED run

RejectOrRemove(d) == DeleteOne(d, "pending")

Unfriend(d) == DeleteOne(d, "accepted")

UnblockUser(p, d) ==
    /\ "unblock" \in Requests
    /\ status[d] = "blocked"
    /\ blockedBy[d] = p
    /\ Set(d, "gone", Nobody)
    /\ UNCHANGED run

-----------------------------------------------------------------------------
(* blockUser, and blockAndDelete, which calls it in a transaction.         *)

BlockUser(h, p) == Begins(h, "block", "find", p, NoDoc, NoConv)

BlockAndDelete(h, p, c) ==
    /\ c \in open
    /\ Begins(h, "blockAndDelete", "find", p, NoDoc, c)

\* No relationship: create makes one, outside of the transaction.
FindRelationship(h) ==
    /\ IsAt(h, "find")
    /\ \/ Stored = {} /\ Goes(h, "check")
       \/ \E d \in Stored:
            IF status[d] = "blocked" THEN Returns(h)
            ELSE run' = [run EXCEPT
                    ![h].at = IF run[h].op = "blockAndDelete" THEN "hideRead"
                              ELSE "update",
                    ![h].doc = d, ![h].read = status[d]]
    /\ UNCHANGED <<docVars, convVars>>

\* The update asks for the identifier alone: a block that the other person
\* made meanwhile is overwritten.
UpdateBlocked(h) ==
    LET d == run[h].doc IN
    /\ IsAt(h, "update")
    /\ IF d \in Stored THEN Set(d, "blocked", run[h].user)
                       ELSE UNCHANGED <<docVars, convVars>>
    /\ Returns(h)

-----------------------------------------------------------------------------
(* hiddenHistory, of its own or for blockAndDelete.                        *)

HideHistory(h, p, c) ==
    /\ c \in open
    /\ Begins(h, "hide", "hideRead", p, NoDoc, c)

ReadHistory(h) ==
    LET entry == history[run[h].conv][run[h].user] IN
    /\ IsAt(h, "hideRead")
    /\ IF entry = "hidden"
       THEN Returns(h)
       ELSE run' = [run EXCEPT
                ![h].at = IF run[h].op = "blockAndDelete" THEN "commit"
                          ELSE "hideWrite",
                ![h].entry = entry]
    /\ UNCHANGED <<docVars, convVars>>

Hides(h) ==
    /\ history' = [history EXCEPT ![run[h].conv][run[h].user] = "hidden"]
    /\ UNCHANGED open

\* The filter of the update: the entry is as it was read.
IsAsRead(h) == history[run[h].conv][run[h].user] = run[h].entry

WriteHistory(h) ==
    /\ IsAt(h, "hideWrite")
    /\ IF IsAsRead(h) THEN Hides(h) ELSE UNCHANGED convVars
    /\ Returns(h)
    /\ UNCHANGED docVars

\* The transaction commits the block together with the hiding, or MongoDB runs it
\* again: always when the relationship was written since it was read.
Commit(h) ==
    LET d == run[h].doc IN
    /\ IsAt(h, "commit")
    /\ \/ /\ run' = [run EXCEPT ![h].at = "find", ![h].doc = NoDoc]
          /\ UNCHANGED <<docVars, convVars>>
       \/ ~IsAsRead(h) /\ Throws(h)
       \/ /\ IsAsRead(h)
          /\ IF d = NoDoc
             THEN UNCHANGED docVars
             ELSE /\ status[d] = run[h].read
                  /\ status' = [status EXCEPT ![d] = "blocked"]
                  /\ blockedBy' = [blockedBy EXCEPT ![d] = run[h].user]
                  /\ UNCHANGED requester
          /\ Hides(h)
          /\ Returns(h)

-----------------------------------------------------------------------------
\* A command is rejected, or the process restarts: the request ends where it is.
\* What accept does after the acceptance is only logged.
Fails(h) ==
    /\ ~IsAt(h, "idle")
    /\ IF run[h].at \in (Reaching \ {"send"}) \union {"filter"}
       THEN FailsOrEnds(h) \/ Returns(h)
       ELSE Returns(h)
    /\ UNCHANGED <<docVars, convVars>>

Request(h, p) ==
    \/ Create(h, p) \/ CreateConversation(h, p) \/ BlockUser(h, p)
    \/ \E d \in Docs: Accept(h, p, d)
    \/ \E c \in Convs: \/ BlockAndDelete(h, p, c) \/ HideHistory(h, p, c)
                       \/ CreateMessage(h, p, c)

Progress(h) ==
    \/ GetPendingRelationshipOrNull(h) \/ Insert(h)
    \/ SeekPending(h) \/ SetAccepted(h) \/ Welcome(h)
    \/ FilterBlocked(h) \/ FindExisting(h) \/ Unhide(h) \/ Open(h)
    \/ CheckIsBlocked(h) \/ Send(h)
    \/ FindRelationship(h) \/ UpdateBlocked(h)
    \/ ReadHistory(h) \/ WriteHistory(h) \/ Commit(h)

Act ==
    \/ \E h \in Handlers, p \in People: Request(h, p)
    \/ \E h \in Handlers: Progress(h) \/ Fails(h)
    \/ \E d \in Docs: RejectOrRemove(d) \/ Unfriend(d)
    \/ \E p \in People, d \in Docs: UnblockUser(p, d)

\* A request has seen a moment without a block when there is none now.
Remembers ==
    clear' = [h \in Handlers |->
                run'[h].at # "idle" /\ (clear[h] \/ ~Blocked')]

Next == Act /\ Remembers

Spec == Init /\ [][Next]_vars

-----------------------------------------------------------------------------
(* Properties.                                                             *)

\* A relationship that is blocked stays so until the person who blocked it last
\* unblocks it: an acceptance, a refusal or an unfriending that found it
\* otherwise, and a transaction that read it earlier, do not undo the block.
StaysBlocked ==
    \A d \in Docs: status[d] = "blocked" =>
        status'[d] = "blocked" \/ UnblockUser(blockedBy[d], d)

BlocksAreNotUndone == [][StaysBlocked]_vars

\* Nobody opens a conversation, brings one back or writes in it by a request
\* during which the two were blocked all along: each way to the other person
\* asks for a block in either direction first, accepting a request too.
ReachesWhenClear ==
    \A h \in Handlers:
        Open(h) \/ Unhide(h) \/ Welcome(h) \/ Send(h) => clear[h]

NobodyReachesThroughABlock == [][ReachesWhenClear]_vars

\* Who blocked is known of the blocked relationships, and of no other.
BlockedBySomebody ==
    \A d \in Docs: (status[d] = "blocked") <=> (blockedBy[d] # Nobody)

\* The pair has one relationship per requester at most.
OnePerRequester ==
    \A d, e \in Stored: requester[d] = requester[e] => d = e

\* What a stop of a request needs was read before it.
Knows(h) ==
    /\ ~IsAt(h, "idle") => run[h].user \in People
    /\ run[h].at \in {"seek", "accept", "update"} =>
        run[h].doc \in Docs /\ status[run[h].doc] # "free"
    /\ run[h].at \in {"unhide", "welcome", "isBlocked", "send", "hideRead",
                      "hideWrite", "commit"} => run[h].conv \in open
    /\ run[h].op = "blockAndDelete" => run[h].conv \in open
    /\ run[h].at \in Reaching => clear[h]

RequestsKnow == \A h \in Handlers: Knows(h)

Inv == TypeOK /\ BlockedBySomebody /\ OnePerRequester /\ RequestsKnow
=============================================================================
