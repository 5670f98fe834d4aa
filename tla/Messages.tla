------------------------------ MODULE Messages ------------------------------
(***************************************************************************)
(* One conversation: its messages with their files and reactions, the pin, *)
(* the read receipts and who hid it.  Every request reads the conversation *)
(* and the message first, decides, and writes after one or more awaits: a  *)
(* step below is the code from one await up to and with the command it     *)
(* awaits next.                                                            *)
(*                                                                         *)
(* The members do not change, a request that the checks of membership,     *)
(* blocking or muting refuse is a request never made, and the type of a    *)
(* reaction, the text of a message, the message replied to and the flags   *)
(* of unseen messages (of which only the awaits remain) are left out.  A   *)
(* transaction is one step: it either commits or has no effect, and one    *)
(* that MongoDB retries is one that began later.  Message identifiers are  *)
(* numbers, as the code compares ObjectIds by age.                         *)
(***************************************************************************)
EXTENDS Naturals, FiniteSets

CONSTANTS
    Users,
    Files,
    Images,         \* those of messages of type image: Cloudinary; the others R2
    NoUser, NoFile,
    Handlers,       \* requests in flight at a time
    Requests,       \* the operations that are asked for
    MaxMessages,    \* bound on message identifiers
    MaxFaults       \* bound on rejected commands and restarts

Operations == {"create", "delete", "edit", "react", "unreact", "pin", "unpin",
               "read", "hide"}

ASSUME NamesAssumption == NoUser \notin Users /\ NoFile \notin Files
ASSUME ImagesAssumption == Images \subseteq Files
ASSUME RequestsAssumption == Requests \subseteq Operations
ASSUME BoundsAssumption ==
    MaxMessages \in Nat /\ MaxFaults \in Nat

Ids == 1..MaxMessages
None == 0

VARIABLES
    state, sender, file, text,  \* MongoDB: the messages
    reactions,                  \* MongoDB: entries of a user on a message
    media,                      \* MongoDB: the media document of a file
    last, pin, receipts, hidden,\* MongoDB: the conversation
    stored,                     \* Cloudinary or R2: the files
    jobs,                       \* files a cleanup job is to delete
    next,                       \* the next identifier
    run,                        \* the requests in flight
    faults, crashes

messageVars == <<state, sender, file, text, reactions>>
conversationVars == <<last, pin, receipts, hidden>>
fileVars == <<media, stored, jobs>>
failureVars == <<faults, crashes>>
vars == <<messageVars, conversationVars, fileVars, next, run, failureVars>>

Idle == [at |-> "idle", user |-> NoUser, msg |-> None, file |-> NoFile, flag |-> FALSE]

Stops == {"upload", "begin", "commit", "notify", "lookup", "rollback", "job",
          "delete", "edit", "react", "unreact", "pin", "unpin", "read",
          "hide", "clear"}

TypeOK ==
    /\ state \in [Ids -> {"none", "live", "deleted"}]
    /\ sender \in [Ids -> Users \union {NoUser}]
    /\ file \in [Ids -> Files \union {NoFile}]
    /\ text \in [Ids -> {"sent", "edited"}]
    /\ reactions \in [Ids -> [Users -> Nat]]
    /\ media \in [Files -> {"none", "live", "deleted"}]
    /\ {last, pin} \subseteq Ids \union {None}
    /\ receipts \in [Users -> Ids \union {None}]
    /\ hidden \subseteq Users
    /\ stored \subseteq Files
    /\ jobs \subseteq Files
    /\ next \in 1..(MaxMessages + 1)
    /\ run \in [Handlers ->
                  [at: Stops, user: Users, msg: Ids \union {None},
                   file: Files \union {NoFile}, flag: BOOLEAN] \union {Idle}]
    /\ faults \in 0..MaxFaults
    /\ crashes \in 0..MaxFaults

Init ==
    /\ state = [m \in Ids |-> "none"]
    /\ sender = [m \in Ids |-> NoUser]
    /\ file = [m \in Ids |-> NoFile]
    /\ text = [m \in Ids |-> "sent"]
    /\ reactions = [m \in Ids |-> [u \in Users |-> 0]]
    /\ media = [f \in Files |-> "none"]
    /\ last = None
    /\ pin = None
    /\ receipts = [u \in Users |-> None]
    /\ hidden = {}
    /\ stored = {}
    /\ jobs = {}
    /\ next = 1
    /\ run = [h \in Handlers |-> Idle]
    /\ faults = 0
    /\ crashes = 0

-----------------------------------------------------------------------------
(* Helpers.                                                                *)

IsAt(h, stop) == run[h].at = stop
Goes(h, stop) == run' = [run EXCEPT ![h].at = stop]
Returns(h) == run' = [run EXCEPT ![h] = Idle]
Begins(h, op, r) ==
    /\ op \in Requests
    /\ IsAt(h, "idle")
    /\ run' = [run EXCEPT ![h] = r]

\* A request of u about m that stops before its write, with what it read.
Reads(h, op, u, m, flag) ==
    /\ Begins(h, op, [at |-> op, user |-> u, msg |-> m, file |-> NoFile,
                      flag |-> flag])
    /\ UNCHANGED <<messageVars, conversationVars, fileVars, next, failureVars>>

IsFresh(f) ==
    /\ media[f] = "none"
    /\ f \notin stored
    /\ \A m \in Ids: file[m] # f
    /\ \A h \in Handlers: run[h].file # f

-----------------------------------------------------------------------------
(* createMessage, with or without a file.                                  *)

CreateMessage(h, u, f) ==
    /\ f \in Files => IsFresh(f)
    /\ Begins(h, "create", [at |-> IF f = NoFile THEN "begin" ELSE "upload",
                            user |-> u, msg |-> None, file |-> f,
                            flag |-> FALSE])
    /\ UNCHANGED <<messageVars, conversationVars, fileVars, next, failureVars>>

Upload(h) ==
    /\ IsAt(h, "upload")
    /\ stored' = stored \union {run[h].file}
    /\ Goes(h, "begin")
    /\ UNCHANGED <<messageVars, conversationVars, media, jobs, next,
                   failureVars>>

\* Mutant: the identifier is the one after the last message of the conversation.
BeginTransaction_AfterLast(h) ==
    /\ IsAt(h, "begin")
    /\ last < MaxMessages
    /\ next' = last + 2
    /\ run' = [run EXCEPT ![h].at = "commit", ![h].msg = last + 1]
    /\ UNCHANGED <<messageVars, conversationVars, fileVars, failureVars>>

\* The process chooses the identifier, before MongoDB hears of the message.
BeginTransaction(h) ==
    /\ IsAt(h, "begin")
    /\ next <= MaxMessages
    /\ next' = next + 1
    /\ run' = [run EXCEPT ![h].at = "commit", ![h].msg = next]
    /\ UNCHANGED <<messageVars, conversationVars, fileVars, failureVars>>

Commit(h) ==
    LET m == run[h].msg
        u == run[h].user
        f == run[h].file
    IN
    /\ IsAt(h, "commit")
    /\ state' = [state EXCEPT ![m] = "live"]
    /\ sender' = [sender EXCEPT ![m] = u]
    /\ file' = [file EXCEPT ![m] = f]
    /\ media' = [g \in Files |-> IF g = f THEN "live" ELSE media[g]]
    /\ last' = m
    /\ receipts' = [receipts EXCEPT ![u] = m]
    /\ hidden' = {}
    /\ Goes(h, "notify")
    /\ UNCHANGED <<text, reactions, pin, stored, jobs, next, failureVars>>

\* The flags of the other members in Redis.
NotifyUnseen(h) ==
    /\ IsAt(h, "notify")
    /\ Goes(h, "lookup")
    /\ UNCHANGED <<messageVars, conversationVars, fileVars, next, failureVars>>

EmitCreated(h) ==
    /\ IsAt(h, "lookup")
    /\ Returns(h)
    /\ UNCHANGED <<messageVars, conversationVars, fileVars, next, failureVars>>

Rollback(h) ==
    /\ IsAt(h, "rollback")
    /\ stored' = stored \ {run[h].file}
    /\ Returns(h)
    /\ UNCHANGED <<messageVars, conversationVars, media, jobs, next,
                   failureVars>>

\* Mutant: the failure to delete a file is only logged.
CreateCleanupJob_Forgotten(h) ==
    /\ IsAt(h, "job")
    /\ Returns(h)
    /\ UNCHANGED <<messageVars, conversationVars, fileVars, next, failureVars>>

CreateCleanupJob(h) ==
    /\ IsAt(h, "job")
    /\ jobs' = jobs \union {run[h].file}
    /\ Returns(h)
    /\ UNCHANGED <<messageVars, conversationVars, media, stored, next,
                   failureVars>>

-----------------------------------------------------------------------------
(* softDeleteMessage, updateMessageContent.                                *)

DeleteMessage(h, u, m) ==
    /\ state[m] = "live"
    /\ sender[m] = u
    /\ u \notin hidden
    /\ Reads(h, "delete", u, m, pin = m)

MediaIsGone(m) == file[m] \in Files /\ media[file[m]] # "live"

\* Mutant: the media document is not in the transaction.
Delete_KeepsMedia(h) ==
    LET m == run[h].msg IN
    /\ IsAt(h, "delete")
    /\ ~MediaIsGone(m)
    /\ state' = [state EXCEPT ![m] = "deleted"]
    /\ pin' = IF run[h].flag THEN None ELSE pin
    /\ Returns(h)
    /\ UNCHANGED <<sender, file, text, reactions, last, receipts, hidden,
                   fileVars, next, failureVars>>

Delete(h) ==
    LET m == run[h].msg IN
    /\ IsAt(h, "delete")
    /\ ~MediaIsGone(m)
    /\ state' = [state EXCEPT ![m] = "deleted"]
    /\ media' = [f \in Files |-> IF f = file[m] THEN "deleted" ELSE media[f]]
    /\ pin' = IF run[h].flag THEN None ELSE pin
    /\ Returns(h)
    /\ UNCHANGED <<sender, file, text, reactions, last, receipts, hidden,
                   stored, jobs, next, failureVars>>

DeleteAborts(h) ==
    /\ IsAt(h, "delete")
    /\ MediaIsGone(run[h].msg)
    /\ Returns(h)
    /\ UNCHANGED <<messageVars, conversationVars, fileVars, next, failureVars>>

UpdateMessageContent(h, u, m) ==
    /\ state[m] = "live"
    /\ sender[m] = u
    /\ file[m] = NoFile
    /\ text[m] = "sent"
    /\ Reads(h, "edit", u, m, FALSE)

\* Mutant: the update filters on the identifier alone.
Edit_ById(h) ==
    /\ IsAt(h, "edit")
    /\ text' = [text EXCEPT ![run[h].msg] = "edited"]
    /\ Returns(h)
    /\ UNCHANGED <<state, sender, file, reactions, conversationVars, fileVars,
                   next, failureVars>>

Edit(h) ==
    /\ IsAt(h, "edit")
    /\ text' = IF state[run[h].msg] = "live"
               THEN [text EXCEPT ![run[h].msg] = "edited"] ELSE text
    /\ Returns(h)
    /\ UNCHANGED <<state, sender, file, reactions, conversationVars, fileVars,
                   next, failureVars>>

-----------------------------------------------------------------------------
(* updateOrInsertReaction, removeReaction.                                 *)

UpdateOrInsertReaction(h, u, m) ==
    /\ state[m] = "live"
    /\ Reads(h, "react", u, m, reactions[m][u] > 0)

RemoveReaction(h, u, m) ==
    /\ state[m] = "live"
    /\ Reads(h, "unreact", u, m, FALSE)

\* The flag is hasReacted: then only the type of the entries is set.
React(h) ==
    /\ IsAt(h, "react")
    /\ reactions' = IF run[h].flag THEN reactions
                    ELSE [reactions EXCEPT ![run[h].msg][run[h].user] = @ + 1]
    /\ Returns(h)
    /\ UNCHANGED <<state, sender, file, text, conversationVars, fileVars,
                   next, failureVars>>

Unreact(h) ==
    /\ IsAt(h, "unreact")
    /\ reactions' = [reactions EXCEPT ![run[h].msg][run[h].user] = 0]
    /\ Returns(h)
    /\ UNCHANGED <<state, sender, file, text, conversationVars, fileVars,
                   next, failureVars>>

-----------------------------------------------------------------------------
(* pinMessage, unpinMessage.                                               *)

PinMessage(h, u, m) ==
    /\ state[m] = "live"
    /\ Reads(h, "pin", u, m, FALSE)

UnpinMessage(h, u, m) ==
    /\ pin = m
    /\ Reads(h, "unpin", u, m, FALSE)

SetPin(h) ==
    /\ IsAt(h, "pin") \/ IsAt(h, "unpin")
    /\ pin' = IF IsAt(h, "pin") THEN run[h].msg ELSE None
    /\ Returns(h)
    /\ UNCHANGED <<messageVars, last, receipts, hidden, fileVars, next,
                   failureVars>>

-----------------------------------------------------------------------------
(* markAsRead, hiddenHistory.                                              *)

MarkAsRead(h, u, m) ==
    /\ state[m] # "none"
    /\ receipts[u] <= m
    /\ Reads(h, "read", u, m, FALSE)

SetReceipt(h) ==
    /\ IsAt(h, "read")
    /\ receipts' = [receipts EXCEPT ![run[h].user] = run[h].msg]
    /\ Goes(h, "clear")
    /\ UNCHANGED <<messageVars, last, pin, hidden, fileVars, next,
                   failureVars>>

HiddenHistory(h, u) ==
    /\ u \notin hidden
    /\ Reads(h, "hide", u, None, FALSE)

\* The update filters on the conversation not being hidden.
Hide(h) ==
    LET u == run[h].user IN
    /\ IsAt(h, "hide")
    /\ hidden' = hidden \union {u}
    /\ IF u \in hidden THEN Returns(h) ELSE Goes(h, "clear")
    /\ UNCHANGED <<messageVars, last, pin, receipts, fileVars, next,
                   failureVars>>

ClearUnseen(h) ==
    /\ IsAt(h, "clear")
    /\ Returns(h)
    /\ UNCHANGED <<messageVars, conversationVars, fileVars, next, failureVars>>

-----------------------------------------------------------------------------
(* Background and failures.                                                *)

\* A cleanup job succeeds.
CleanUp(f) ==
    /\ f \in jobs
    /\ jobs' = jobs \ {f}
    /\ stored' = stored \ {f}
    /\ UNCHANGED <<messageVars, conversationVars, media, next, run,
                   failureVars>>

\* The nightly job deletes the documents of the files it does not find.  R2 it asks
\* by the key, and a file that is gone does not come back between the check and the
\* delete.  Cloudinary it asks for an image of the type `upload', and the images of
\* messages are of the type `authenticated': it finds none of them.
CleanupOrphanMedia(f) ==
    /\ media[f] # "none"
    /\ f \in Images \/ f \notin stored
    /\ media' = [media EXCEPT ![f] = "none"]
    /\ UNCHANGED <<messageVars, conversationVars, stored, jobs, next, run,
                   failureVars>>

\* A command is rejected.  createMessage catches it, from the upload on, and
\* rolls the file back, whether or not the transaction was committed.  The
\* other requests write first: one that fails before is a request never made.
Fails(h) ==
    LET caught == run[h].at \in {"begin", "commit", "notify", "lookup"}
                    /\ run[h].file # NoFile
    IN
    /\ faults + crashes < MaxFaults
    /\ faults' = faults + 1
    /\ \/ caught /\ Goes(h, "rollback")
       \/ IsAt(h, "rollback") /\ Goes(h, "job")
       \/ /\ ~caught
          /\ run[h].at \in {"upload", "commit", "notify", "lookup", "job",
                            "clear"}
          /\ Returns(h)
    /\ UNCHANGED <<messageVars, conversationVars, fileVars, next, crashes>>

Crash ==
    /\ faults + crashes < MaxFaults
    /\ crashes' = crashes + 1
    /\ run' = [h \in Handlers |-> Idle]
    /\ UNCHANGED <<messageVars, conversationVars, fileVars, next, faults>>

-----------------------------------------------------------------------------
Request(h) ==
    \E u \in Users:
        \/ \E f \in Files \union {NoFile}: CreateMessage(h, u, f)
        \/ HiddenHistory(h, u)
        \/ \E m \in Ids:
            \/ DeleteMessage(h, u, m) \/ UpdateMessageContent(h, u, m)
            \/ UpdateOrInsertReaction(h, u, m) \/ RemoveReaction(h, u, m)
            \/ PinMessage(h, u, m) \/ UnpinMessage(h, u, m)
            \/ MarkAsRead(h, u, m)

Progress(h) ==
    \/ Upload(h) \/ BeginTransaction(h) \/ Commit(h) \/ NotifyUnseen(h)
    \/ EmitCreated(h) \/ Rollback(h) \/ CreateCleanupJob(h)
    \/ Delete(h) \/ DeleteAborts(h) \/ Edit(h)
    \/ React(h) \/ Unreact(h) \/ SetPin(h)
    \/ SetReceipt(h) \/ Hide(h) \/ ClearUnseen(h)

Next ==
    \/ \E h \in Handlers: Request(h) \/ Progress(h) \/ Fails(h)
    \/ \E f \in Files: CleanUp(f) \/ CleanupOrphanMedia(f)
    \/ Crash

Spec == Init /\ [][Next]_vars

-----------------------------------------------------------------------------
(* Properties.                                                             *)

\* A message that was taken back stays so, and no edit that was already under
\* way changes what it said.
TakenBackStays ==
    \A m \in Ids: state[m] = "deleted" =>
        state'[m] = "deleted" /\ text'[m] = text[m]

DeletedIsFinal == [][TakenBackStays]_vars

\* While the file of a message is there, its media document is served or
\* withheld exactly as the message is.  Only an image may have lost its document,
\* which the nightly job takes from it.
MediaFollowsMessage ==
    \A m \in Ids: file[m] \in stored =>
        \/ media[file[m]] = state[m]
        \/ file[m] \in Images /\ media[file[m]] = "none"

\* Short of a restart and of a third failure, no file is left over: it belongs
\* to a message, a request still has it in hand or a job will delete it.
NoFileIsLeftOver ==
    crashes = 0 /\ faults <= 2 =>
        \A f \in stored: \/ f \in jobs
                         \/ \E m \in Ids: file[m] = f
                         \/ \E h \in Handlers: run[h].file = f

\* A message has its identifier to itself, and a request that is to create or to
\* delete one finds it as it was: not yet there, or there and perhaps deleted.
IdsAreUsedOnce ==
    /\ \A m \in Ids: state[m] # "none" => m < next
    /\ \A m \in Ids: file[m] # NoFile => state[m] # "none"
    /\ \A h \in Handlers: IsAt(h, "commit") =>
        run[h].msg \in Ids /\ run[h].msg < next /\ state[run[h].msg] = "none"
    /\ \A h \in Handlers: IsAt(h, "delete") =>
        run[h].msg \in Ids /\ state[run[h].msg] # "none"
    /\ \A g, h \in Handlers:
        IsAt(g, "commit") /\ IsAt(h, "commit") /\ run[g].msg = run[h].msg => g = h

BeforeCommit == {"upload", "begin", "commit"}
AfterCommit == {"notify", "lookup"}

\* What a file that a request has in hand is: of no other request; until the commit
\* of no message, without a document and, until the upload, not stored; after it
\* of the message that was created.
IsInHand(h, f) ==
    /\ run[h].at \in BeforeCommit \union AfterCommit \union {"rollback", "job"}
    /\ run[h].at \in BeforeCommit =>
        media[f] = "none" /\ \A m \in Ids: file[m] # f
    /\ IsAt(h, "upload") => f \notin stored
    /\ run[h].at \in AfterCommit => \E m \in Ids: file[m] = f
    /\ \A g \in Handlers: run[g].file = f => g = h

FilesAreOwned ==
    /\ \A h \in Handlers:
        run[h].at \in {"upload", "rollback", "job"} => run[h].file # NoFile
    /\ \A h \in Handlers: run[h].file # NoFile => IsInHand(h, run[h].file)
    /\ \A m, n \in Ids: file[m] = file[n] /\ file[m] # NoFile => m = n

\* A rollback follows a failure, and so does a job after it.
FailuresAreCounted ==
    \A h \in Handlers: /\ IsAt(h, "rollback") => faults >= 1
                       /\ IsAt(h, "job") => faults >= 2

\* What the requests and the files rely on, and the two properties with it.
Inv ==
    /\ TypeOK
    /\ IdsAreUsedOnce
    /\ FilesAreOwned
    /\ FailuresAreCounted
    /\ MediaFollowsMessage
    /\ NoFileIsLeftOver

\* A file is rolled back only for a message that was not created.
MessagesKeepTheirFile ==
    \A m \in Ids: state[m] = "live" /\ file[m] # NoFile => file[m] \in stored
=============================================================================
