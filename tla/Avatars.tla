------------------------------ MODULE Avatars ------------------------------
(***************************************************************************)
(* The picture of a user or of a group: it is uploaded to Cloudinary, its  *)
(* media document and the reference to it are written in a transaction,    *)
(* and what it replaces is deleted, unless a report about the user keeps   *)
(* it as evidence.  A nightly job deletes the evidence of old reports.     *)
(*                                                                         *)
(* A step is the code from one await up to and with the command it awaits  *)
(* next; a transaction is one step, apart from what is read outside of it. *)
(* Which reports are old enough for the nightly job is left open, and what *)
(* else is decided about a report is in module Penalties; the user and the *)
(* group exist throughout, and the images given as evidence, restarts and  *)
(* a cleanup job that cannot be created are left out.                      *)
(***************************************************************************)
EXTENDS Naturals

CONSTANTS
    Requests,       \* requests in flight at a time
    ReportIds,      \* reports about the user
    MaxFiles,       \* bound on uploaded files
    MaxAborts       \* bound on transactions that fail

ASSUME BoundsAssumption == MaxFiles \in Nat /\ MaxAborts \in Nat

VARIABLES
    owner,          \* whose picture it is: of a "user" or a "group"
    avatar,         \* MongoDB: the picture in use, 0 for none
    media,          \* MongoDB: the files with a media document
    stored,         \* Cloudinary: the files
    jobs,           \* the files with an open cleanup job
    state,          \* MongoDB: of a report
    snapshot,       \* MongoDB: the picture a report keeps, 0 for none
    next,           \* the next file
    request,        \* the requests in flight
    aborts,         \* failures so far
    doubtful,       \* history: files of transactions that were reported as
                    \* failed although they were committed
    late,           \* history: reports that came while the picture was replaced
    lost            \* history: files that were taken out of use unseen

fileVars == <<media, stored, jobs, next>>
reportVars == <<state, snapshot, late>>
faultVars == <<aborts, doubtful>>
avatarsVars == <<owner, avatar, fileVars, reportVars, faultVars, request, lost>>

Files == 1..MaxFiles
MaybeFile == 0..MaxFiles

NoRequest == [at |-> "idle", file |-> 0, old |-> 0, keep |-> FALSE,
              reports |-> {}, pictures |-> {}, seen |-> 0]

State == [at: {"idle", "upload", "find", "begin", "commit", "rollback", "deleteOld",
               "report", "used", "others", "sweep", "deleteSwept"},
          file: MaybeFile, old: MaybeFile, keep: BOOLEAN,
          reports: SUBSET ReportIds, pictures: SUBSET Files, seen: MaybeFile]

AvatarsTypeOK ==
    /\ owner \in {"user", "group"}
    /\ avatar \in MaybeFile
    /\ media \subseteq Files /\ stored \subseteq Files /\ jobs \subseteq Files
    /\ next \in 1..(MaxFiles + 1)
    /\ state \in [ReportIds -> {"none", "open", "decided"}]
    /\ snapshot \in [ReportIds -> MaybeFile]
    /\ request \in [Requests -> State]
    /\ aborts \in 0..MaxAborts
    /\ doubtful \subseteq Files /\ lost \subseteq Files
    /\ late \subseteq ReportIds

AvatarsInit ==
    /\ owner \in {"user", "group"}
    /\ avatar = 0
    /\ media = {} /\ stored = {} /\ jobs = {}
    /\ next = 1
    /\ state = [r \in ReportIds |-> "none"]
    /\ snapshot = [r \in ReportIds |-> 0]
    /\ request = [h \in Requests |-> NoRequest]
    /\ aborts = 0
    /\ doubtful = {} /\ late = {} /\ lost = {}

-----------------------------------------------------------------------------
(* Helpers.                                                                *)

IsAt(h, stop) == request[h].at = stop
GoesTo(h, stop) == request' = [request EXCEPT ![h].at = stop]
IsDone(h) == request' = [request EXCEPT ![h] = NoRequest]
GoesOnWith(h, stop, pictures) ==
    request' = [request EXCEPT ![h] = [NoRequest EXCEPT !.at = stop, !.pictures = pictures]]
Begins(h, asked) == IsAt(h, "idle") /\ request' = [request EXCEPT ![h] = asked]

Reported(f) == \E r \in ReportIds: state[r] # "none" /\ snapshot[r] = f

\* A transaction has written the document of the user or group: another one that
\* writes it is run again until that one is over.
Locked == \E h \in Requests: IsAt(h, "commit")

-----------------------------------------------------------------------------
(* A picture is uploaded or deleted.  The owner is read first, the document *)
(* of the picture it has later.                                            *)

UploadAvatar(h) ==
    /\ Begins(h, [NoRequest EXCEPT !.at = "upload", !.old = avatar])
    /\ UNCHANGED <<avatar, fileVars, reportVars, faultVars, lost>>

UploadFileToCloudinary(h) ==
    /\ IsAt(h, "upload")
    /\ next <= MaxFiles
    /\ stored' = stored \union {next}
    /\ next' = next + 1
    /\ request' = [request EXCEPT ![h].at = "find", ![h].file = next]
    /\ UNCHANGED <<avatar, media, jobs, reportVars, faultVars, lost>>

UploadFails(h) ==
    /\ IsAt(h, "upload")
    /\ IsDone(h)
    /\ UNCHANGED <<avatar, fileVars, reportVars, faultVars, lost>>

DeleteAvatar(h) ==
    /\ avatar # 0
    /\ Begins(h, [NoRequest EXCEPT !.at = "find", !.old = avatar])
    /\ UNCHANGED <<avatar, fileVars, reportVars, faultVars, lost>>

FindOld(h) ==
    LET old == request[h].old IN
    /\ IsAt(h, "find")
    /\ request' = [request EXCEPT ![h].at = "begin",
                                  ![h].old = IF old \in media THEN old ELSE 0]
    /\ UNCHANGED <<avatar, fileVars, reportVars, faultVars, lost>>

\* Mutant: a picture is deleted whether a report has it or not.
IsMediaInReport_Never(h) ==
    /\ IsAt(h, "begin") /\ ~Locked
    /\ GoesTo(h, "commit")
    /\ UNCHANGED <<avatar, fileVars, reportVars, faultVars, lost>>

\* The owner is updated; the reports are read outside of the transaction.
IsMediaInReport(h) ==
    LET old == request[h].old IN
    /\ IsAt(h, "begin") /\ ~Locked
    /\ request' = [request EXCEPT ![h].at = "commit",
                                  ![h].keep = old # 0 /\ Reported(old)]
    /\ UNCHANGED <<avatar, fileVars, reportVars, faultVars, lost>>

\* For a user a picture that is gone makes the transaction fail.
OldIsGone(r) == owner = "user" /\ r.old # 0 /\ ~r.keep /\ r.old \notin media

\* What no request will look for again: a picture that is not the one this
\* request has read, or one kept for a report that is gone.
Misses(r) ==
    ({avatar} \ {0, r.old}) \union {f \in {r.old}: r.keep /\ ~Reported(f)}

Replaces(r) ==
    /\ avatar' = r.file
    /\ media' = (media \union ({r.file} \ {0})) \ (IF r.keep THEN {} ELSE {r.old})
    /\ lost' = lost \union Misses(r)

CommitAvatar(h) ==
    LET r == request[h] IN
    /\ IsAt(h, "commit")
    /\ ~OldIsGone(r)
    /\ Replaces(r)
    /\ IF r.old # 0 /\ ~r.keep THEN GoesOnWith(h, "deleteOld", {r.old}) ELSE IsDone(h)
    /\ UNCHANGED <<stored, jobs, next, reportVars, faultVars>>

RollsBack(h) ==
    IF request[h].file # 0 THEN GoesOnWith(h, "rollback", {request[h].file}) ELSE IsDone(h)

AbortAvatar(h) ==
    /\ IsAt(h, "commit")
    /\ OldIsGone(request[h])
    /\ RollsBack(h)
    /\ UNCHANGED <<avatar, fileVars, reportVars, faultVars, lost>>

\* A command fails before or in the transaction.
Fails(h) ==
    /\ IsAt(h, "find") \/ IsAt(h, "begin") \/ IsAt(h, "commit")
    /\ aborts < MaxAborts
    /\ aborts' = aborts + 1
    /\ RollsBack(h)
    /\ UNCHANGED <<avatar, fileVars, reportVars, doubtful, lost>>

\* The answer to the commit does not arrive.
CommitUnanswered(h) ==
    LET r == request[h] IN
    /\ IsAt(h, "commit")
    /\ ~OldIsGone(r)
    /\ aborts < MaxAborts
    /\ aborts' = aborts + 1
    /\ Replaces(r)
    /\ doubtful' = doubtful \union ({r.file, r.old} \ {0})
    /\ RollsBack(h)
    /\ UNCHANGED <<stored, jobs, next, reportVars>>

\* A file that cannot be deleted is left to a cleanup job.
DeletesFiles(h) ==
    /\ \/ stored' = stored \ request[h].pictures /\ UNCHANGED jobs
       \/ jobs' = jobs \union request[h].pictures /\ UNCHANGED stored
    /\ IsDone(h)

\* Mutant: what the update has replaced is not deleted.
DeleteOldFile_Left(h) ==
    /\ IsAt(h, "deleteOld")
    /\ IsDone(h)
    /\ UNCHANGED <<avatar, fileVars, reportVars, faultVars, lost>>

DeleteOldFile(h) ==
    /\ IsAt(h, "deleteOld")
    /\ DeletesFiles(h)
    /\ UNCHANGED <<avatar, media, next, reportVars, faultVars, lost>>

Rollback(h) ==
    /\ IsAt(h, "rollback")
    /\ DeletesFiles(h)
    /\ UNCHANGED <<avatar, media, next, reportVars, faultVars, lost>>

CleanUp(f) ==
    /\ f \in jobs
    /\ jobs' = jobs \ {f}
    /\ stored' = stored \ {f}
    /\ UNCHANGED <<avatar, media, next, reportVars, faultVars, lost, request>>

-----------------------------------------------------------------------------
(* Reports.                                                                *)

\* The user is read, then the evidence is uploaded, then the report is saved.
CreateReport(h, r) ==
    /\ owner = "user"
    /\ state[r] = "none"
    /\ \A g \in Requests: IsAt(g, "report") => r \notin request[g].reports
    /\ Begins(h, [NoRequest EXCEPT !.at = "report", !.reports = {r}, !.old = avatar])
    /\ UNCHANGED <<avatar, fileVars, reportVars, faultVars, lost>>

BeingReplaced(f) ==
    \/ f # avatar
    \/ \E h \in Requests: IsAt(h, "commit") /\ request[h].old = f /\ ~request[h].keep

SaveReport(h) ==
    /\ IsAt(h, "report")
    /\ \E r \in request[h].reports:
        /\ state' = [state EXCEPT ![r] = "open"]
        /\ snapshot' = [snapshot EXCEPT ![r] = request[h].old]
        /\ late' = IF BeingReplaced(request[h].old) THEN late \union {r} ELSE late
    /\ IsDone(h)
    /\ UNCHANGED <<avatar, fileVars, faultVars, lost>>

\* A penalty may take the picture from the user, and leaves its document.
Decide(r, reset) ==
    /\ state[r] = "open"
    /\ state' = [state EXCEPT ![r] = "decided"]
    /\ reset => ~Locked
    /\ avatar' = IF reset THEN 0 ELSE avatar
    /\ lost' = IF reset /\ ~Reported(avatar) THEN lost \union ({avatar} \ {0}) ELSE lost
    /\ UNCHANGED <<fileVars, snapshot, late, faultVars, request>>

Sweeps(h) == request[h].at \in {"used", "others", "sweep", "deleteSwept"}

\* The nightly job: the reports it finds, their pictures that the user does not
\* have, those that no other report has, and the transaction.
SweepReports(h, found) ==
    LET pictures == {snapshot[r]: r \in found} \intersect media IN
    /\ found # {}
    /\ \A g \in Requests: ~Sweeps(g)
    /\ \A r \in found: state[r] = "decided"
    /\ Begins(h, [NoRequest EXCEPT !.at = "used", !.reports = found,
                                   !.pictures = pictures])
    /\ UNCHANGED <<avatar, fileVars, reportVars, faultVars, lost>>

\* Mutant: the picture the user has now counts as evidence only.
IsStillUsing_Never(h) ==
    /\ IsAt(h, "used")
    /\ GoesTo(h, "others")
    /\ UNCHANGED <<avatar, fileVars, reportVars, faultVars, lost>>

IsStillUsing(h) ==
    /\ IsAt(h, "used")
    /\ request' = [request EXCEPT ![h].at = "others", ![h].seen = avatar,
                                  ![h].pictures = request[h].pictures \ {avatar}]
    /\ UNCHANGED <<avatar, fileVars, reportVars, faultVars, lost>>

IsUsedByActiveReport(h) ==
    LET others == {r \in ReportIds \ request[h].reports: state[r] # "none"}
        pictures == request[h].pictures \ {snapshot[r]: r \in others} IN
    /\ IsAt(h, "others")
    /\ request' = [request EXCEPT ![h].at = "sweep", ![h].pictures = pictures]
    /\ UNCHANGED <<avatar, fileVars, reportVars, faultVars, lost>>

\* A report whose penalty stands is kept without its evidence, the others are
\* deleted.
CommitSweep(h, deleted) ==
    LET pictures == request[h].pictures
        unseen == {snapshot[r]: r \in deleted} \intersect ({request[h].seen} \ {avatar, 0})
        stripped == {r \in request[h].reports: snapshot[r] \in pictures} IN
    /\ IsAt(h, "sweep")
    /\ deleted \subseteq request[h].reports
    /\ state' = [r \in ReportIds |-> IF r \in deleted THEN "none" ELSE state[r]]
    /\ snapshot' = [r \in ReportIds |->
                       IF r \in deleted \union stripped THEN 0 ELSE snapshot[r]]
    /\ late' = late \ deleted
    /\ lost' = lost \union unseen
    /\ media' = media \ pictures
    /\ request' = [g \in Requests |->
         IF g = h
         THEN IF pictures = {} THEN NoRequest
              ELSE [NoRequest EXCEPT !.at = "deleteSwept", !.pictures = pictures]
         ELSE IF IsAt(g, "commit") /\ request[g].old \in pictures
         THEN [request[g] EXCEPT !.at = "begin", !.keep = FALSE]
         ELSE request[g]]
    /\ UNCHANGED <<avatar, stored, jobs, next, faultVars>>

DeleteSwept(h) ==
    /\ IsAt(h, "deleteSwept")
    /\ DeletesFiles(h)
    /\ UNCHANGED <<avatar, media, next, reportVars, faultVars, lost>>

-----------------------------------------------------------------------------
Avatar(h) ==
    \/ UploadAvatar(h) \/ UploadFileToCloudinary(h) \/ UploadFails(h)
    \/ DeleteAvatar(h) \/ FindOld(h) \/ IsMediaInReport(h)
    \/ CommitAvatar(h) \/ AbortAvatar(h)
    \/ DeleteOldFile(h) \/ Rollback(h)
    \/ Fails(h) \/ CommitUnanswered(h)

Report(h) ==
    \/ \E r \in ReportIds: CreateReport(h, r)
    \/ SaveReport(h)
    \/ \E found \in SUBSET ReportIds: SweepReports(h, found)
    \/ IsStillUsing(h) \/ IsUsedByActiveReport(h) \/ DeleteSwept(h)
    \/ \E deleted \in SUBSET ReportIds: CommitSweep(h, deleted)

AvatarsNext ==
    /\ \/ \E h \in Requests: Avatar(h) \/ Report(h)
       \/ \E r \in ReportIds, reset \in BOOLEAN: Decide(r, reset)
       \/ \E f \in Files: CleanUp(f)
    /\ UNCHANGED owner

AvatarsSpec == AvatarsInit /\ [][AvatarsNext]_avatarsVars

-----------------------------------------------------------------------------
(* Properties.                                                             *)

\* The picture of a user or group can be shown: neither a request that replaces
\* it, nor one rolled back, nor the nightly job takes its file or document.
AvatarIsServed ==
    avatar # 0 => avatar \in media /\ (avatar \in stored \/ avatar \in doubtful)

\* A report keeps the picture it was made about for as long as it refers to it,
\* unless the picture was being replaced when the report came.
EvidenceIsKept ==
    \A r \in ReportIds: snapshot[r] # 0 =>
        snapshot[r] \in media \/ r \in late

\* A file that is in use by nothing is about to be deleted, by a request or a
\* job, unless a request took it out of use that had not seen it, or the report
\* it was kept for went at the same moment, or a commit was not answered.
Deletes(h) == request[h].at \in {"rollback", "deleteOld", "deleteSwept"}

Holds(h, f) ==
    \/ request[h].file = f
    \/ Deletes(h) /\ f \in request[h].pictures

IsHeld(f) == \E h \in Requests: Holds(h, f)

InUse(f) == f = avatar \/ f \in jobs \/ Reported(f) \/ IsHeld(f)

NoFileIsLeftOver ==
    \A f \in stored: InUse(f) \/ f \in lost \union doubtful

\* The number of a file is given once, and a file that a request has uploaded is
\* known to nothing else until its document is written.
FilesAreNew ==
    /\ avatar < next
    /\ \A f \in media \union stored \union jobs: f < next
    /\ \A r \in ReportIds: snapshot[r] < next
    /\ \A h \in Requests:
        /\ request[h].file < next /\ request[h].old < next
        /\ \A f \in request[h].pictures: f < next
        /\ request[h].file # 0 => request[h].at \in {"find", "begin", "commit"}

UploadsAreOwn ==
    \A h \in Requests: request[h].file # 0 =>
        /\ request[h].file \in stored \ jobs
        /\ request[h].file # avatar
        /\ \A r \in ReportIds: snapshot[r] # request[h].file
        /\ \A g \in Requests:
            /\ g # h => request[g].file # request[h].file
            /\ request[g].old # request[h].file
            /\ request[h].file \notin request[g].pictures

\* Nothing that is about to be deleted is in use, but for an unanswered commit.
AvatarIsSpared ==
    /\ avatar \in jobs => avatar \in doubtful
    /\ \A h \in Requests:
        /\ (Deletes(h) /\ avatar \in request[h].pictures) => avatar \in doubtful
        /\ request[h].at \in {"others", "sweep"} => avatar \notin request[h].pictures

\* A report is saved once and decided before it is swept, by one sweep at a time.
ReportsAreHandledOnce ==
    /\ \A r \in ReportIds: snapshot[r] # 0 => state[r] # "none"
    /\ \A h \in Requests:
        /\ IsAt(h, "report") => \A r \in request[h].reports: state[r] = "none"
        /\ Sweeps(h) => \A r \in request[h].reports: state[r] = "decided"
    /\ \A g, h \in Requests: Sweeps(g) /\ Sweeps(h) => g = h
    /\ \A g, h \in Requests: IsAt(g, "report") /\ IsAt(h, "report") =>
        g = h \/ request[g].reports \intersect request[h].reports = {}

\* Only a request that is about to commit has decided to keep a picture.
KeptIsAPicture ==
    \A h \in Requests: request[h].keep => IsAt(h, "commit") /\ request[h].old # 0

\* A picture in a report is kept by who replaces it, and is no prey of a sweep.
EvidenceIsSpared ==
    \A h \in Requests, r \in ReportIds: snapshot[r] # 0 /\ r \notin late =>
        /\ (IsAt(h, "commit") /\ request[h].old = snapshot[r]) => request[h].keep
        /\ (IsAt(h, "sweep") /\ r \notin request[h].reports)
            => snapshot[r] \notin request[h].pictures

\* What a sweep does not delete of its reports it has left out for a reason.
LeftOut(h, f) ==
    \/ f \notin media
    \/ request[h].at # "used" /\ f = request[h].seen
    \/ /\ IsAt(h, "sweep")
       /\ \E r \in ReportIds \ request[h].reports: state[r] # "none" /\ snapshot[r] = f

SweepsAreComplete ==
    \A h \in Requests: request[h].at \in {"used", "others", "sweep"} =>
        \A r \in request[h].reports:
            snapshot[r] \in request[h].pictures \/ LeftOut(h, snapshot[r])

\* A file with no document is about to get one, or to be deleted.
FilesHaveDocuments ==
    \A f \in stored \ media: f \in jobs \union doubtful \/ IsHeld(f)

AvatarsInv ==
    /\ AvatarsTypeOK
    /\ AvatarIsServed /\ EvidenceIsKept /\ NoFileIsLeftOver
    /\ FilesAreNew
    /\ UploadsAreOwn
    /\ AvatarIsSpared
    /\ ReportsAreHandledOnce
    /\ KeptIsAPicture
    /\ EvidenceIsSpared
    /\ SweepsAreComplete
    /\ FilesHaveDocuments
=============================================================================
