----------------------------- MODULE GroupsProofs -----------------------------
(***************************************************************************)
(* For any number of people, requests and members: what a member who is    *)
(* removed, and a group that is disbanded, leaves behind was written late, *)
(* or somebody is about to remove it; and the group breaks only by a       *)
(* request that found it otherwise than it is when the request writes.     *)
(*                                                                         *)
(* Both rest on what is known of the requests in flight: a removal is of   *)
(* one person (GroupIsFirst), and what a request has checked still holds   *)
(* while members and administrator are as it read them (FreshReadsHold).   *)
(***************************************************************************)
EXTENDS Groups, FiniteSetTheorems, TLAPS

(***************************************************************************)
(* The requests: where they begin, and what they have checked by then.     *)
(***************************************************************************)
Starts == {"add", "remove", "setAdmin", "disband", "create", "upload", "read", "join"}

Fits(stop, p, who) ==
    /\ group = "live"
    /\ p \in users \/ admin = p
    /\ stop \in {"read", "join"} => p = Watched /\ Watched \in users
    /\ stop = "add" => Cardinality(users) + Cardinality(who) <= MaxMembers
    /\ stop = "remove" => \E q \in People: who = {q} /\ q # admin
    /\ stop = "setAdmin" => who \subseteq users

Begun(h) ==
    \E stop \in Starts, p \in People, who \in SUBSET People:
        Begins(h, stop, p, who) /\ Fits(stop, p, who)

\* Whatever is asked for, a request begins so.
LEMMA Requested ==
  ASSUME NEW h \in Handlers,
         (\E p \in People: Request(h, p)) \/ MarkAsRead(h) \/ JoinConversation(h)
  PROVE  Begun(h)
  <1>1. ASSUME NEW stop \in Starts, NEW p \in People, NEW who \in SUBSET People,
               Begins(h, stop, p, who), Fits(stop, p, who)
        PROVE  Begun(h)
    BY <1>1 DEF Begun
  <1> USE <1>1 DEF Fits, Starts, IsMember, IsAdmin
  <1>2. ASSUME NEW p \in People, NEW new \in SUBSET People, AddMembers(h, p, new)
        PROVE  Begun(h)
    BY <1>2 DEF AddMembers
  <1>3. ASSUME NEW p \in People, NEW q \in People, RemoveMember(h, p, q)
        PROVE  Begun(h)
    <2>1. q # admin
      BY <1>3 DEF RemoveMember
    <2> QED
      BY <1>3, <2>1 DEF RemoveMember
  <1>4. ASSUME NEW p \in People, NEW q \in People, ChangeAdmin(h, p, q)
        PROVE  Begun(h)
    BY <1>4 DEF ChangeAdmin
  <1>5. ASSUME NEW p \in People, DisbandGroup(h, p)
        PROVE  Begun(h)
    BY <1>5 DEF DisbandGroup
  <1>6. ASSUME NEW p \in People, NEW stop \in {"upload", "create"},
               CreateMessage(h, p, stop)
        PROVE  Begun(h)
    BY <1>6 DEF CreateMessage
  <1>7. ASSUME MarkAsRead(h)
        PROVE  Begun(h)
    BY <1>7, WatchedAssumption DEF MarkAsRead
  <1>8. ASSUME JoinConversation(h)
        PROVE  Begun(h)
    BY <1>8, WatchedAssumption DEF JoinConversation
  <1> QED
    BY <1>2, <1>3, <1>4, <1>5, <1>6, <1>7, <1>8 DEF Request

(***************************************************************************)
(* Type correctness.                                                       *)
(***************************************************************************)
LEMMA TypeStays ==
  ASSUME TypeOK, Next
  PROVE  TypeOK'
  <1> DEFINE Goal == TypeOK'
  <1> SUFFICES Goal
    OBVIOUS
  <1> USE DEF TypeOK, IsAt, Goes, Returns, groupVars, dataVars, traceVars
  <1>rem. Remembers
    BY DEF Next
  <1>his. fresh' \in [Handlers -> BOOLEAN] /\ late' \subseteq Traces
    <2>1. fresh' \in [Handlers -> BOOLEAN]
      BY <1>rem DEF Remembers
    <2>2. late' \subseteq Traces
      BY <1>rem DEF Remembers, Present
    <2> QED
      BY <2>1, <2>2
  <1>idle. Idle \in State
    BY DEF Idle, State, Stops
  <1> USE <1>his
  <1>1. ASSUME NEW h \in Handlers, NEW stop \in Starts, NEW p \in People,
               NEW who \in SUBSET People, Begins(h, stop, p, who), Fits(stop, p, who)
        PROVE  Goal
    <2>1. [at |-> stop, who |-> who, own |-> p = Watched, key |-> FALSE,
           saw |-> stop \in {"create", "upload", "disband"} /\ Watched \in users]
            \in State
      BY DEF State, Stops, Commits, Starts
    <2>2. run' \in [Handlers -> State]
      BY <1>1, <2>1 DEF Begins
    <2> QED
      BY <1>1, <2>2 DEF Begins
  <1>2. ASSUME NEW h \in Handlers, CommitAdd(h)
        PROVE  Goal
    <2>1. run' \in [Handlers -> State]
      BY <1>2, <1>idle DEF CommitAdd, Throws, Done
    <2>2. users' \subseteq People
      BY <1>2 DEF CommitAdd, State, Throws
    <2>3. receipt' \in BOOLEAN
      BY <1>2 DEF CommitAdd, State, Throws
    <2>4. flagged' \in BOOLEAN
      BY <1>2 DEF CommitAdd, Announces, Flags, Throws
    <2> QED
      BY <1>2, <2>1, <2>2, <2>3, <2>4 DEF CommitAdd, Throws, Announces
  <1>3. ASSUME NEW h \in Handlers, CommitRemove(h)
        PROVE  Goal
    <2>1. [run[h] EXCEPT !.at = "unflag", !.who = run[h].who \intersect {Watched},
            !.own = FALSE] \in State
      BY DEF State, Stops, Commits
    <2>2. run' \in [Handlers -> State]
      BY <1>3, <1>idle, <2>1 DEF CommitRemove, Throws, Done
    <2>3. users' \subseteq People
      BY <1>3 DEF CommitRemove, State, Throws
    <2>4. receipt' \in BOOLEAN
      BY <1>3 DEF CommitRemove, State, Throws
    <2>5. flagged' \in BOOLEAN
      BY <1>3 DEF CommitRemove, Announces, Flags, Throws
    <2> QED
      BY <1>3, <2>2, <2>3, <2>4, <2>5 DEF CommitRemove, Throws, Announces
  <1>4. ASSUME NEW h \in Handlers, Unflag(h)
        PROVE  Goal
    <2>1. [run[h] EXCEPT !.at = "leave"] \in State
      BY DEF State, Stops, Commits
    <2>2. run' \in [Handlers -> State]
      BY <1>4, <1>idle, <2>1 DEF Unflag, Throws, Done
    <2>3. flagged' \in BOOLEAN
      BY <1>4 DEF Unflag
    <2>4. owed' \in BOOLEAN
      BY <1>4 DEF Unflag
    <2> QED
      BY <1>4, <2>2, <2>3, <2>4 DEF Unflag, Throws
  <1>5. ASSUME NEW h \in Handlers, Leave(h)
        PROVE  Goal
    <2>1. run' \in [Handlers -> State]
      BY <1>5, <1>idle DEF Leave, Throws, Done
    <2>2. inRoom' \in BOOLEAN
      BY <1>5 DEF Leave
    <2> QED
      BY <1>5, <2>1, <2>2 DEF Leave, Throws
  <1>6. ASSUME NEW h \in Handlers, CommitAdmin(h)
        PROVE  Goal
    <2>1. run' \in [Handlers -> State]
      BY <1>6, <1>idle DEF CommitAdmin, Throws, Done
    <2>2. admin' \in People \union {Nobody}
      BY <1>6 DEF CommitAdmin, State, Throws
    <2>3. receipt' \in BOOLEAN
      BY <1>6 DEF CommitAdmin, State, Throws
    <2>4. flagged' \in BOOLEAN
      BY <1>6 DEF CommitAdmin, Announces, Flags, Throws
    <2> QED
      BY <1>6, <2>1, <2>2, <2>3, <2>4 DEF CommitAdmin, Throws, Announces
  <1>7. ASSUME NEW h \in Handlers, CommitDisband(h)
        PROVE  Goal
    <2>1. [run[h] EXCEPT !.at = "unflagAll", !.key = (file = "stored")] \in State
      BY DEF State, Stops, Commits
    <2>2. run' \in [Handlers -> State]
      BY <1>7, <1>idle, <2>1 DEF CommitDisband, Throws, Done
    <2> QED
      BY <1>7, <2>2 DEF CommitDisband, Throws
  <1>8. ASSUME NEW h \in Handlers, UnflagAll(h)
        PROVE  Goal
    <2>1. [run[h] EXCEPT !.at = "files"] \in State
      BY DEF State, Stops, Commits
    <2>2. run' \in [Handlers -> State]
      BY <1>8, <1>idle, <2>1 DEF UnflagAll, Throws, Done
    <2>3. flagged' \in BOOLEAN
      BY <1>8 DEF UnflagAll
    <2> QED
      BY <1>8, <2>2, <2>3 DEF UnflagAll, Throws
  <1>9. ASSUME NEW h \in Handlers, DeleteFiles(h)
        PROVE  Goal
    <2>1. run' \in [Handlers -> State]
      BY <1>9, <1>idle DEF DeleteFiles, Throws, Done
    <2> QED
      BY <1>9, <2>1 DEF DeleteFiles, Throws
  <1>10. ASSUME NEW h \in Handlers, Upload(h)
        PROVE  Goal
    <2>1. [run[h] EXCEPT !.at = "create", !.key = TRUE] \in State
      BY DEF State, Stops, Commits
    <2>2. [run[h] EXCEPT !.at = "create"] \in State
      BY DEF State, Stops, Commits
    <2>3. run' \in [Handlers -> State]
      BY <1>10, <1>idle, <2>1, <2>2 DEF Upload, Throws, Done
    <2> QED
      BY <1>10, <2>3 DEF Upload, Throws
  <1>11. ASSUME NEW h \in Handlers, CommitMessage(h)
        PROVE  Goal
    <2>1. [run[h] EXCEPT !.at = "notify"] \in State
      BY DEF State, Stops, Commits
    <2>2. run' \in [Handlers -> State]
      BY <1>11, <1>idle, <2>1 DEF CommitMessage, Throws, Done
    <2>3. receipt' \in BOOLEAN
      BY <1>11 DEF CommitMessage
    <2> QED
      BY <1>11, <2>2, <2>3 DEF CommitMessage, Throws
  <1>12. ASSUME NEW h \in Handlers, Notify(h)
        PROVE  Goal
    <2>1. run' \in [Handlers -> State]
      BY <1>12, <1>idle DEF Notify, Throws, Done
    <2>2. flagged' \in BOOLEAN
      BY <1>12 DEF Notify, Flags
    <2> QED
      BY <1>12, <2>1, <2>2 DEF Notify, Throws
  <1>13. ASSUME NEW h \in Handlers, CommitRead(h)
        PROVE  Goal
    <2>1. run' \in [Handlers -> State]
      BY <1>13, <1>idle DEF CommitRead, Throws, Done
    <2>2. receipt' \in BOOLEAN
      BY <1>13 DEF CommitRead
    <2> QED
      BY <1>13, <2>1, <2>2 DEF CommitRead, Throws
  <1>14. ASSUME NEW h \in Handlers, Join(h)
        PROVE  Goal
    <2>1. run' \in [Handlers -> State]
      BY <1>14, <1>idle DEF Join, Throws, Done
    <2> QED
      BY <1>14, <2>1 DEF Join, Throws
  <1>15. ASSUME NEW h \in Handlers, Fails(h)
        PROVE  Goal
    <2>1. run' \in [Handlers -> State]
      BY <1>15, <1>idle DEF Fails, Throws, Done
    <2> QED
      BY <1>15, <2>1 DEF Fails, Throws
  <1>16. ASSUME NEW p \in People, NEW members \in SUBSET People, CreateGroup(p, members)
        PROVE  Goal
    BY <1>16 DEF CreateGroup
  <1>17. ASSUME RunCleanupJob
        PROVE  Goal
    BY <1>17 DEF RunCleanupJob
  <1>18. ASSUME SeeMessages
        PROVE  Goal
    BY <1>18 DEF SeeMessages
  <1>19. ASSUME Disconnect
        PROVE  Goal
    BY <1>19 DEF Disconnect
  <1> HIDE DEF Goal, TypeOK, IsAt, Goes, Returns, groupVars, dataVars, traceVars
  <1> QED
    BY Requested, <1>1, <1>2, <1>3, <1>4, <1>5, <1>6, <1>7, <1>8, <1>9,
       <1>10, <1>11, <1>12, <1>13, <1>14, <1>15, <1>16, <1>17, <1>18,
       <1>19
       DEF Next, Act, Progress, Begun

(***************************************************************************)
(* What is there although it has no home any more, and was not before, is  *)
(* remembered as late for as long as it is there.                          *)
(***************************************************************************)
LEMMA LateIsRemembered ==
  ASSUME Remembers
  PROVE  /\ (~IsMember(Watched)' /\ receipt' /\
              ("receipt" \in late \/ (~IsMember(Watched) /\ ~receipt) \/ Leaving)
            => "receipt" \in late')
         /\ (~IsMember(Watched)' /\ flagged' /\
              ("flag" \in late \/ (~IsMember(Watched) /\ ~flagged))
            => "flag" \in late')
         /\ (~IsMember(Watched)' /\ inRoom' /\
              ("room" \in late \/ (~IsMember(Watched) /\ ~inRoom))
            => "room" \in late')
         /\ (group' = "gone" /\ message' /\
              ("message" \in late \/ (group = "gone" /\ ~message))
            => "message" \in late')
         /\ (group' = "gone" /\ file' = "stored" /\
              ("file" \in late \/ (group = "gone" /\ file # "stored"))
            => "file" \in late')
  <1>1. \A t \in Present' \intersect Homeless':
            (t \in late \/ t \in Homeless \ Present \/ (t = "receipt" /\ Leaving)) => t \in late'
    BY DEF Remembers
  <1>2. (~IsMember(Watched)' /\ receipt' /\
              ("receipt" \in late \/ (~IsMember(Watched) /\ ~receipt) \/ Leaving)
            => "receipt" \in late')
    <2>1. ~IsMember(Watched) => "receipt" \in Homeless
      BY DEF Homeless
    <2>2. ~IsMember(Watched)' => "receipt" \in Homeless'
      BY DEF Homeless
    <2>3. ~receipt => "receipt" \notin Present
      BY DEF Present
    <2>4. receipt' => "receipt" \in Present'
      BY DEF Present, Traces
    <2> QED
      BY <1>1, <2>1, <2>2, <2>3, <2>4
  <1>3. (~IsMember(Watched)' /\ flagged' /\
              ("flag" \in late \/ (~IsMember(Watched) /\ ~flagged))
            => "flag" \in late')
    <2>1. ~IsMember(Watched) => "flag" \in Homeless
      BY DEF Homeless
    <2>2. ~IsMember(Watched)' => "flag" \in Homeless'
      BY DEF Homeless
    <2>3. ~flagged => "flag" \notin Present
      BY DEF Present
    <2>4. flagged' => "flag" \in Present'
      BY DEF Present, Traces
    <2> QED
      BY <1>1, <2>1, <2>2, <2>3, <2>4
  <1>4. (~IsMember(Watched)' /\ inRoom' /\
              ("room" \in late \/ (~IsMember(Watched) /\ ~inRoom))
            => "room" \in late')
    <2>1. ~IsMember(Watched) => "room" \in Homeless
      BY DEF Homeless
    <2>2. ~IsMember(Watched)' => "room" \in Homeless'
      BY DEF Homeless
    <2>3. ~inRoom => "room" \notin Present
      BY DEF Present
    <2>4. inRoom' => "room" \in Present'
      BY DEF Present, Traces
    <2> QED
      BY <1>1, <2>1, <2>2, <2>3, <2>4
  <1>5. (group' = "gone" /\ message' /\
              ("message" \in late \/ (group = "gone" /\ ~message))
            => "message" \in late')
    <2>1. group = "gone" => "message" \in Homeless
      BY DEF Homeless
    <2>2. group' = "gone" => "message" \in Homeless'
      BY DEF Homeless
    <2>3. ~message => "message" \notin Present
      BY DEF Present
    <2>4. message' => "message" \in Present'
      BY DEF Present, Traces
    <2> QED
      BY <1>1, <2>1, <2>2, <2>3, <2>4
  <1>6. (group' = "gone" /\ file' = "stored" /\
              ("file" \in late \/ (group = "gone" /\ file # "stored"))
            => "file" \in late')
    <2>1. group = "gone" => "file" \in Homeless
      BY DEF Homeless
    <2>2. group' = "gone" => "file" \in Homeless'
      BY DEF Homeless
    <2>3. file # "stored" => "file" \notin Present
      BY DEF Present
    <2>4. file' = "stored" => "file" \in Present'
      BY DEF Present, Traces
    <2> QED
      BY <1>1, <2>1, <2>2, <2>3, <2>4
  <1> QED
    BY <1>2, <1>3, <1>4, <1>5, <1>6

(***************************************************************************)
(* What a trace waits for stays: who is to remove it still is, or has.     *)
(***************************************************************************)
FlagIsOwed == owed \/ \E h \in Handlers: Pending(h, {"unflag"})
RoomIsOwed == \E h \in Handlers: Pending(h, {"unflag", "leave"})
FileIsOwed == \E h \in Handlers: run[h].at \in {"unflagAll", "files"} /\ run[h].key
UploadIsHeld == file = "uploaded" => \E h \in Handlers: IsAt(h, "create") /\ run[h].key

\* Of a flag, or a socket in the room, that stays.
LEMMA TracesStayOwed ==
  ASSUME TypeOK, Act
  PROVE  (flagged' /\ FlagIsOwed => FlagIsOwed') /\ (inRoom' /\ RoomIsOwed => RoomIsOwed')
  <1> DEFINE Goal == (flagged' /\ FlagIsOwed => FlagIsOwed') /\ (inRoom' /\ RoomIsOwed => RoomIsOwed')
  <1> SUFFICES Goal
    OBVIOUS
  <1> USE DEF TypeOK, State, IsAt, Goes, Returns, Throws, Done, Begins, Idle,
          groupVars, dataVars, traceVars, Announces, Pending, Commits, Starts,
          FlagIsOwed, RoomIsOwed
  <1>1. ASSUME NEW h \in Handlers, NEW stop \in Starts, NEW p \in People,
               NEW who \in SUBSET People, Begins(h, stop, p, who), Fits(stop, p, who)
        PROVE  Goal
    BY <1>1 DEF Begins
  <1>2. ASSUME NEW h \in Handlers, CommitAdd(h)
        PROVE  Goal
    BY <1>2 DEF CommitAdd
  <1>3. ASSUME NEW h \in Handlers, CommitRemove(h)
        PROVE  Goal
    BY <1>3 DEF CommitRemove
  <1>4. ASSUME NEW h \in Handlers, Unflag(h)
        PROVE  Goal
    BY <1>4 DEF Unflag
  <1>5. ASSUME NEW h \in Handlers, Leave(h)
        PROVE  Goal
    BY <1>5 DEF Leave
  <1>6. ASSUME NEW h \in Handlers, CommitAdmin(h)
        PROVE  Goal
    BY <1>6, SMTT(30) DEF CommitAdmin
  <1>7. ASSUME NEW h \in Handlers, CommitDisband(h)
        PROVE  Goal
    BY <1>7 DEF CommitDisband
  <1>8. ASSUME NEW h \in Handlers, UnflagAll(h)
        PROVE  Goal
    BY <1>8 DEF UnflagAll
  <1>9. ASSUME NEW h \in Handlers, DeleteFiles(h)
        PROVE  Goal
    BY <1>9 DEF DeleteFiles
  <1>10. ASSUME NEW h \in Handlers, Upload(h)
        PROVE  Goal
    BY <1>10, SMTT(30) DEF Upload
  <1>11. ASSUME NEW h \in Handlers, CommitMessage(h)
        PROVE  Goal
    BY <1>11 DEF CommitMessage
  <1>12. ASSUME NEW h \in Handlers, Notify(h)
        PROVE  Goal
    BY <1>12 DEF Notify
  <1>13. ASSUME NEW h \in Handlers, CommitRead(h)
        PROVE  Goal
    BY <1>13 DEF CommitRead
  <1>14. ASSUME NEW h \in Handlers, Join(h)
        PROVE  Goal
    BY <1>14 DEF Join
  <1>15. ASSUME NEW h \in Handlers, Fails(h)
        PROVE  Goal
    BY <1>15 DEF Fails
  <1>16. ASSUME NEW p \in People, NEW members \in SUBSET People, CreateGroup(p, members)
        PROVE  Goal
    BY <1>16 DEF CreateGroup
  <1>17. ASSUME RunCleanupJob
        PROVE  Goal
    BY <1>17 DEF RunCleanupJob
  <1>18. ASSUME SeeMessages
        PROVE  Goal
    BY <1>18 DEF SeeMessages
  <1>19. ASSUME Disconnect
        PROVE  Goal
    BY <1>19 DEF Disconnect
  <1> HIDE DEF Goal, TypeOK, State, IsAt, Goes, Returns, Throws, Done, Begins, Idle,
          groupVars, dataVars, traceVars, Announces, Pending, Commits, Starts,
          FlagIsOwed, RoomIsOwed
  <1> QED
    BY Requested, <1>1, <1>2, <1>3, <1>4, <1>5, <1>6, <1>7, <1>8, <1>9,
       <1>10, <1>11, <1>12, <1>13, <1>14, <1>15, <1>16, <1>17, <1>18,
       <1>19
       DEF Act, Progress, Begun

(***************************************************************************)
(* The same for the file that a request holds.                             *)
(***************************************************************************)
LEMMA FilesStayHeld ==
  ASSUME TypeOK, Act
  PROVE  (file' = "stored" /\ file = "stored" /\ FileIsOwed => FileIsOwed')
         /\ (UploadIsHeld => UploadIsHeld')
  <1> DEFINE Goal == (file' = "stored" /\ file = "stored" /\ FileIsOwed => FileIsOwed')
         /\ (UploadIsHeld => UploadIsHeld')
  <1> SUFFICES Goal
    OBVIOUS
  <1> USE DEF TypeOK, State, IsAt, Goes, Returns, Throws, Done, Begins, Idle,
          groupVars, dataVars, traceVars, Announces, Commits, Starts,
          FileIsOwed, UploadIsHeld
  <1>1. ASSUME NEW h \in Handlers, NEW stop \in Starts, NEW p \in People,
               NEW who \in SUBSET People, Begins(h, stop, p, who), Fits(stop, p, who)
        PROVE  Goal
    BY <1>1 DEF Begins
  <1>2. ASSUME NEW h \in Handlers, CommitAdd(h)
        PROVE  Goal
    BY <1>2 DEF CommitAdd
  <1>3. ASSUME NEW h \in Handlers, CommitRemove(h)
        PROVE  Goal
    BY <1>3 DEF CommitRemove
  <1>4. ASSUME NEW h \in Handlers, Unflag(h)
        PROVE  Goal
    BY <1>4 DEF Unflag
  <1>5. ASSUME NEW h \in Handlers, Leave(h)
        PROVE  Goal
    BY <1>5 DEF Leave
  <1>6. ASSUME NEW h \in Handlers, CommitAdmin(h)
        PROVE  Goal
    BY <1>6, SMTT(30) DEF CommitAdmin
  <1>7. ASSUME NEW h \in Handlers, CommitDisband(h)
        PROVE  Goal
    BY <1>7 DEF CommitDisband
  <1>8. ASSUME NEW h \in Handlers, UnflagAll(h)
        PROVE  Goal
    BY <1>8 DEF UnflagAll
  <1>9. ASSUME NEW h \in Handlers, DeleteFiles(h)
        PROVE  Goal
    BY <1>9 DEF DeleteFiles
  <1>10. ASSUME NEW h \in Handlers, Upload(h)
        PROVE  Goal
    BY <1>10, SMTT(30) DEF Upload
  <1>11. ASSUME NEW h \in Handlers, CommitMessage(h)
        PROVE  Goal
    BY <1>11 DEF CommitMessage
  <1>12. ASSUME NEW h \in Handlers, Notify(h)
        PROVE  Goal
    BY <1>12 DEF Notify
  <1>13. ASSUME NEW h \in Handlers, CommitRead(h)
        PROVE  Goal
    BY <1>13 DEF CommitRead
  <1>14. ASSUME NEW h \in Handlers, Join(h)
        PROVE  Goal
    BY <1>14 DEF Join
  <1>15. ASSUME NEW h \in Handlers, Fails(h)
        PROVE  Goal
    BY <1>15 DEF Fails
  <1>16. ASSUME NEW p \in People, NEW members \in SUBSET People, CreateGroup(p, members)
        PROVE  Goal
    BY <1>16 DEF CreateGroup
  <1>17. ASSUME RunCleanupJob
        PROVE  Goal
    BY <1>17 DEF RunCleanupJob
  <1>18. ASSUME SeeMessages
        PROVE  Goal
    BY <1>18 DEF SeeMessages
  <1>19. ASSUME Disconnect
        PROVE  Goal
    BY <1>19 DEF Disconnect
  <1> HIDE DEF Goal, TypeOK, State, IsAt, Goes, Returns, Throws, Done, Begins, Idle,
          groupVars, dataVars, traceVars, Announces, Commits, Starts,
          FileIsOwed, UploadIsHeld
  <1> QED
    BY Requested, <1>1, <1>2, <1>3, <1>4, <1>5, <1>6, <1>7, <1>8, <1>9,
       <1>10, <1>11, <1>12, <1>13, <1>14, <1>15, <1>16, <1>17, <1>18,
       <1>19
       DEF Act, Progress, Begun

(***************************************************************************)
(* A group is made once and disbanded for good.  Who disbands it takes the *)
(* messages away and holds the stored file.                                *)
(***************************************************************************)
LEMMA GroupGoesOn ==
  ASSUME TypeOK, GroupIsFirst, Act
  PROVE  (group = "none" => group' # "gone")
         /\ (group = "gone" => group' = "gone") /\ (group' = "none" => group = "none")
         /\ (group # "gone" /\ group' = "gone" =>
                admin' = Nobody /\ ~message' /\ (file' = "stored" => FileIsOwed'))
         /\ (group = "none" => ~receipt' /\ ~flagged' /\ ~inRoom')
  <1> DEFINE Goal == (group = "none" => group' # "gone")
         /\ (group = "gone" => group' = "gone") /\ (group' = "none" => group = "none")
         /\ (group # "gone" /\ group' = "gone" =>
                admin' = Nobody /\ ~message' /\ (file' = "stored" => FileIsOwed'))
         /\ (group = "none" => ~receipt' /\ ~flagged' /\ ~inRoom')
  <1> SUFFICES Goal
    OBVIOUS
  <1> USE DEF TypeOK, State, IsAt, Goes, Returns, Throws, Done, Begins, Idle,
          groupVars, dataVars, traceVars, Announces, Commits, Starts, GroupIsFirst, FileIsOwed, Fits
  <1>1. ASSUME NEW h \in Handlers, NEW stop \in Starts, NEW p \in People,
               NEW who \in SUBSET People, Begins(h, stop, p, who), Fits(stop, p, who)
        PROVE  Goal
    BY <1>1 DEF Begins
  <1>2. ASSUME NEW h \in Handlers, CommitAdd(h)
        PROVE  Goal
    BY <1>2 DEF CommitAdd
  <1>3. ASSUME NEW h \in Handlers, CommitRemove(h)
        PROVE  Goal
    BY <1>3 DEF CommitRemove
  <1>4. ASSUME NEW h \in Handlers, Unflag(h)
        PROVE  Goal
    BY <1>4 DEF Unflag
  <1>5. ASSUME NEW h \in Handlers, Leave(h)
        PROVE  Goal
    BY <1>5 DEF Leave
  <1>6. ASSUME NEW h \in Handlers, CommitAdmin(h)
        PROVE  Goal
    BY <1>6, SMTT(30) DEF CommitAdmin
  <1>7. ASSUME NEW h \in Handlers, CommitDisband(h)
        PROVE  Goal
    BY <1>7 DEF CommitDisband
  <1>8. ASSUME NEW h \in Handlers, UnflagAll(h)
        PROVE  Goal
    BY <1>8 DEF UnflagAll
  <1>9. ASSUME NEW h \in Handlers, DeleteFiles(h)
        PROVE  Goal
    BY <1>9 DEF DeleteFiles
  <1>10. ASSUME NEW h \in Handlers, Upload(h)
        PROVE  Goal
    BY <1>10, SMTT(30) DEF Upload
  <1>11. ASSUME NEW h \in Handlers, CommitMessage(h)
        PROVE  Goal
    BY <1>11 DEF CommitMessage
  <1>12. ASSUME NEW h \in Handlers, Notify(h)
        PROVE  Goal
    BY <1>12 DEF Notify
  <1>13. ASSUME NEW h \in Handlers, CommitRead(h)
        PROVE  Goal
    BY <1>13 DEF CommitRead
  <1>14. ASSUME NEW h \in Handlers, Join(h)
        PROVE  Goal
    BY <1>14 DEF Join
  <1>15. ASSUME NEW h \in Handlers, Fails(h)
        PROVE  Goal
    BY <1>15 DEF Fails
  <1>16. ASSUME NEW p \in People, NEW members \in SUBSET People, CreateGroup(p, members)
        PROVE  Goal
    BY <1>16 DEF CreateGroup
  <1>17. ASSUME RunCleanupJob
        PROVE  Goal
    BY <1>17 DEF RunCleanupJob
  <1>18. ASSUME SeeMessages
        PROVE  Goal
    BY <1>18 DEF SeeMessages
  <1>19. ASSUME Disconnect
        PROVE  Goal
    BY <1>19 DEF Disconnect
  <1> HIDE DEF Goal, TypeOK, State, IsAt, Goes, Returns, Throws, Done, Begins, Idle,
          groupVars, dataVars, traceVars, Announces, Commits, Starts, GroupIsFirst, FileIsOwed, Fits
  <1> QED
    BY Requested, <1>1, <1>2, <1>3, <1>4, <1>5, <1>6, <1>7, <1>8, <1>9,
       <1>10, <1>11, <1>12, <1>13, <1>14, <1>15, <1>16, <1>17, <1>18,
       <1>19
       DEF Act, Progress, Begun

(***************************************************************************)
(* Nothing is there before the group, and one person is removed at a time. *)
(***************************************************************************)
LEMMA FirstStays ==
  ASSUME TypeOK, TypeOK', GroupIsFirst, Act
  PROVE  GroupIsFirst'
  <1> DEFINE Goal == GroupIsFirst'
  <1> SUFFICES Goal
    OBVIOUS
  <1> USE DEF TypeOK, State, IsAt, Goes, Returns, Throws, Done, Begins, Idle,
          groupVars, dataVars, traceVars, Announces, Commits, Starts, GroupIsFirst, Fits
  <1>1. ASSUME NEW h \in Handlers, NEW stop \in Starts, NEW p \in People,
               NEW who \in SUBSET People, Begins(h, stop, p, who), Fits(stop, p, who)
        PROVE  Goal
    BY <1>1 DEF Begins
  <1>2. ASSUME NEW h \in Handlers, CommitAdd(h)
        PROVE  Goal
    BY <1>2 DEF CommitAdd
  <1>3. ASSUME NEW h \in Handlers, CommitRemove(h)
        PROVE  Goal
    <2>1. CASE group = "live"
      <3>1. /\ group' = group /\ admin' = admin
            /\ \A g \in Handlers: IsAt(g, "remove")' => run'[g] = run[g]
        BY <1>3, <2>1 DEF CommitRemove
      <3> QED
        BY <2>1, <3>1
    <2>2. CASE group # "live"
      BY <1>3, <2>2, SMTT(30) DEF CommitRemove
    <2> QED
      BY <2>1, <2>2
  <1>4. ASSUME NEW h \in Handlers, Unflag(h)
        PROVE  Goal
    BY <1>4 DEF Unflag
  <1>5. ASSUME NEW h \in Handlers, Leave(h)
        PROVE  Goal
    BY <1>5 DEF Leave
  <1>6. ASSUME NEW h \in Handlers, CommitAdmin(h)
        PROVE  Goal
    BY <1>6, SMTT(30) DEF CommitAdmin
  <1>7. ASSUME NEW h \in Handlers, CommitDisband(h)
        PROVE  Goal
    BY <1>7 DEF CommitDisband
  <1>8. ASSUME NEW h \in Handlers, UnflagAll(h)
        PROVE  Goal
    BY <1>8 DEF UnflagAll
  <1>9. ASSUME NEW h \in Handlers, DeleteFiles(h)
        PROVE  Goal
    BY <1>9 DEF DeleteFiles
  <1>10. ASSUME NEW h \in Handlers, Upload(h)
        PROVE  Goal
    BY <1>10, SMTT(30) DEF Upload
  <1>11. ASSUME NEW h \in Handlers, CommitMessage(h)
        PROVE  Goal
    BY <1>11 DEF CommitMessage
  <1>12. ASSUME NEW h \in Handlers, Notify(h)
        PROVE  Goal
    BY <1>12 DEF Notify
  <1>13. ASSUME NEW h \in Handlers, CommitRead(h)
        PROVE  Goal
    BY <1>13 DEF CommitRead
  <1>14. ASSUME NEW h \in Handlers, Join(h)
        PROVE  Goal
    BY <1>14 DEF Join
  <1>15. ASSUME NEW h \in Handlers, Fails(h)
        PROVE  Goal
    BY <1>15 DEF Fails
  <1>16. ASSUME NEW p \in People, NEW members \in SUBSET People, CreateGroup(p, members)
        PROVE  Goal
    BY <1>16 DEF CreateGroup
  <1>17. ASSUME RunCleanupJob
        PROVE  Goal
    BY <1>17 DEF RunCleanupJob
  <1>18. ASSUME SeeMessages
        PROVE  Goal
    BY <1>18 DEF SeeMessages
  <1>19. ASSUME Disconnect
        PROVE  Goal
    BY <1>19 DEF Disconnect
  <1> HIDE DEF Goal, TypeOK, State, IsAt, Goes, Returns, Throws, Done, Begins, Idle,
          groupVars, dataVars, traceVars, Announces, Commits, Starts, GroupIsFirst, Fits
  <1> QED
    BY Requested, <1>1, <1>2, <1>3, <1>4, <1>5, <1>6, <1>7, <1>8, <1>9,
       <1>10, <1>11, <1>12, <1>13, <1>14, <1>15, <1>16, <1>17, <1>18,
       <1>19
       DEF Act, Progress, Begun

(***************************************************************************)
(* Only a removal takes Watched from the group: it is about to remove the  *)
(* flag and the socket, and has removed the receipt or written it again.   *)
(***************************************************************************)
LEMMA RemovalIsOwed ==
  ASSUME TypeOK, GroupIsFirst, Act
  PROVE  (IsMember(Watched) /\ group' = "live" /\ Watched \notin users' =>
            FlagIsOwed' /\ RoomIsOwed' /\ (receipt' => Leaving))
  <1> DEFINE Goal == (IsMember(Watched) /\ group' = "live" /\ Watched \notin users' =>
            FlagIsOwed' /\ RoomIsOwed' /\ (receipt' => Leaving))
  <1> SUFFICES Goal
    OBVIOUS
  <1> USE DEF TypeOK, State, IsAt, Goes, Returns, Throws, Done, Begins, Idle,
          groupVars, dataVars, traceVars, Announces, Commits, Starts, GroupIsFirst,
          IsMember, FlagIsOwed, RoomIsOwed, Pending, Leaving
  <1>1. ASSUME NEW h \in Handlers, NEW stop \in Starts, NEW p \in People,
               NEW who \in SUBSET People, Begins(h, stop, p, who), Fits(stop, p, who)
        PROVE  Goal
    BY <1>1 DEF Begins
  <1>2. ASSUME NEW h \in Handlers, CommitAdd(h)
        PROVE  Goal
    BY <1>2 DEF CommitAdd
  <1>3. ASSUME NEW h \in Handlers, CommitRemove(h)
        PROVE  Goal
    BY <1>3 DEF CommitRemove
  <1>4. ASSUME NEW h \in Handlers, Unflag(h)
        PROVE  Goal
    BY <1>4 DEF Unflag
  <1>5. ASSUME NEW h \in Handlers, Leave(h)
        PROVE  Goal
    BY <1>5 DEF Leave
  <1>6. ASSUME NEW h \in Handlers, CommitAdmin(h)
        PROVE  Goal
    BY <1>6, SMTT(30) DEF CommitAdmin
  <1>7. ASSUME NEW h \in Handlers, CommitDisband(h)
        PROVE  Goal
    BY <1>7 DEF CommitDisband
  <1>8. ASSUME NEW h \in Handlers, UnflagAll(h)
        PROVE  Goal
    BY <1>8 DEF UnflagAll
  <1>9. ASSUME NEW h \in Handlers, DeleteFiles(h)
        PROVE  Goal
    BY <1>9 DEF DeleteFiles
  <1>10. ASSUME NEW h \in Handlers, Upload(h)
        PROVE  Goal
    BY <1>10, SMTT(30) DEF Upload
  <1>11. ASSUME NEW h \in Handlers, CommitMessage(h)
        PROVE  Goal
    BY <1>11 DEF CommitMessage
  <1>12. ASSUME NEW h \in Handlers, Notify(h)
        PROVE  Goal
    BY <1>12 DEF Notify
  <1>13. ASSUME NEW h \in Handlers, CommitRead(h)
        PROVE  Goal
    BY <1>13 DEF CommitRead
  <1>14. ASSUME NEW h \in Handlers, Join(h)
        PROVE  Goal
    BY <1>14 DEF Join
  <1>15. ASSUME NEW h \in Handlers, Fails(h)
        PROVE  Goal
    BY <1>15 DEF Fails
  <1>16. ASSUME NEW p \in People, NEW members \in SUBSET People, CreateGroup(p, members)
        PROVE  Goal
    BY <1>16 DEF CreateGroup
  <1>17. ASSUME RunCleanupJob
        PROVE  Goal
    BY <1>17 DEF RunCleanupJob
  <1>18. ASSUME SeeMessages
        PROVE  Goal
    BY <1>18 DEF SeeMessages
  <1>19. ASSUME Disconnect
        PROVE  Goal
    BY <1>19 DEF Disconnect
  <1> HIDE DEF Goal, TypeOK, State, IsAt, Goes, Returns, Throws, Done, Begins, Idle,
          groupVars, dataVars, traceVars, Announces, Commits, Starts, GroupIsFirst,
          IsMember, FlagIsOwed, RoomIsOwed, Pending, Leaving
  <1> QED
    BY Requested, <1>1, <1>2, <1>3, <1>4, <1>5, <1>6, <1>7, <1>8, <1>9,
       <1>10, <1>11, <1>12, <1>13, <1>14, <1>15, <1>16, <1>17, <1>18,
       <1>19
       DEF Act, Progress, Begun

\* What is left of who is no member came late, or somebody is to remove it.
LEMMA TracesStayCovered ==
  ASSUME TypeOK, TypeOK', TracesGoWithTheMember, GroupIsFirst, Act, Remembers
  PROVE  TracesGoWithTheMember'
  <1> DEFINE Covered == /\ receipt' => "receipt" \in late'
                        /\ flagged' => "flag" \in late' \/ FlagIsOwed'
                        /\ inRoom' => "room" \in late' \/ RoomIsOwed'
  <1> SUFFICES ASSUME group' = "live", Watched \notin users'
               PROVE  Covered
    BY DEF TracesGoWithTheMember, FlagIsOwed, RoomIsOwed
  <1>1. ~IsMember(Watched)'
    BY DEF IsMember
  <1>2. CASE group = "none"
    BY <1>2, GroupGoesOn
  <1>3. CASE IsMember(Watched)
    BY <1>1, <1>3, RemovalIsOwed, LateIsRemembered
  <1>4. CASE group = "live" /\ Watched \notin users
    <2>1. ~IsMember(Watched)
      BY <1>4 DEF IsMember
    <2>2. /\ receipt => "receipt" \in late
          /\ flagged => "flag" \in late \/ FlagIsOwed
          /\ inRoom => "room" \in late \/ RoomIsOwed
      BY <1>4 DEF TracesGoWithTheMember, FlagIsOwed, RoomIsOwed
    <2>3. receipt' => "receipt" \in late'
      BY <1>1, <2>1, <2>2, LateIsRemembered
    <2>4. flagged' => "flag" \in late' \/ FlagIsOwed'
      BY <1>1, <2>1, <2>2, LateIsRemembered, TracesStayOwed
    <2>5. inRoom' => "room" \in late' \/ RoomIsOwed'
      BY <1>1, <2>1, <2>2, LateIsRemembered, TracesStayOwed
    <2> QED
      BY <2>3, <2>4, <2>5
  <1>5. group \in {"none", "live", "gone"} /\ group # "gone"
    BY GroupGoesOn DEF TypeOK
  <1> QED
    BY <1>2, <1>3, <1>4, <1>5 DEF IsMember

(***************************************************************************)
(* Of a group that is gone the messages and the file went with it, or came *)
(* late, or the file is held.                                              *)
(***************************************************************************)
LEMMA LeftoversStayCovered ==
  ASSUME TypeOK, NothingIsLeftOfTheGroup, GroupIsFirst, Act, Remembers
  PROVE  NothingIsLeftOfTheGroup'
  <1>1. UploadIsHeld'
    BY FilesStayHeld DEF NothingIsLeftOfTheGroup, UploadIsHeld
  <1>2. ASSUME group' = "gone"
        PROVE  /\ message' => "message" \in late'
               /\ file' = "stored" => "file" \in late' \/ FileIsOwed'
    <2>1. CASE group # "gone"
      BY <1>2, <2>1, GroupGoesOn
    <2>2. CASE group = "gone"
      <3>1. /\ message => "message" \in late
            /\ file = "stored" => "file" \in late \/ FileIsOwed
        BY <2>2 DEF NothingIsLeftOfTheGroup, FileIsOwed
      <3>2. message' => "message" \in late'
        BY <1>2, <2>2, <3>1, LateIsRemembered
      <3>3. file' = "stored" => "file" \in late' \/ FileIsOwed'
        BY <1>2, <2>2, <3>1, LateIsRemembered, FilesStayHeld
      <3> QED
        BY <3>2, <3>3
    <2> QED
      BY <2>1, <2>2
  <1> QED
    BY <1>1, <1>2 DEF NothingIsLeftOfTheGroup, UploadIsHeld, FileIsOwed

(***************************************************************************)
(* A request that goes on to write has just begun, or goes on from the     *)
(* upload to the message, or from there to the notification.               *)
(***************************************************************************)
Writes == Commits \union {"upload", "notify"}

GoesOn(h) ==
    /\ run[h].at \in {"upload", "create"} /\ run'[h].at \in {"create", "notify"}
    /\ run'[h].own = run[h].own /\ run'[h].saw = run[h].saw

\* Every other step leaves a request as it is, or with nothing left to write.
LEMMA RunsGoOn ==
  ASSUME TypeOK, Act
  PROVE  \A g \in Handlers:
            run'[g] = run[g] \/ run'[g].at \notin Writes \/ Begun(g) \/ GoesOn(g)
  <1> DEFINE Goal == \A g \in Handlers:
            run'[g] = run[g] \/ run'[g].at \notin Writes \/ Begun(g) \/ GoesOn(g)
  <1> SUFFICES Goal
    OBVIOUS
  <1> USE DEF TypeOK, State, IsAt, Goes, Returns, Throws, Done, Idle, Commits, Writes, GoesOn
  <1>1. ASSUME NEW h \in Handlers, NEW stop \in Starts, NEW p \in People,
               NEW who \in SUBSET People, Begins(h, stop, p, who), Fits(stop, p, who)
        PROVE  Goal
    <2>1. Begun(h)
      BY <1>1 DEF Begun
    <2> QED
      BY <1>1, <2>1 DEF Begins
  <1>2. ASSUME NEW h \in Handlers, CommitAdd(h)
        PROVE  Goal
    BY <1>2 DEF CommitAdd
  <1>3. ASSUME NEW h \in Handlers, CommitRemove(h)
        PROVE  Goal
    BY <1>3 DEF CommitRemove
  <1>4. ASSUME NEW h \in Handlers, Unflag(h)
        PROVE  Goal
    BY <1>4 DEF Unflag
  <1>5. ASSUME NEW h \in Handlers, Leave(h)
        PROVE  Goal
    BY <1>5 DEF Leave
  <1>6. ASSUME NEW h \in Handlers, CommitAdmin(h)
        PROVE  Goal
    BY <1>6, SMTT(30) DEF CommitAdmin
  <1>7. ASSUME NEW h \in Handlers, CommitDisband(h)
        PROVE  Goal
    BY <1>7 DEF CommitDisband
  <1>8. ASSUME NEW h \in Handlers, UnflagAll(h)
        PROVE  Goal
    BY <1>8 DEF UnflagAll
  <1>9. ASSUME NEW h \in Handlers, DeleteFiles(h)
        PROVE  Goal
    BY <1>9 DEF DeleteFiles
  <1>10. ASSUME NEW h \in Handlers, Upload(h)
        PROVE  Goal
    BY <1>10, SMTT(30) DEF Upload
  <1>11. ASSUME NEW h \in Handlers, CommitMessage(h)
        PROVE  Goal
    BY <1>11 DEF CommitMessage
  <1>12. ASSUME NEW h \in Handlers, Notify(h)
        PROVE  Goal
    BY <1>12 DEF Notify
  <1>13. ASSUME NEW h \in Handlers, CommitRead(h)
        PROVE  Goal
    BY <1>13 DEF CommitRead
  <1>14. ASSUME NEW h \in Handlers, Join(h)
        PROVE  Goal
    BY <1>14 DEF Join
  <1>15. ASSUME NEW h \in Handlers, Fails(h)
        PROVE  Goal
    BY <1>15 DEF Fails
  <1>16. ASSUME NEW p \in People, NEW members \in SUBSET People, CreateGroup(p, members)
        PROVE  Goal
    BY <1>16 DEF CreateGroup
  <1>17. ASSUME RunCleanupJob
        PROVE  Goal
    BY <1>17 DEF RunCleanupJob
  <1>18. ASSUME SeeMessages
        PROVE  Goal
    BY <1>18 DEF SeeMessages
  <1>19. ASSUME Disconnect
        PROVE  Goal
    BY <1>19 DEF Disconnect
  <1> HIDE DEF Goal, TypeOK, State, IsAt, Goes, Returns, Throws, Done, Idle, Commits, Writes, GoesOn
  <1> QED
    BY Requested, <1>1, <1>2, <1>3, <1>4, <1>5, <1>6, <1>7, <1>8, <1>9,
       <1>10, <1>11, <1>12, <1>13, <1>14, <1>15, <1>16, <1>17, <1>18,
       <1>19
       DEF Act, Progress, Begun

(***************************************************************************)
(* What was checked holds, as nothing that was checked is another by now.  *)
(***************************************************************************)
LEMMA ReadsStay ==
  ASSUME TypeOK, TypeOK', GroupIsFirst, FreshReadsHold, Act, Remembers
  PROVE  FreshReadsHold'
  <1> SUFFICES ASSUME NEW g \in Handlers, fresh'[g], run'[g].at \in Writes
               PROVE  ReadsHold(g)'
    BY DEF FreshReadsHold, Writes
  <1>1. fresh[g] /\ users' = users /\ admin' = admin
    BY DEF Remembers, Writes
  <1>2. CASE Begun(g)
    <2>1. PICK stop \in Starts, p \in People, who \in SUBSET People:
            Begins(g, stop, p, who) /\ Fits(stop, p, who)
      BY <1>2 DEF Begun
    <2>2. /\ run'[g].at = stop /\ run'[g].who = who /\ run'[g].own = (p = Watched)
          /\ run'[g].saw => Watched \in users
      BY <2>1 DEF Begins, TypeOK
    <2>3. group' = "live"
      BY <2>1 DEF Begins, Fits, groupVars
    <2> QED
      BY <1>1, <2>1, <2>2, <2>3 DEF Fits, ReadsHold, IsAt
  <1>3. ASSUME ReadsHold(g)
        PROVE  group' = "live"
    <2>1. group = "live" /\ admin \in People
      BY <1>3 DEF ReadsHold, GroupIsFirst
    <2>2. admin' # Nobody
      BY <1>1, <2>1, WatchedAssumption
    <2>3. group' \in {"none", "live", "gone"}
      BY DEF TypeOK
    <2> QED
      BY <2>1, <2>2, <2>3, GroupGoesOn
  <1>4. CASE run'[g] = run[g]
    <2>1. ReadsHold(g)
      BY <1>1, <1>4 DEF FreshReadsHold, Writes
    <2> QED
      BY <1>1, <1>3, <1>4, <2>1 DEF ReadsHold, IsAt
  <1>5. CASE GoesOn(g)
    <2>1. ReadsHold(g)
      BY <1>1, <1>5 DEF FreshReadsHold, GoesOn, Commits
    <2> QED
      BY <1>1, <1>3, <1>5, <2>1 DEF ReadsHold, IsAt, GoesOn
  <1> QED
    BY <1>2, <1>4, <1>5, RunsGoOn

(***************************************************************************)
(* A step of a request that found the group as it is does not break it: the*)
(* limit, the administrator and the home of every trace are as it checked. *)
(***************************************************************************)
NoneAppears ==
    /\ ~IsMember(Watched) /\ ~IsMember(Watched)' =>
        (receipt' => receipt) /\ (flagged' => flagged) /\ (inRoom' => inRoom)
    /\ group = "gone" /\ group' = "gone" =>
        (message' => message) /\ (file' = "stored" => file = "stored")

\* How adding and removing members changes their number.
LEMMA SizesAreFinite ==
  ASSUME NEW S \in SUBSET People, NEW T \in SUBSET People
  PROVE  /\ Cardinality(S) \in Nat /\ Cardinality(T) \in Nat
         /\ Cardinality(S \union T) <= Cardinality(S) + Cardinality(T)
         /\ Cardinality(S \union T) \in Nat
         /\ Cardinality(S \ T) <= Cardinality(S) /\ Cardinality(S \ T) \in Nat
  <1>1. IsFiniteSet(S) /\ IsFiniteSet(T) /\ IsFiniteSet(S \ T) /\ IsFiniteSet(S \intersect T)
    BY PeopleAssumption, FS_Subset
  <1>2. /\ Cardinality(S) \in Nat /\ Cardinality(T) \in Nat
        /\ Cardinality(S \intersect T) \in Nat /\ Cardinality(S \ T) \in Nat
    BY <1>1, FS_CardinalityType
  <1>3. /\ IsFiniteSet(S \union T)
        /\ Cardinality(S \union T)
             = Cardinality(S) + Cardinality(T) - Cardinality(S \intersect T)
    BY <1>1, FS_Union
  <1>4. Cardinality(S \union T) \in Nat
    BY <1>3, FS_CardinalityType
  <1>5. Cardinality(S \ T) <= Cardinality(S)
    BY <1>1, FS_Subset
  <1> QED
    BY <1>2, <1>3, <1>4, <1>5

\* By a step in a sound group, of a request whose reads are fresh.
LEMMA FreshStepsKeep ==
  ASSUME TypeOK, FreshReadsHold, Sound, Act,
         \A h \in Handlers: run'[h] # run[h] => fresh[h]
  PROVE  Sound' /\ NoneAppears
  <1> DEFINE Goal == Sound' /\ NoneAppears
  <1> SUFFICES Goal
    OBVIOUS
  <1> USE DEF TypeOK, State, IsAt, Goes, Returns, Throws, Done, Begins, Idle,
          groupVars, dataVars, traceVars, Announces, Commits, Starts,
          Writes, Sound, NoneAppears, IsMember
  <1>1. ASSUME NEW h \in Handlers, NEW stop \in Starts, NEW p \in People,
               NEW who \in SUBSET People, Begins(h, stop, p, who), Fits(stop, p, who)
        PROVE  Goal
    BY <1>1 DEF Begins
  <1>2. ASSUME NEW h \in Handlers, CommitAdd(h)
        PROVE  Goal
    <2>1. fresh[h] /\ ReadsHold(h)
      <3>1. run'[h] # run[h] /\ run[h].at \in Writes
        BY <1>2 DEF CommitAdd
      <3>2. fresh[h]
        BY <3>1
      <3> QED
        BY <3>1, <3>2 DEF FreshReadsHold
    <2>2. CASE group = "live"
      <3>1. Cardinality(users \union run[h].who) <= MaxMembers
        <4>1. users \in SUBSET People /\ run[h].who \in SUBSET People
          OBVIOUS
        <4>2. Cardinality(users) + Cardinality(run[h].who) <= MaxMembers
          BY <1>2, <2>1 DEF CommitAdd, ReadsHold
        <4>3. /\ Cardinality(users) \in Nat /\ Cardinality(run[h].who) \in Nat
              /\ Cardinality(users \union run[h].who) \in Nat
              /\ Cardinality(users \union run[h].who)
                   <= Cardinality(users) + Cardinality(run[h].who)
          BY <4>1, SizesAreFinite, Zenon
        <4> HIDE DEF TypeOK, Sound
        <4> QED
          BY <4>2, <4>3, MaxAssumption
      <3>2. run[h].own => Watched \in users
        BY <2>1, <2>2 DEF ReadsHold
      <3> QED
        BY <1>2, <2>2, <3>1, <3>2 DEF CommitAdd, Flags
    <2>3. CASE group # "live"
      BY <1>2, <2>3 DEF CommitAdd
    <2> QED
      BY <2>2, <2>3
  <1>3. ASSUME NEW h \in Handlers, CommitRemove(h)
        PROVE  Goal
    <2>1. fresh[h] /\ ReadsHold(h)
      <3>1. run'[h] # run[h] /\ run[h].at \in Writes
        BY <1>3 DEF CommitRemove
      <3>2. fresh[h]
        BY <3>1
      <3> QED
        BY <3>1, <3>2 DEF FreshReadsHold
    <2>2. CASE group = "live"
      <3>1. /\ admin \notin run[h].who
            /\ run[h].own => Watched \in users
        BY <1>3, <2>1, <2>2 DEF CommitRemove, ReadsHold
      <3>2. Cardinality(users \ run[h].who) <= MaxMembers
        <4>1. users \in SUBSET People /\ run[h].who \in SUBSET People
          OBVIOUS
        <4>2. Cardinality(users) <= MaxMembers
          BY <2>2
        <4>3. /\ Cardinality(users) \in Nat /\ Cardinality(users \ run[h].who) \in Nat
              /\ Cardinality(users \ run[h].who) <= Cardinality(users)
          BY <4>1, SizesAreFinite, Zenon
        <4> HIDE DEF TypeOK, Sound
        <4> QED
          BY <4>2, <4>3, MaxAssumption
      <3>3. /\ group' = group /\ admin' = admin /\ users' = users \ run[h].who
            /\ receipt' => run[h].own \/ receipt
            /\ flagged' => Watched \in users \/ flagged
            /\ inRoom' = inRoom
        BY <1>3, <2>2 DEF CommitRemove, Flags
      <3> QED
        BY <2>2, <3>1, <3>2, <3>3
    <2>3. CASE group # "live"
      BY <1>3, <2>3 DEF CommitRemove
    <2> QED
      BY <2>2, <2>3
  <1>4. ASSUME NEW h \in Handlers, Unflag(h)
        PROVE  Goal
    BY <1>4 DEF Unflag
  <1>5. ASSUME NEW h \in Handlers, Leave(h)
        PROVE  Goal
    BY <1>5 DEF Leave
  <1>6. ASSUME NEW h \in Handlers, CommitAdmin(h)
        PROVE  Goal
    <2>1. fresh[h] /\ ReadsHold(h)
      <3>1. run'[h] # run[h] /\ run[h].at \in Writes
        BY <1>6, SMTT(30) DEF CommitAdmin
      <3>2. fresh[h]
        BY <3>1
      <3> QED
        BY <3>1, <3>2 DEF FreshReadsHold
    <2>2. CASE group = "live"
      <3>1. /\ run[h].who \subseteq users
            /\ run[h].own => Watched \in users
        BY <1>6, <2>1, <2>2 DEF CommitAdmin, ReadsHold
      <3> QED
        BY <1>6, <2>2, <3>1 DEF CommitAdmin, Flags
    <2>3. CASE group # "live"
      BY <1>6, <2>3 DEF CommitAdmin
    <2> QED
      BY <2>2, <2>3
  <1>7. ASSUME NEW h \in Handlers, CommitDisband(h)
        PROVE  Goal
    <2>1. /\ group' = "gone" /\ ~message' /\ file' = file
          /\ ~receipt' /\ flagged' = flagged /\ inRoom' = inRoom
      BY <1>7 DEF CommitDisband
    <2> QED
      BY <2>1
  <1>8. ASSUME NEW h \in Handlers, UnflagAll(h)
        PROVE  Goal
    BY <1>8 DEF UnflagAll
  <1>9. ASSUME NEW h \in Handlers, DeleteFiles(h)
        PROVE  Goal
    BY <1>9 DEF DeleteFiles
  <1>10. ASSUME NEW h \in Handlers, Upload(h)
        PROVE  Goal
    <2>1. fresh[h] /\ ReadsHold(h)
      <3>1. run'[h] # run[h] /\ run[h].at \in Writes
        BY <1>10, SMTT(30) DEF Upload
      <3>2. fresh[h]
        BY <3>1
      <3> QED
        BY <3>1, <3>2 DEF FreshReadsHold
    <2> QED
      BY <1>10, <2>1 DEF Upload, ReadsHold
  <1>11. ASSUME NEW h \in Handlers, CommitMessage(h)
        PROVE  Goal
    <2>1. fresh[h] /\ ReadsHold(h)
      <3>1. run'[h] # run[h] /\ run[h].at \in Writes
        BY <1>11 DEF CommitMessage
      <3>2. fresh[h]
        BY <3>1
      <3> QED
        BY <3>1, <3>2 DEF FreshReadsHold
    <2> QED
      BY <1>11, <2>1 DEF CommitMessage, ReadsHold
  <1>12. ASSUME NEW h \in Handlers, Notify(h)
        PROVE  Goal
    <2>1. fresh[h] /\ ReadsHold(h)
      <3>1. run'[h] # run[h] /\ run[h].at \in Writes
        BY <1>12 DEF Notify
      <3>2. fresh[h]
        BY <3>1
      <3> QED
        BY <3>1, <3>2 DEF FreshReadsHold
    <2> QED
      BY <1>12, <2>1 DEF Notify, Flags, ReadsHold
  <1>13. ASSUME NEW h \in Handlers, CommitRead(h)
        PROVE  Goal
    <2>1. fresh[h] /\ ReadsHold(h)
      <3>1. run'[h] # run[h] /\ run[h].at \in Writes
        BY <1>13 DEF CommitRead
      <3>2. fresh[h]
        BY <3>1
      <3> QED
        BY <3>1, <3>2 DEF FreshReadsHold
    <2> QED
      BY <1>13, <2>1 DEF CommitRead, ReadsHold
  <1>14. ASSUME NEW h \in Handlers, Join(h)
        PROVE  Goal
    <2>1. fresh[h] /\ ReadsHold(h)
      <3>1. run'[h] # run[h] /\ run[h].at \in Writes
        BY <1>14 DEF Join
      <3>2. fresh[h]
        BY <3>1
      <3> QED
        BY <3>1, <3>2 DEF FreshReadsHold
    <2> QED
      BY <1>14, <2>1 DEF Join, ReadsHold
  <1>15. ASSUME NEW h \in Handlers, Fails(h)
        PROVE  Goal
    BY <1>15 DEF Fails
  <1>16. ASSUME NEW p \in People, NEW members \in SUBSET People, CreateGroup(p, members)
        PROVE  Goal
    <2>1. Cardinality(members) <= MaxMembers
      BY <1>16, SizesAreFinite, MaxAssumption DEF CreateGroup
    <2> QED
      BY <1>16, <2>1 DEF CreateGroup
  <1>17. ASSUME RunCleanupJob
        PROVE  Goal
    BY <1>17 DEF RunCleanupJob
  <1>18. ASSUME SeeMessages
        PROVE  Goal
    BY <1>18 DEF SeeMessages
  <1>19. ASSUME Disconnect
        PROVE  Goal
    BY <1>19 DEF Disconnect
  <1> HIDE DEF Goal, TypeOK, State, IsAt, Goes, Returns, Throws, Done, Begins, Idle,
          groupVars, dataVars, traceVars, Announces, Commits, Starts,
          Writes, Sound, NoneAppears, IsMember
  <1> QED
    BY Requested, <1>1, <1>2, <1>3, <1>4, <1>5, <1>6, <1>7, <1>8, <1>9,
       <1>10, <1>11, <1>12, <1>13, <1>14, <1>15, <1>16, <1>17, <1>18,
       <1>19
       DEF Act, Progress, Begun

\* In the terms of Breaks.
LEMMA NoneAppearsAnew ==
  ASSUME NoneAppears, NEW t \in Homeless \ Present, t \in Homeless'
  PROVE  t \notin Present'
  <1>1. CASE t \in {"receipt", "flag", "room"}
    <2>1. ~IsMember(Watched)
      BY <1>1 DEF Homeless
    <2>2. ~IsMember(Watched)'
      BY <1>1 DEF Homeless
    <2> QED
      BY <1>1, <2>1, <2>2 DEF NoneAppears, Present, Traces
  <1>2. CASE t \in {"message", "file"}
    <2>1. group = "gone" /\ group' = "gone"
      BY <1>2 DEF Homeless
    <2> QED
      BY <1>2, <2>1 DEF NoneAppears, Present, Traces
  <1> QED
    BY <1>1, <1>2 DEF Homeless

(***************************************************************************)
(* The theorems.                                                           *)
(***************************************************************************)

\* What a membership and a group leave behind, for any number of people and of
\* requests that race: it came late, or who is to remove it is on its way.
THEOREM InvHolds == Spec => []Inv
  <1>1. Init => Inv
    <2>1. ASSUME Init PROVE TypeOK
      <3>1. Idle \in State
        BY DEF Idle, State, Stops
      <3>2. run \in [Handlers -> State]
        BY <2>1, <3>1 DEF Init
      <3> QED
        BY <2>1, <3>2 DEF Init, TypeOK
    <2>2. ASSUME Init PROVE TracesGoWithTheMember /\ NothingIsLeftOfTheGroup
      BY <2>2 DEF Init, TracesGoWithTheMember, NothingIsLeftOfTheGroup
    <2>3. ASSUME Init PROVE GroupIsFirst /\ FreshReadsHold
      BY <2>3 DEF Init, GroupIsFirst, FreshReadsHold, IsAt, Idle, Commits
    <2> QED
      BY <2>1, <2>2, <2>3 DEF Inv
  <1>2. Inv /\ [Next]_vars => Inv'
    <2>1. ASSUME Inv, Next PROVE Inv'
      <3>1. TypeOK'
        BY <2>1, TypeStays DEF Inv
      <3> QED
        BY <2>1, <3>1, FirstStays, ReadsStay, TracesStayCovered, LeftoversStayCovered
           DEF Inv, Next
    <2>2. ASSUME Inv, UNCHANGED vars PROVE Inv'
      BY <2>2 DEF Inv, vars, groupVars, dataVars, traceVars, TypeOK, GroupIsFirst,
                  TracesGoWithTheMember, NothingIsLeftOfTheGroup, FreshReadsHold,
                  ReadsHold, Pending, IsAt
    <2> QED
      BY <2>1, <2>2
  <1> QED
    BY <1>1, <1>2, PTL DEF Spec

\* The checks made on what was read are all that is needed without a race: the
\* administrator is a member, the members are within the limit, and no trace of
\* who is no member appears, but by a request that another one overtook.
THEOREM OnlyRaces == Spec => OnlyRacesBreakTheGroup
  <1>1. ASSUME Inv, Next PROVE OnlyRacesBreak
    <2> SUFFICES ASSUME Sound, \A h \in Handlers: run'[h] # run[h] => fresh[h]
                 PROVE  ~Breaks
      BY DEF OnlyRacesBreak, Breaks
    <2>1. Sound' /\ NoneAppears
      BY <1>1, FreshStepsKeep DEF Inv, Next
    <2> QED
      BY <2>1, NoneAppearsAnew DEF Breaks
  <1>2. Inv /\ [Next]_vars => [OnlyRacesBreak]_vars
    BY <1>1
  <1> QED
    BY <1>2, InvHolds, PTL DEF Spec, OnlyRacesBreakTheGroup
=============================================================================
