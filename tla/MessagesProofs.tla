--------------------------- MODULE MessagesProofs ---------------------------
(***************************************************************************)
(* For any number of users, files, messages and requests in flight: the    *)
(* media document of a stored file says what its message says, no file is  *)
(* left over short of a restart and of a third failure, and a message that *)
(* was taken back stays as it was.                                         *)
(*                                                                         *)
(* The argument: an identifier is chosen once and a file is handed to one  *)
(* request, so a file that is stored is of a request, which knows whether  *)
(* its message was committed, or of exactly one message.                   *)
(***************************************************************************)
EXTENDS Messages, TLAPS

Reading == {"delete", "edit", "react", "unreact", "pin", "unpin", "read", "hide"}

\* What the guard of a request that stops before its write has found out.
Found(op, m) == op = "delete" => m \in Ids /\ state[m] # "none"

(***************************************************************************)
(* What a request may do: begin a creation, or read and stop.              *)
(***************************************************************************)
LEMMA Requested ==
  ASSUME TypeOK, NEW h \in Handlers, Request(h)
  PROVE  \/ \E u \in Users, f \in Files \union {NoFile}: CreateMessage(h, u, f)
         \/ \E u \in Users, op \in Reading, m \in Ids \union {None},
               flag \in BOOLEAN: Found(op, m) /\ Reads(h, op, u, m, flag)
  <1> DEFINE Some == \E u \in Users, op \in Reading, m \in Ids \union {None},
               flag \in BOOLEAN: Found(op, m) /\ Reads(h, op, u, m, flag)
  <1>1. ASSUME NEW u \in Users, NEW op \in Reading, NEW m \in Ids \union {None},
               NEW flag \in BOOLEAN, Found(op, m), Reads(h, op, u, m, flag)
        PROVE  Some
    BY <1>1
  <1> HIDE DEF Some
  <1>2. ASSUME NEW u \in Users, HiddenHistory(h, u)
        PROVE  Some
    BY <1>2, <1>1 DEF HiddenHistory, Reading, Found
  <1>3. ASSUME NEW u \in Users, NEW m \in Ids,
               \/ DeleteMessage(h, u, m) \/ UpdateMessageContent(h, u, m)
               \/ UpdateOrInsertReaction(h, u, m) \/ RemoveReaction(h, u, m)
               \/ PinMessage(h, u, m) \/ UnpinMessage(h, u, m)
               \/ MarkAsRead(h, u, m)
        PROVE  Some
    <2>1. CASE DeleteMessage(h, u, m)
      BY <2>1, <1>1 DEF DeleteMessage, Reading, Found
    <2>2. CASE UpdateMessageContent(h, u, m)
      BY <2>2, <1>1 DEF UpdateMessageContent, Reading, Found
    <2>3. CASE UpdateOrInsertReaction(h, u, m)
      <3>1. (reactions[m][u] > 0) \in BOOLEAN
        OBVIOUS
      <3> QED
        BY <2>3, <3>1, <1>1 DEF UpdateOrInsertReaction, Reading, Found
    <2>4. CASE RemoveReaction(h, u, m)
      BY <2>4, <1>1 DEF RemoveReaction, Reading, Found
    <2>5. CASE PinMessage(h, u, m)
      BY <2>5, <1>1 DEF PinMessage, Reading, Found
    <2>6. CASE UnpinMessage(h, u, m)
      BY <2>6, <1>1 DEF UnpinMessage, Reading, Found
    <2>7. CASE MarkAsRead(h, u, m)
      BY <2>7, <1>1 DEF MarkAsRead, Reading, Found
    <2> QED
      BY <1>3, <2>1, <2>2, <2>3, <2>4, <2>5, <2>6, <2>7
  <1> QED
    BY <1>2, <1>3 DEF Request, Some

(***************************************************************************)
(* and one that has not begun has nothing.                                 *)
(***************************************************************************)
LEMMA IdleHasNothing ==
  ASSUME TypeOK, NEW h \in Handlers, IsAt(h, "idle")
  PROVE  run[h].file = NoFile
  <1>1. run[h] = Idle
    BY DEF TypeOK, IsAt, Stops
  <1> QED
    BY <1>1 DEF Idle

(***************************************************************************)
(* The two actions with alternatives, one alternative at a time.           *)
(***************************************************************************)
HidesAgain(h) ==
  /\ IsAt(h, "hide")
  /\ Returns(h)
  /\ UNCHANGED <<messageVars, fileVars, next, failureVars>>

Hides(h) ==
  /\ IsAt(h, "hide")
  /\ Goes(h, "clear")
  /\ UNCHANGED <<messageVars, fileVars, next, failureVars>>

LEMMA HideSteps ==
  ASSUME NEW h \in Handlers, Hide(h)
  PROVE  HidesAgain(h) \/ Hides(h)
  BY DEF Hide, HidesAgain, Hides

FailsCaught(h) ==
  /\ run[h].at \in BeforeCommit \union AfterCommit
  /\ run[h].file # NoFile
  /\ faults' = faults + 1
  /\ Goes(h, "rollback")
  /\ UNCHANGED <<messageVars, fileVars, next, crashes>>

RollbackFails(h) ==
  /\ IsAt(h, "rollback")
  /\ faults' = faults + 1
  /\ Goes(h, "job")
  /\ UNCHANGED <<messageVars, fileVars, next, crashes>>

FailsForGood(h) ==
  /\ run[h].at \in {"upload", "commit", "notify", "lookup", "job", "clear"}
  /\ run[h].at \in {"commit", "notify", "lookup"} => run[h].file = NoFile
  /\ faults' = faults + 1
  /\ Returns(h)
  /\ UNCHANGED <<messageVars, fileVars, next, crashes>>

LEMMA FailSteps ==
  ASSUME NEW h \in Handlers, Fails(h)
  PROVE  FailsCaught(h) \/ RollbackFails(h) \/ FailsForGood(h)
  BY DEF Fails, FailsCaught, RollbackFails, FailsForGood, BeforeCommit, AfterCommit

(***************************************************************************)
(* Type correctness.                                                       *)
(***************************************************************************)
Doing == [at: Stops, user: Users, msg: Ids \union {None},
          file: Files \union {NoFile}, flag: BOOLEAN]

LEMMA TypeIsInductive ==
  ASSUME Inv, [Next]_vars
  PROVE  TypeOK'
  <1> USE BoundsAssumption, NamesAssumption
      DEF Inv, TypeOK, IsAt, Returns, Goes, Begins, Ids, None, Idle, Stops,
          messageVars, conversationVars, fileVars, failureVars
  <1>a. ASSUME NEW h \in Handlers, run[h].at # "idle"
        PROVE  run[h] \in Doing
    BY <1>a DEF Doing
  <1>b. ASSUME NEW h \in Handlers, NEW stop \in Stops, run[h] \in Doing,
               Goes(h, stop)
        PROVE  run' \in [Handlers -> Doing \union {Idle}]
    <2>1. [run[h] EXCEPT !.at = stop] \in Doing
      BY <1>b DEF Doing
    <2> QED
      BY <1>b, <2>1 DEF Doing
  <1>c. ASSUME NEW h \in Handlers, Returns(h)
        PROVE  run' \in [Handlers -> Doing \union {Idle}]
    BY <1>c DEF Doing
  <1>1. ASSUME NEW h \in Handlers, NEW u \in Users, NEW f \in Files \union {NoFile},
               CreateMessage(h, u, f)
        PROVE  TypeOK'
    <2>1. run' \in [Handlers -> Doing \union {Idle}]
      BY <1>1 DEF CreateMessage, Doing
    <2> QED
      BY <1>1, <2>1 DEF CreateMessage, Doing
  <1>2. ASSUME NEW h \in Handlers, NEW u \in Users, NEW op \in Reading,
               NEW m \in Ids \union {None}, NEW flag \in BOOLEAN,
               Found(op, m), Reads(h, op, u, m, flag)
        PROVE  TypeOK'
    <2>1. run' \in [Handlers -> Doing \union {Idle}]
      BY <1>2 DEF Reads, Doing, Reading
    <2> QED
      BY <1>2, <2>1 DEF Reads, Doing
  <1>3. ASSUME NEW h \in Handlers, Upload(h)
        PROVE  TypeOK'
    <2>1. run[h] \in Doing /\ run[h].file \in Files
      BY <1>3, <1>a DEF Upload, FilesAreOwned, Doing
    <2>2. run' \in [Handlers -> Doing \union {Idle}]
      BY <1>3, <1>b, <2>1 DEF Upload
    <2> QED
      BY <1>3, <2>1, <2>2 DEF Upload, Doing
  <1>4. ASSUME NEW h \in Handlers, BeginTransaction(h)
        PROVE  TypeOK'
    <2>1. run[h] \in Doing /\ next \in Ids /\ next' \in 1..(MaxMessages + 1)
      BY <1>4, <1>a, SMTT(30) DEF BeginTransaction
    <2>2. run' \in [Handlers -> Doing \union {Idle}]
      BY <1>4, <2>1 DEF BeginTransaction, Doing
    <2> QED
      BY <1>4, <2>1, <2>2 DEF BeginTransaction, Doing
  <1>5. ASSUME NEW h \in Handlers, Commit(h)
        PROVE  TypeOK'
    <2>1. run[h] \in Doing /\ run[h].msg \in Ids
      BY <1>5, <1>a DEF Commit, IdsAreUsedOnce
    <2>2. run' \in [Handlers -> Doing \union {Idle}]
      BY <1>5, <1>b, <2>1 DEF Commit
    <2> QED
      BY <1>5, <2>1, <2>2 DEF Commit, Doing
  <1>6. ASSUME NEW h \in Handlers, NotifyUnseen(h)
        PROVE  TypeOK'
    <2>1. run' \in [Handlers -> Doing \union {Idle}]
      BY <1>6, <1>a, <1>b DEF NotifyUnseen
    <2> QED
      BY <1>6, <2>1 DEF NotifyUnseen, Doing
  <1>7. ASSUME NEW h \in Handlers, EmitCreated(h)
        PROVE  TypeOK'
    BY <1>7 DEF EmitCreated
  <1>8. ASSUME NEW h \in Handlers, Rollback(h)
        PROVE  TypeOK'
    BY <1>8 DEF Rollback
  <1>9. ASSUME NEW h \in Handlers, CreateCleanupJob(h)
        PROVE  TypeOK'
    <2>1. run[h] \in Doing /\ run[h].file \in Files
      BY <1>9, <1>a DEF CreateCleanupJob, FilesAreOwned, Doing
    <2> QED
      BY <1>9, <2>1 DEF CreateCleanupJob
  <1>10. ASSUME NEW h \in Handlers, Delete(h)
        PROVE  TypeOK'
    BY <1>10 DEF Delete
  <1>11. ASSUME NEW h \in Handlers, DeleteAborts(h)
        PROVE  TypeOK'
    BY <1>11 DEF DeleteAborts
  <1>12. ASSUME NEW h \in Handlers, Edit(h)
        PROVE  TypeOK'
    BY <1>12 DEF Edit
  <1>13. ASSUME NEW h \in Handlers, React(h)
        PROVE  TypeOK'
    <2>1. run[h] \in Doing
      BY <1>13, <1>a DEF React
    <2>2. reactions' \in [Ids -> [Users -> Nat]]
      <3>1. CASE run[h].msg \in Ids
        BY <1>13, <2>1, <3>1 DEF React, Doing
      <3>2. CASE run[h].msg \notin Ids
        BY <1>13, <2>1, <3>2 DEF React, Doing
      <3> QED
        BY <3>1, <3>2
    <2> QED
      BY <1>13, <2>2 DEF React
  <1>14. ASSUME NEW h \in Handlers, Unreact(h)
        PROVE  TypeOK'
    BY <1>14 DEF Unreact
  <1>15. ASSUME NEW h \in Handlers, SetPin(h)
        PROVE  TypeOK'
    BY <1>15 DEF SetPin
  <1>16. ASSUME NEW h \in Handlers, SetReceipt(h)
        PROVE  TypeOK'
    <2>1. run[h] \in Doing
      BY <1>16, <1>a DEF SetReceipt
    <2>2. run' \in [Handlers -> Doing \union {Idle}]
      BY <1>16, <1>b, <2>1 DEF SetReceipt
    <2> QED
      BY <1>16, <2>1, <2>2 DEF SetReceipt, Doing
  <1>17. ASSUME NEW h \in Handlers, Hide(h)
        PROVE  TypeOK'
    <2>1. run[h] \in Doing
      BY <1>17, <1>a DEF Hide
    <2>2. run' \in [Handlers -> Doing \union {Idle}]
      <3>1. Returns(h) \/ Goes(h, "clear")
        BY <1>17 DEF Hide
      <3> QED
        BY <3>1, <1>b, <1>c, <2>1
    <2> QED
      BY <1>17, <2>1, <2>2 DEF Hide, Doing
  <1>18. ASSUME NEW h \in Handlers, ClearUnseen(h)
        PROVE  TypeOK'
    BY <1>18 DEF ClearUnseen
  <1>19. ASSUME NEW h \in Handlers, Fails(h)
        PROVE  TypeOK'
    <2>1. run[h] \in Doing
      BY <1>19, <1>a DEF Fails
    <2>2. run' \in [Handlers -> Doing \union {Idle}]
      BY <1>19, <1>b, <1>c, <2>1 DEF Fails
    <2>3. faults' \in 0..MaxFaults
      BY <1>19 DEF Fails
    <2> QED
      BY <1>19, <2>2, <2>3 DEF Fails, Doing
  <1>20. ASSUME NEW f \in Files, CleanUp(f)
        PROVE  TypeOK'
    BY <1>20 DEF CleanUp
  <1>21. ASSUME NEW f \in Files, CleanupOrphanMedia(f)
        PROVE  TypeOK'
    BY <1>21 DEF CleanupOrphanMedia
  <1>22. CASE Crash
    BY <1>22 DEF Crash
  <1>23. CASE UNCHANGED vars
    BY <1>23 DEF vars
  <1> HIDE DEF TypeOK, IsAt, Returns, Goes, Begins, Ids, None, Idle, Stops,
               messageVars, conversationVars, fileVars, failureVars
  <1> QED
    BY Requested, <1>1, <1>2, <1>3, <1>4, <1>5, <1>6, <1>7, <1>8, <1>9, <1>10,
       <1>11, <1>12, <1>13, <1>14, <1>15, <1>16, <1>17,
       <1>18, <1>19, <1>20, <1>21, <1>22, <1>23
       DEF Next, Progress

(***************************************************************************)
(* An identifier is chosen once, and is of a message from the commit on.   *)
(***************************************************************************)
LEMMA IdsStayUnique ==
  ASSUME Inv, TypeOK', [Next]_vars
  PROVE  IdsAreUsedOnce'
  <1> DEFINE Goal == IdsAreUsedOnce'
  <1> SUFFICES Goal
    OBVIOUS
  <1> USE BoundsAssumption, NamesAssumption
      DEF Inv, TypeOK, IsAt, Returns, Goes, Begins, Ids, None, Idle,
          messageVars, conversationVars, fileVars, failureVars,
          IdsAreUsedOnce
  <1>1. ASSUME NEW h \in Handlers, NEW u \in Users, NEW f \in Files \union {NoFile},
               CreateMessage(h, u, f)
        PROVE  Goal
    BY <1>1 DEF CreateMessage, IsFresh
  <1>2. ASSUME NEW h \in Handlers, NEW u \in Users, NEW op \in Reading,
               NEW m \in Ids \union {None}, NEW flag \in BOOLEAN,
               Found(op, m), Reads(h, op, u, m, flag)
        PROVE  Goal
    BY <1>2 DEF Reads, Reading, Found
  <1>3. ASSUME NEW h \in Handlers, Upload(h)
        PROVE  Goal
    BY <1>3 DEF Upload
  <1>4. ASSUME NEW h \in Handlers, BeginTransaction(h)
        PROVE  Goal
    BY <1>4, SMTT(30) DEF BeginTransaction
  <1>5. ASSUME NEW h \in Handlers, Commit(h)
        PROVE  Goal
    BY <1>5, SMTT(30) DEF Commit
  <1>6. ASSUME NEW h \in Handlers, NotifyUnseen(h)
        PROVE  Goal
    BY <1>6 DEF NotifyUnseen
  <1>7. ASSUME NEW h \in Handlers, EmitCreated(h)
        PROVE  Goal
    BY <1>7 DEF EmitCreated
  <1>8. ASSUME NEW h \in Handlers, Rollback(h)
        PROVE  Goal
    BY <1>8 DEF Rollback
  <1>9. ASSUME NEW h \in Handlers, CreateCleanupJob(h)
        PROVE  Goal
    BY <1>9 DEF CreateCleanupJob
  <1>10. ASSUME NEW h \in Handlers, Delete(h)
        PROVE  Goal
    BY <1>10 DEF Delete
  <1>11. ASSUME NEW h \in Handlers, DeleteAborts(h)
        PROVE  Goal
    BY <1>11 DEF DeleteAborts
  <1>12. ASSUME NEW h \in Handlers, Edit(h)
        PROVE  Goal
    BY <1>12 DEF Edit
  <1>13. ASSUME NEW h \in Handlers, React(h)
        PROVE  Goal
    BY <1>13 DEF React
  <1>14. ASSUME NEW h \in Handlers, Unreact(h)
        PROVE  Goal
    BY <1>14 DEF Unreact
  <1>15. ASSUME NEW h \in Handlers, SetPin(h)
        PROVE  Goal
    BY <1>15 DEF SetPin
  <1>16. ASSUME NEW h \in Handlers, SetReceipt(h)
        PROVE  Goal
    BY <1>16 DEF SetReceipt
  <1>17. ASSUME NEW h \in Handlers, Hide(h)
        PROVE  Goal
    <2>1. CASE HidesAgain(h)
      BY <2>1 DEF HidesAgain
    <2>2. CASE Hides(h)
      BY <2>2, SMTT(30) DEF Hides
    <2> QED
      BY <1>17, <2>1, <2>2, HideSteps
  <1>18. ASSUME NEW h \in Handlers, ClearUnseen(h)
        PROVE  Goal
    BY <1>18 DEF ClearUnseen
  <1>19. ASSUME NEW h \in Handlers, Fails(h)
        PROVE  Goal
    <2>1. CASE FailsCaught(h)
      BY <2>1, SMTT(30) DEF FailsCaught
    <2>2. CASE RollbackFails(h)
      BY <2>2, SMTT(30) DEF RollbackFails
    <2>3. CASE FailsForGood(h)
      BY <2>3 DEF FailsForGood
    <2> QED
      BY <1>19, <2>1, <2>2, <2>3, FailSteps
  <1>20. ASSUME NEW f \in Files, CleanUp(f)
        PROVE  Goal
    BY <1>20 DEF CleanUp
  <1>21. ASSUME NEW f \in Files, CleanupOrphanMedia(f)
        PROVE  Goal
    BY <1>21 DEF CleanupOrphanMedia
  <1>22. CASE Crash
    BY <1>22 DEF Crash
  <1>23. CASE UNCHANGED vars
    BY <1>23 DEF vars
  <1>a. TypeOK
    OBVIOUS
  <1> HIDE DEF Goal, TypeOK, IsAt, Returns, Goes, Begins, Ids, None, Idle,
               messageVars, conversationVars, fileVars, failureVars
  <1> QED
    BY Requested, <1>a, <1>1, <1>2, <1>3, <1>4, <1>5, <1>6, <1>7, <1>8, <1>9, <1>10,
       <1>11, <1>12, <1>13, <1>14, <1>15, <1>16, <1>17,
       <1>18, <1>19, <1>20, <1>21, <1>22, <1>23
       DEF Next, Progress

(***************************************************************************)
(* A request that is to make a cleanup job still holds its file.           *)
(***************************************************************************)
LEMMA JobKeepsHold ==
  ASSUME FilesAreOwned, NEW h \in Handlers,
         \A g \in Handlers: g # h => run'[g] = run[g],
         run'[h].at = "job", run'[h].file = run[h].file, run[h].file # NoFile,
         UNCHANGED file, UNCHANGED media, UNCHANGED stored
  PROVE  FilesAreOwned'
  <1> USE DEF IsAt, BeforeCommit, AfterCommit
  <1>1. \A g \in Handlers: run'[g].file = run[g].file
    OBVIOUS
  <1>2. ASSUME NEW g \in Handlers, run[g].file # NoFile
        PROVE  IsInHand(g, run[g].file)'
    <2>1. IsInHand(g, run[g].file)
      BY <1>2 DEF FilesAreOwned
    <2>2. CASE g = h
      BY <1>1, <2>1, <2>2 DEF IsInHand
    <2>3. CASE g # h
      BY <1>1, <2>1, <2>3 DEF IsInHand
    <2> QED
      BY <2>2, <2>3
  <1> QED
    BY <1>1, <1>2 DEF FilesAreOwned

(***************************************************************************)
(* A file that a request has in hand is of no other request, and of the    *)
(* message of that request only.                                           *)
(***************************************************************************)
LEMMA FilesStayOwned ==
  ASSUME Inv, TypeOK', [Next]_vars
  PROVE  FilesAreOwned'
  <1> DEFINE Goal == FilesAreOwned'
  <1> SUFFICES Goal
    OBVIOUS
  <1> USE BoundsAssumption, NamesAssumption
      DEF Inv, TypeOK, IsAt, Returns, Goes, Begins, Ids, None, Idle,
          messageVars, conversationVars, fileVars, failureVars,
          IdsAreUsedOnce, FilesAreOwned, IsInHand, BeforeCommit, AfterCommit
  <1>1. ASSUME NEW h \in Handlers, NEW u \in Users, NEW f \in Files \union {NoFile},
               CreateMessage(h, u, f)
        PROVE  Goal
    BY <1>1 DEF CreateMessage, IsFresh
  <1>2. ASSUME NEW h \in Handlers, NEW u \in Users, NEW op \in Reading,
               NEW m \in Ids \union {None}, NEW flag \in BOOLEAN,
               Found(op, m), Reads(h, op, u, m, flag)
        PROVE  Goal
    BY <1>2 DEF Reads, Reading, Found
  <1>3. ASSUME NEW h \in Handlers, Upload(h)
        PROVE  Goal
    BY <1>3, SMTT(30) DEF Upload
  <1>4. ASSUME NEW h \in Handlers, BeginTransaction(h)
        PROVE  Goal
    BY <1>4, SMTT(30) DEF BeginTransaction
  <1>5. ASSUME NEW h \in Handlers, Commit(h)
        PROVE  Goal
    BY <1>5, SMTT(30) DEF Commit
  <1>6. ASSUME NEW h \in Handlers, NotifyUnseen(h)
        PROVE  Goal
    BY <1>6, SMTT(30) DEF NotifyUnseen
  <1>7. ASSUME NEW h \in Handlers, EmitCreated(h)
        PROVE  Goal
    BY <1>7 DEF EmitCreated
  <1>8. ASSUME NEW h \in Handlers, Rollback(h)
        PROVE  Goal
    BY <1>8 DEF Rollback
  <1>9. ASSUME NEW h \in Handlers, CreateCleanupJob(h)
        PROVE  Goal
    BY <1>9 DEF CreateCleanupJob
  <1>10. ASSUME NEW h \in Handlers, Delete(h)
        PROVE  Goal
    BY <1>10 DEF Delete
  <1>11. ASSUME NEW h \in Handlers, DeleteAborts(h)
        PROVE  Goal
    BY <1>11 DEF DeleteAborts
  <1>12. ASSUME NEW h \in Handlers, Edit(h)
        PROVE  Goal
    BY <1>12 DEF Edit
  <1>13. ASSUME NEW h \in Handlers, React(h)
        PROVE  Goal
    BY <1>13, SMTT(30) DEF React
  <1>14. ASSUME NEW h \in Handlers, Unreact(h)
        PROVE  Goal
    BY <1>14 DEF Unreact
  <1>15. ASSUME NEW h \in Handlers, SetPin(h)
        PROVE  Goal
    BY <1>15 DEF SetPin
  <1>16. ASSUME NEW h \in Handlers, SetReceipt(h)
        PROVE  Goal
    BY <1>16, SMTT(30) DEF SetReceipt
  <1>17. ASSUME NEW h \in Handlers, Hide(h)
        PROVE  Goal
    <2>1. CASE HidesAgain(h)
      BY <2>1 DEF HidesAgain
    <2>2. CASE Hides(h)
      BY <2>2 DEF Hides
    <2> QED
      BY <1>17, <2>1, <2>2, HideSteps
  <1>18. ASSUME NEW h \in Handlers, ClearUnseen(h)
        PROVE  Goal
    BY <1>18 DEF ClearUnseen
  <1>19. ASSUME NEW h \in Handlers, Fails(h)
        PROVE  Goal
    <2>1. CASE FailsCaught(h)
      BY <2>1 DEF FailsCaught, BeforeCommit, AfterCommit
    <2>2. CASE RollbackFails(h)
      <3>1. \A g \in Handlers: g # h => run'[g] = run[g]
        BY <2>2 DEF RollbackFails
      <3>2. run'[h].at = "job" /\ run'[h].file = run[h].file /\ run[h].file # NoFile
        BY <2>2 DEF RollbackFails
      <3>3. UNCHANGED file /\ UNCHANGED media /\ UNCHANGED stored
        BY <2>2 DEF RollbackFails
      <3> HIDE DEF TypeOK, Inv, FilesAreOwned, Idle
      <3> QED
        BY <3>1, <3>2, <3>3, JobKeepsHold DEF Inv
    <2>3. CASE FailsForGood(h)
      BY <2>3 DEF FailsForGood
    <2> QED
      BY <1>19, <2>1, <2>2, <2>3, FailSteps
  <1>20. ASSUME NEW f \in Files, CleanUp(f)
        PROVE  Goal
    BY <1>20 DEF CleanUp
  <1>21. ASSUME NEW f \in Files, CleanupOrphanMedia(f)
        PROVE  Goal
    BY <1>21 DEF CleanupOrphanMedia
  <1>22. CASE Crash
    BY <1>22 DEF Crash
  <1>23. CASE UNCHANGED vars
    BY <1>23 DEF vars
  <1>a. TypeOK
    OBVIOUS
  <1> HIDE DEF Goal, TypeOK, IsAt, Returns, Goes, Begins, Ids, None, Idle,
               messageVars, conversationVars, fileVars, failureVars
  <1> QED
    BY Requested, <1>a, <1>1, <1>2, <1>3, <1>4, <1>5, <1>6, <1>7, <1>8, <1>9, <1>10,
       <1>11, <1>12, <1>13, <1>14, <1>15, <1>16, <1>17,
       <1>18, <1>19, <1>20, <1>21, <1>22, <1>23
       DEF Next, Progress

(***************************************************************************)
(* A rollback and a job each take a failure to get to.                     *)
(***************************************************************************)
LEMMA FailuresStayCounted ==
  ASSUME Inv, TypeOK', [Next]_vars
  PROVE  FailuresAreCounted'
  <1> DEFINE Goal == FailuresAreCounted'
  <1> SUFFICES Goal
    OBVIOUS
  <1> USE BoundsAssumption, NamesAssumption
      DEF Inv, TypeOK, IsAt, Returns, Goes, Begins, Ids, None, Idle,
          messageVars, conversationVars, fileVars, failureVars,
          FailuresAreCounted
  <1>1. ASSUME NEW h \in Handlers, NEW u \in Users, NEW f \in Files \union {NoFile},
               CreateMessage(h, u, f)
        PROVE  Goal
    BY <1>1 DEF CreateMessage, IsFresh
  <1>2. ASSUME NEW h \in Handlers, NEW u \in Users, NEW op \in Reading,
               NEW m \in Ids \union {None}, NEW flag \in BOOLEAN,
               Found(op, m), Reads(h, op, u, m, flag)
        PROVE  Goal
    BY <1>2 DEF Reads, Reading, Found
  <1>3. ASSUME NEW h \in Handlers, Upload(h)
        PROVE  Goal
    BY <1>3 DEF Upload
  <1>4. ASSUME NEW h \in Handlers, BeginTransaction(h)
        PROVE  Goal
    BY <1>4 DEF BeginTransaction
  <1>5. ASSUME NEW h \in Handlers, Commit(h)
        PROVE  Goal
    BY <1>5 DEF Commit
  <1>6. ASSUME NEW h \in Handlers, NotifyUnseen(h)
        PROVE  Goal
    BY <1>6 DEF NotifyUnseen
  <1>7. ASSUME NEW h \in Handlers, EmitCreated(h)
        PROVE  Goal
    BY <1>7 DEF EmitCreated
  <1>8. ASSUME NEW h \in Handlers, Rollback(h)
        PROVE  Goal
    BY <1>8 DEF Rollback
  <1>9. ASSUME NEW h \in Handlers, CreateCleanupJob(h)
        PROVE  Goal
    BY <1>9 DEF CreateCleanupJob
  <1>10. ASSUME NEW h \in Handlers, Delete(h)
        PROVE  Goal
    BY <1>10 DEF Delete
  <1>11. ASSUME NEW h \in Handlers, DeleteAborts(h)
        PROVE  Goal
    BY <1>11 DEF DeleteAborts
  <1>12. ASSUME NEW h \in Handlers, Edit(h)
        PROVE  Goal
    BY <1>12 DEF Edit
  <1>13. ASSUME NEW h \in Handlers, React(h)
        PROVE  Goal
    BY <1>13 DEF React
  <1>14. ASSUME NEW h \in Handlers, Unreact(h)
        PROVE  Goal
    BY <1>14 DEF Unreact
  <1>15. ASSUME NEW h \in Handlers, SetPin(h)
        PROVE  Goal
    BY <1>15 DEF SetPin
  <1>16. ASSUME NEW h \in Handlers, SetReceipt(h)
        PROVE  Goal
    BY <1>16 DEF SetReceipt
  <1>17. ASSUME NEW h \in Handlers, Hide(h)
        PROVE  Goal
    <2>1. CASE HidesAgain(h)
      BY <2>1 DEF HidesAgain
    <2>2. CASE Hides(h)
      BY <2>2 DEF Hides
    <2> QED
      BY <1>17, <2>1, <2>2, HideSteps
  <1>18. ASSUME NEW h \in Handlers, ClearUnseen(h)
        PROVE  Goal
    BY <1>18 DEF ClearUnseen
  <1>19. ASSUME NEW h \in Handlers, Fails(h)
        PROVE  Goal
    <2>1. CASE FailsCaught(h)
      BY <2>1 DEF FailsCaught, BeforeCommit, AfterCommit
    <2>2. CASE RollbackFails(h)
      BY <2>2, SMTT(30) DEF RollbackFails
    <2>3. CASE FailsForGood(h)
      BY <2>3 DEF FailsForGood
    <2> QED
      BY <1>19, <2>1, <2>2, <2>3, FailSteps
  <1>20. ASSUME NEW f \in Files, CleanUp(f)
        PROVE  Goal
    BY <1>20 DEF CleanUp
  <1>21. ASSUME NEW f \in Files, CleanupOrphanMedia(f)
        PROVE  Goal
    BY <1>21 DEF CleanupOrphanMedia
  <1>22. CASE Crash
    BY <1>22 DEF Crash
  <1>23. CASE UNCHANGED vars
    BY <1>23 DEF vars
  <1>a. TypeOK
    OBVIOUS
  <1> HIDE DEF Goal, TypeOK, IsAt, Returns, Goes, Begins, Ids, None, Idle,
               messageVars, conversationVars, fileVars, failureVars
  <1> QED
    BY Requested, <1>a, <1>1, <1>2, <1>3, <1>4, <1>5, <1>6, <1>7, <1>8, <1>9, <1>10,
       <1>11, <1>12, <1>13, <1>14, <1>15, <1>16, <1>17,
       <1>18, <1>19, <1>20, <1>21, <1>22, <1>23
       DEF Next, Progress

(***************************************************************************)
(* The commit and the delete write message and document at once, and the   *)
(* nightly job takes documents of files that are gone.                     *)
(***************************************************************************)
LEMMA MediaStaysWithMessage ==
  ASSUME Inv, TypeOK', [Next]_vars
  PROVE  MediaFollowsMessage'
  <1> DEFINE Goal == MediaFollowsMessage'
  <1> SUFFICES Goal
    OBVIOUS
  <1> USE BoundsAssumption, NamesAssumption
      DEF Inv, TypeOK, IsAt, Returns, Goes, Begins, Ids, None, Idle,
          messageVars, conversationVars, fileVars, failureVars,
          IdsAreUsedOnce, FilesAreOwned, IsInHand, BeforeCommit, AfterCommit,
          MediaFollowsMessage
  <1>1. ASSUME NEW h \in Handlers, NEW u \in Users, NEW f \in Files \union {NoFile},
               CreateMessage(h, u, f)
        PROVE  Goal
    BY <1>1 DEF CreateMessage, IsFresh
  <1>2. ASSUME NEW h \in Handlers, NEW u \in Users, NEW op \in Reading,
               NEW m \in Ids \union {None}, NEW flag \in BOOLEAN,
               Found(op, m), Reads(h, op, u, m, flag)
        PROVE  Goal
    BY <1>2 DEF Reads, Reading, Found
  <1>3. ASSUME NEW h \in Handlers, Upload(h)
        PROVE  Goal
    BY <1>3 DEF Upload
  <1>4. ASSUME NEW h \in Handlers, BeginTransaction(h)
        PROVE  Goal
    BY <1>4 DEF BeginTransaction
  <1>5. ASSUME NEW h \in Handlers, Commit(h)
        PROVE  Goal
    BY <1>5 DEF Commit
  <1>6. ASSUME NEW h \in Handlers, NotifyUnseen(h)
        PROVE  Goal
    BY <1>6 DEF NotifyUnseen
  <1>7. ASSUME NEW h \in Handlers, EmitCreated(h)
        PROVE  Goal
    BY <1>7 DEF EmitCreated
  <1>8. ASSUME NEW h \in Handlers, Rollback(h)
        PROVE  Goal
    BY <1>8 DEF Rollback
  <1>9. ASSUME NEW h \in Handlers, CreateCleanupJob(h)
        PROVE  Goal
    BY <1>9 DEF CreateCleanupJob
  <1>10. ASSUME NEW h \in Handlers, Delete(h)
        PROVE  Goal
    BY <1>10 DEF Delete
  <1>11. ASSUME NEW h \in Handlers, DeleteAborts(h)
        PROVE  Goal
    BY <1>11 DEF DeleteAborts
  <1>12. ASSUME NEW h \in Handlers, Edit(h)
        PROVE  Goal
    BY <1>12 DEF Edit
  <1>13. ASSUME NEW h \in Handlers, React(h)
        PROVE  Goal
    BY <1>13 DEF React
  <1>14. ASSUME NEW h \in Handlers, Unreact(h)
        PROVE  Goal
    BY <1>14 DEF Unreact
  <1>15. ASSUME NEW h \in Handlers, SetPin(h)
        PROVE  Goal
    BY <1>15 DEF SetPin
  <1>16. ASSUME NEW h \in Handlers, SetReceipt(h)
        PROVE  Goal
    BY <1>16 DEF SetReceipt
  <1>17. ASSUME NEW h \in Handlers, Hide(h)
        PROVE  Goal
    <2>1. CASE HidesAgain(h)
      BY <2>1 DEF HidesAgain
    <2>2. CASE Hides(h)
      BY <2>2 DEF Hides
    <2> QED
      BY <1>17, <2>1, <2>2, HideSteps
  <1>18. ASSUME NEW h \in Handlers, ClearUnseen(h)
        PROVE  Goal
    BY <1>18 DEF ClearUnseen
  <1>19. ASSUME NEW h \in Handlers, Fails(h)
        PROVE  Goal
    <2>1. CASE FailsCaught(h)
      BY <2>1 DEF FailsCaught, BeforeCommit, AfterCommit
    <2>2. CASE RollbackFails(h)
      BY <2>2 DEF RollbackFails
    <2>3. CASE FailsForGood(h)
      BY <2>3 DEF FailsForGood
    <2> QED
      BY <1>19, <2>1, <2>2, <2>3, FailSteps
  <1>20. ASSUME NEW f \in Files, CleanUp(f)
        PROVE  Goal
    BY <1>20 DEF CleanUp
  <1>21. ASSUME NEW f \in Files, CleanupOrphanMedia(f)
        PROVE  Goal
    BY <1>21 DEF CleanupOrphanMedia
  <1>22. CASE Crash
    BY <1>22 DEF Crash
  <1>23. CASE UNCHANGED vars
    BY <1>23 DEF vars
  <1>a. TypeOK
    OBVIOUS
  <1> HIDE DEF Goal, TypeOK, IsAt, Returns, Goes, Begins, Ids, None, Idle,
               messageVars, conversationVars, fileVars, failureVars
  <1> QED
    BY Requested, <1>a, <1>1, <1>2, <1>3, <1>4, <1>5, <1>6, <1>7, <1>8, <1>9, <1>10,
       <1>11, <1>12, <1>13, <1>14, <1>15, <1>16, <1>17,
       <1>18, <1>19, <1>20, <1>21, <1>22, <1>23
       DEF Next, Progress

(***************************************************************************)
(* While messages, jobs and requests keep what they have, a file that is   *)
(* stored is not left over unless this step stored it.                     *)
(***************************************************************************)
LEMMA NothingLetsGo ==
  ASSUME NoFileIsLeftOver, faults \in Nat, faults' \in Nat, faults <= faults',
         crashes' = crashes, jobs \subseteq jobs',
         \A m \in Ids: file[m] # NoFile => file'[m] = file[m],
         \A f \in stored': f # NoFile,
         \A f \in stored':
            f \in stored \/ \E h \in Handlers: run'[h].file = f,
         \A h \in Handlers: \/ run[h].file = NoFile
                            \/ run[h].file \notin stored
                            \/ run'[h].file = run[h].file
  PROVE  NoFileIsLeftOver'
  <1> SUFFICES ASSUME crashes = 0, faults <= 2, NEW f \in stored'
               PROVE  \/ f \in jobs'
                      \/ \E m \in Ids: file'[m] = f
                      \/ \E h \in Handlers: run'[h].file = f
    BY DEF NoFileIsLeftOver
  <1>1. CASE f \in stored
    BY <1>1 DEF NoFileIsLeftOver
  <1> QED
    BY <1>1

(***************************************************************************)
(* A request lets go of its file when a message or a job has it, or when it*)
(* is deleted; only a third failure or a restart comes between.            *)
(***************************************************************************)
LEMMA NoFileGetsLost ==
  ASSUME Inv, TypeOK', [Next]_vars
  PROVE  NoFileIsLeftOver'
  <1> DEFINE Goal == NoFileIsLeftOver'
  <1> SUFFICES Goal
    OBVIOUS
  <1> USE BoundsAssumption, NamesAssumption
      DEF Inv, TypeOK, IsAt, Returns, Goes, Begins, Ids, None, Idle,
          messageVars, conversationVars, fileVars, failureVars,
          FilesAreOwned, IsInHand, BeforeCommit, AfterCommit,
          FailuresAreCounted, NoFileIsLeftOver
  <1>1. ASSUME NEW h \in Handlers, NEW u \in Users, NEW f \in Files \union {NoFile},
               CreateMessage(h, u, f)
        PROVE  Goal
    <2>1. \A g \in Handlers: run[g].file = NoFile \/ run'[g].file = run[g].file
      BY <1>1, IdleHasNothing DEF CreateMessage
    <2> HIDE DEF NoFileIsLeftOver, IsInHand
    <2> QED
      BY <1>1, <2>1, NothingLetsGo DEF CreateMessage
  <1>2. ASSUME NEW h \in Handlers, NEW u \in Users, NEW op \in Reading,
               NEW m \in Ids \union {None}, NEW flag \in BOOLEAN,
               Found(op, m), Reads(h, op, u, m, flag)
        PROVE  Goal
    BY <1>2 DEF Reads, Reading, Found
  <1>3. ASSUME NEW h \in Handlers, Upload(h)
        PROVE  Goal
    <2>1. \A g \in Handlers: run'[g].file = run[g].file
      BY <1>3 DEF Upload
    <2>2. \A f \in stored': f \in stored \/ run'[h].file = f
      BY <1>3, <2>1 DEF Upload
    <2> HIDE DEF NoFileIsLeftOver, IsInHand
    <2> QED
      BY <1>3, <2>1, <2>2, NothingLetsGo DEF Upload
  <1>4. ASSUME NEW h \in Handlers, BeginTransaction(h)
        PROVE  Goal
    <2>1. \A g \in Handlers: run'[g].file = run[g].file
      BY <1>4 DEF BeginTransaction
    <2> HIDE DEF NoFileIsLeftOver, IsInHand
    <2> QED
      BY <1>4, <2>1, NothingLetsGo DEF BeginTransaction
  <1>5. ASSUME NEW h \in Handlers, Commit(h)
        PROVE  Goal
    <2>1. \A g \in Handlers: run'[g].file = run[g].file
      BY <1>5 DEF Commit
    <2>2. \A m \in Ids: file[m] # NoFile => file'[m] = file[m]
      BY <1>5 DEF Commit, IdsAreUsedOnce
    <2> HIDE DEF NoFileIsLeftOver, IsInHand
    <2> QED
      BY <1>5, <2>1, <2>2, NothingLetsGo DEF Commit
  <1>6. ASSUME NEW h \in Handlers, NotifyUnseen(h)
        PROVE  Goal
    <2>1. \A g \in Handlers: run'[g].file = run[g].file
      BY <1>6 DEF NotifyUnseen
    <2> HIDE DEF NoFileIsLeftOver, IsInHand
    <2> QED
      BY <1>6, <2>1, NothingLetsGo DEF NotifyUnseen
  <1>7. ASSUME NEW h \in Handlers, EmitCreated(h)
        PROVE  Goal
    BY <1>7 DEF EmitCreated
  <1>8. ASSUME NEW h \in Handlers, Rollback(h)
        PROVE  Goal
    BY <1>8 DEF Rollback
  <1>9. ASSUME NEW h \in Handlers, CreateCleanupJob(h)
        PROVE  Goal
    BY <1>9 DEF CreateCleanupJob
  <1>10. ASSUME NEW h \in Handlers, Delete(h)
        PROVE  Goal
    BY <1>10 DEF Delete
  <1>11. ASSUME NEW h \in Handlers, DeleteAborts(h)
        PROVE  Goal
    BY <1>11 DEF DeleteAborts
  <1>12. ASSUME NEW h \in Handlers, Edit(h)
        PROVE  Goal
    BY <1>12 DEF Edit
  <1>13. ASSUME NEW h \in Handlers, React(h)
        PROVE  Goal
    BY <1>13 DEF React
  <1>14. ASSUME NEW h \in Handlers, Unreact(h)
        PROVE  Goal
    BY <1>14 DEF Unreact
  <1>15. ASSUME NEW h \in Handlers, SetPin(h)
        PROVE  Goal
    BY <1>15 DEF SetPin
  <1>16. ASSUME NEW h \in Handlers, SetReceipt(h)
        PROVE  Goal
    <2>1. \A g \in Handlers: run'[g].file = run[g].file
      BY <1>16 DEF SetReceipt
    <2> HIDE DEF NoFileIsLeftOver, IsInHand
    <2> QED
      BY <1>16, <2>1, NothingLetsGo DEF SetReceipt
  <1>17. ASSUME NEW h \in Handlers, Hide(h)
        PROVE  Goal
    <2>1. CASE HidesAgain(h)
      BY <2>1 DEF HidesAgain
    <2>2. CASE Hides(h)
      <3>1. \A g \in Handlers: run'[g].file = run[g].file
        BY <2>2 DEF Hides
      <3> HIDE DEF NoFileIsLeftOver, IsInHand
      <3> QED
        BY <2>2, <3>1, NothingLetsGo DEF Hides
    <2> QED
      BY <1>17, <2>1, <2>2, HideSteps
  <1>18. ASSUME NEW h \in Handlers, ClearUnseen(h)
        PROVE  Goal
    BY <1>18 DEF ClearUnseen
  <1>19. ASSUME NEW h \in Handlers, Fails(h)
        PROVE  Goal
    <2>1. CASE FailsCaught(h)
      <3>1. \A g \in Handlers: run'[g].file = run[g].file
        BY <2>1 DEF FailsCaught
      <3> HIDE DEF NoFileIsLeftOver, IsInHand
      <3> QED
        BY <2>1, <3>1, NothingLetsGo DEF FailsCaught
    <2>2. CASE RollbackFails(h)
      <3>1. \A g \in Handlers: run'[g].file = run[g].file
        BY <2>2 DEF RollbackFails
      <3> HIDE DEF NoFileIsLeftOver, IsInHand
      <3> QED
        BY <2>2, <3>1, NothingLetsGo DEF RollbackFails
    <2>3. CASE FailsForGood(h)
      <3>1. CASE IsAt(h, "job")
        BY <2>3, <3>1 DEF FailsForGood
      <3>2. CASE ~IsAt(h, "job")
        <4>1. run[h].file = NoFile \/ run[h].file \notin stored
          BY <2>3, <3>2 DEF FailsForGood
        <4>2. \A g \in Handlers: g = h \/ run'[g].file = run[g].file
          BY <2>3 DEF FailsForGood
        <4> HIDE DEF NoFileIsLeftOver, IsInHand
        <4> QED
          BY <2>3, <4>1, <4>2, NothingLetsGo DEF FailsForGood
      <3> QED
        BY <3>1, <3>2
    <2> QED
      BY <1>19, <2>1, <2>2, <2>3, FailSteps
  <1>20. ASSUME NEW f \in Files, CleanUp(f)
        PROVE  Goal
    BY <1>20 DEF CleanUp
  <1>21. ASSUME NEW f \in Files, CleanupOrphanMedia(f)
        PROVE  Goal
    BY <1>21 DEF CleanupOrphanMedia
  <1>22. CASE Crash
    BY <1>22 DEF Crash
  <1>23. CASE UNCHANGED vars
    BY <1>23 DEF vars
  <1>a. TypeOK
    OBVIOUS
  <1> HIDE DEF Goal, TypeOK, IsAt, Returns, Goes, Begins, Ids, None, Idle,
               messageVars, conversationVars, fileVars, failureVars
  <1> QED
    BY Requested, <1>a, <1>1, <1>2, <1>3, <1>4, <1>5, <1>6, <1>7, <1>8, <1>9, <1>10,
       <1>11, <1>12, <1>13, <1>14, <1>15, <1>16, <1>17,
       <1>18, <1>19, <1>20, <1>21, <1>22, <1>23
       DEF Next, Progress

(***************************************************************************)
(* What the requests and the files rely on, for any number of either.      *)
(***************************************************************************)
THEOREM InvHolds == Spec => []Inv
<1>1. Init => Inv
  <2> SUFFICES ASSUME Init
               PROVE  Inv
    OBVIOUS
  <2> USE BoundsAssumption, NamesAssumption
      DEF Init, TypeOK, IsAt, Ids, None, Idle
  <2>1. TypeOK
    OBVIOUS
  <2>2. IdsAreUsedOnce
    BY DEF IdsAreUsedOnce
  <2>3. FilesAreOwned
    BY DEF FilesAreOwned
  <2>4. FailuresAreCounted /\ MediaFollowsMessage /\ NoFileIsLeftOver
    BY DEF FailuresAreCounted, MediaFollowsMessage, NoFileIsLeftOver
  <2> QED
    BY <2>1, <2>2, <2>3, <2>4 DEF Inv
<1>2. Inv /\ [Next]_vars => Inv'
  <2> SUFFICES ASSUME Inv, [Next]_vars
               PROVE  Inv'
    OBVIOUS
  <2>1. TypeOK'
    BY TypeIsInductive
  <2> QED
    BY <2>1, IdsStayUnique, FilesStayOwned, FailuresStayCounted,
       MediaStaysWithMessage, NoFileGetsLost DEF Inv
<1>3. QED
  BY <1>1, <1>2, PTL DEF Spec

(***************************************************************************)
(* A message and the document of its file say the same while the file is   *)
(* stored, whatever requests raced on them.                                *)
(***************************************************************************)
THEOREM MediaFollows == Spec => []MediaFollowsMessage
<1>1. Inv => MediaFollowsMessage
  BY DEF Inv
<1>2. QED
  BY <1>1, InvHolds, PTL

(***************************************************************************)
(* Nothing is stored that no message, request or cleanup job knows of,     *)
(* short of a restart and of a third failure.                              *)
(***************************************************************************)
THEOREM FilesAreAccountedFor == Spec => []NoFileIsLeftOver
<1>1. Inv => NoFileIsLeftOver
  BY DEF Inv
<1>2. QED
  BY <1>1, InvHolds, PTL

(***************************************************************************)
(* No step brings back a message that was taken back, or changes its text: *)
(* an edit filters on it, and no identifier is committed twice.            *)
(***************************************************************************)
THEOREM TakenBackForGood == Spec => DeletedIsFinal
<1>1. ASSUME Inv, [Next]_vars
      PROVE  TakenBackStays
  <2> SUFFICES ASSUME NEW m \in Ids, state[m] = "deleted"
               PROVE  state'[m] = "deleted" /\ text'[m] = text[m]
    BY DEF TakenBackStays
  <2> DEFINE Stays == state'[m] = "deleted" /\ text'[m] = text[m]
  <2>1. state \in [Ids -> {"none", "live", "deleted"}]
        /\ text \in [Ids -> {"sent", "edited"}]
    BY <1>1 DEF Inv, TypeOK
  <2>2. ASSUME NEW h \in Handlers, Commit(h)
        PROVE  Stays
    BY <1>1, <2>1, <2>2 DEF Commit, Inv, IdsAreUsedOnce
  <2>3. ASSUME NEW h \in Handlers, Delete(h)
        PROVE  Stays
    BY <2>1, <2>3 DEF Delete
  <2>4. ASSUME NEW h \in Handlers, Edit(h)
        PROVE  Stays
    BY <2>1, <2>4 DEF Edit
  <2>5. ASSUME UNCHANGED state, UNCHANGED text
        PROVE  Stays
    BY <2>5
  <2> HIDE DEF Stays
  <2>6. ASSUME NEW h \in Handlers, Request(h)
        PROVE  Stays
    BY <1>1, <2>5, <2>6, Requested
       DEF Inv, CreateMessage, Reads, messageVars
  <2>7. ASSUME NEW h \in Handlers, Progress(h)
        PROVE  Stays
    <3>1. CASE Upload(h) \/ BeginTransaction(h) \/ NotifyUnseen(h)
               \/ EmitCreated(h) \/ Rollback(h) \/ CreateCleanupJob(h)
      BY <2>5, <3>1 DEF Upload, BeginTransaction, NotifyUnseen, EmitCreated,
         Rollback, CreateCleanupJob, messageVars
    <3>2. CASE DeleteAborts(h) \/ React(h) \/ Unreact(h) \/ SetPin(h)
               \/ SetReceipt(h) \/ Hide(h) \/ ClearUnseen(h)
      BY <2>5, <3>2 DEF DeleteAborts, React, Unreact, SetPin, SetReceipt, Hide,
         ClearUnseen, messageVars
    <3> QED
      BY <2>2, <2>3, <2>4, <2>7, <3>1, <3>2 DEF Progress
  <2>8. ASSUME NEW h \in Handlers, Fails(h)
        PROVE  Stays
    BY <2>5, <2>8 DEF Fails, messageVars
  <2>9. ASSUME NEW f \in Files, CleanUp(f) \/ CleanupOrphanMedia(f)
        PROVE  Stays
    BY <2>5, <2>9 DEF CleanUp, CleanupOrphanMedia, messageVars
  <2>10. ASSUME Crash \/ UNCHANGED vars
         PROVE  Stays
    BY <2>5, <2>10 DEF Crash, vars, messageVars
  <2>11. Stays
    BY <1>1, <2>6, <2>7, <2>8, <2>9, <2>10 DEF Next
  <2> QED
    BY <2>11 DEF Stays
<1>2. Inv /\ [Next]_vars => [TakenBackStays]_vars
  BY <1>1
<1>3. QED
  BY <1>2, InvHolds, PTL DEF Spec, DeletedIsFinal
=============================================================================
