-------------------------- MODULE CleanupJobsProofs --------------------------
(***************************************************************************)
(* For any number of jobs, administrators, tries and failures: a job that  *)
(* is done was done, a job that is given up was tried as often as          *)
(* promised, and a settled job stays so, even when tries overlap.  If no   *)
(* try outlasts its lock, tries do not overlap and each counts once.       *)
(*                                                                         *)
(* The argument for the first part: a try writes back the count it read,   *)
(* and CountsAreCovered says that as many tries were made by then, in the  *)
(* document and in every execution that still holds an old count.          *)
(***************************************************************************)
EXTENDS CleanupJobs, TLAPS

(***************************************************************************)
(* Type correctness.                                                       *)
(***************************************************************************)
LEMMA TypeIsInductive ==
  ASSUME TypeOK, [Next]_vars
  PROVE  TypeOK'
  <2> USE ExecutionsAssumption, BoundsAssumption
      DEF TypeOK, Executions, Try, Open, Settled, Idle, IsAt, Goes, Returns,
          Runnable, StillLocked, Unlock, Faulty, Begins, docVars, queueVars
  <2>1. ASSUME NEW j \in Jobs, Create(j)
       PROVE  TypeOK'
    BY <2>1 DEF Create
  <2>2. ASSUME NEW j \in Jobs, Enqueue(j)
       PROVE  TypeOK'
    BY <2>2 DEF Enqueue
  <2>3. ASSUME NEW j \in Jobs, EnqueueFails(j)
       PROVE  TypeOK'
    BY <2>3 DEF EnqueueFails
  <2>4. ASSUME NEW j \in Jobs, Take(j)
       PROVE  TypeOK'
    <3>1. fresh' \in [Jobs -> Nat] /\ stalled' \in [Jobs -> Nat]
      BY <2>4 DEF Take
    <3>2. PICK again \in BOOLEAN:
             run' = [run EXCEPT ![Worker] =
                      [at |-> "lock", job |-> j, status |-> "PENDING",
                       retries |-> 0, again |-> again]]
      BY <2>4 DEF Take
    <3>3. run' \in [Executions -> Try \union {Idle}]
      BY <3>2
    <3> QED
      BY <2>4, <3>1, <3>3 DEF Take
  <2>5. ASSUME NEW j \in Jobs, Ignore(j)
       PROVE  TypeOK'
    BY <2>5 DEF Ignore
  <2>6. ASSUME NEW j \in Jobs, LockExpires(j)
       PROVE  TypeOK'
    BY <2>6 DEF LockExpires
  <2>7. ASSUME NEW a \in Admins, NEW j \in Jobs, AdminProcesses(a, j)
       PROVE  TypeOK'
    BY <2>7 DEF AdminProcesses
  <2>8. ASSUME NEW e \in Executions, Lock(e)
       PROVE  TypeOK'
    <3>1. run[e] \in Try
      BY <2>8 DEF Lock
    <3> QED
      BY <2>8, <3>1 DEF Lock
  <2>9. ASSUME NEW e \in Executions, NotLocked(e)
       PROVE  TypeOK'
    BY <2>9 DEF NotLocked
  <2>10. ASSUME NEW e \in Executions, Dispatch(e)
       PROVE  TypeOK'
    <3>1. run[e] \in Try
      BY <2>10 DEF Dispatch
    <3>2. run' \in [Executions -> Try \union {Idle}]
      BY <2>10, <3>1 DEF Dispatch
    <3>3. tries' \in [Jobs -> 0..(MaxRetries + 1)]
      BY <2>10, <3>1 DEF Dispatch
    <3>4. done' \in [Jobs -> BOOLEAN]
      BY <2>10, <3>1 DEF Dispatch
    <3> QED
      BY <2>10, <3>2, <3>3, <3>4 DEF Dispatch
  <2>11. ASSUME NEW e \in Executions, Complete(e)
       PROVE  TypeOK'
    BY <2>11 DEF Complete
  <2>12. ASSUME NEW e \in Executions, CompleteRefused(e)
       PROVE  TypeOK'
    BY <2>12 DEF CompleteRefused
  <2>13. ASSUME NEW e \in Executions, Retry(e)
       PROVE  TypeOK'
    BY <2>13 DEF Retry
  <2>14. ASSUME NEW e \in Executions, GiveUp(e)
       PROVE  TypeOK'
    BY <2>14 DEF GiveUp
  <2>15. ASSUME NEW e \in Executions, FailRefused(e)
       PROVE  TypeOK'
    BY <2>15 DEF FailRefused
  <2>16. ASSUME NEW e \in Executions, Fails(e)
       PROVE  TypeOK'
    BY <2>16 DEF Fails
  <2>17. CASE Requeue
    BY <2>17 DEF Requeue
  <2>18. CASE UnlockStuckJobs
    BY <2>18 DEF UnlockStuckJobs
  <2>19. CASE Crash
    BY <2>19 DEF Crash
  <2>20. CASE UNCHANGED vars
    BY <2>20 DEF vars
  <2> QED
    BY <2>1, <2>2, <2>3, <2>4, <2>5, <2>6, <2>7, <2>8, <2>9, <2>10, <2>11,
       <2>12, <2>13, <2>14, <2>15, <2>16, <2>17, <2>18, <2>19, <2>20 DEF Next,
       Progress

(***************************************************************************)
(* Every reachable state is typed: counts stay within the delay list.      *)
(***************************************************************************)
THEOREM TypeCorrect == Spec => []TypeOK
<1>1. Init => TypeOK
  BY ExecutionsAssumption, BoundsAssumption DEF Init, TypeOK, Try, Open
<1>2. QED
  BY <1>1, TypeIsInductive, PTL DEF Spec

(***************************************************************************)
(* What the executions remember is covered by tries that were made.        *)
(***************************************************************************)
LEMMA InvIsInductive ==
  ASSUME Inv, TypeOK', [Next]_vars
  PROVE  Inv'
  <2> DEFINE Facts == /\ DoneMeansDone /\ FailedAfterAllTries /\ CountsAreCovered
                      /\ OwnersHold
  <2> SUFFICES Facts'
    BY DEF Inv
  <2> USE ExecutionsAssumption, BoundsAssumption
      DEF Inv, TypeOK, Try, Executions, Open, Settled, Idle, IsAt, Goes,
         Returns,
          Runnable, StillLocked, Unlock, Faulty, Begins, docVars, queueVars,
          DoneMeansDone, FailedAfterAllTries, CountsAreCovered, OwnersHold
  <2>1. ASSUME NEW j \in Jobs, Create(j)
       PROVE  Facts'
    BY <2>1 DEF Create
  <2>2. ASSUME NEW j \in Jobs, Enqueue(j)
       PROVE  Facts'
    BY <2>2 DEF Enqueue
  <2>3. ASSUME NEW j \in Jobs, EnqueueFails(j)
       PROVE  Facts'
    BY <2>3 DEF EnqueueFails
  <2>4. ASSUME NEW j \in Jobs, Take(j)
       PROVE  Facts'
    BY <2>4 DEF Take
  <2>5. ASSUME NEW j \in Jobs, Ignore(j)
       PROVE  Facts'
    BY <2>5 DEF Ignore
  <2>6. ASSUME NEW j \in Jobs, LockExpires(j)
       PROVE  Facts'
    BY <2>6 DEF LockExpires
  <2>7. ASSUME NEW a \in Admins, NEW j \in Jobs, AdminProcesses(a, j)
       PROVE  Facts'
    BY <2>7 DEF AdminProcesses
  <2>8. ASSUME NEW e \in Executions, Lock(e)
       PROVE  Facts'
    <3>1. run[e] \in Try
      BY <2>8 DEF Lock
    <3> QED
      BY <2>8, <3>1 DEF Lock
  <2>9. ASSUME NEW e \in Executions, NotLocked(e)
       PROVE  Facts'
    BY <2>9 DEF NotLocked
  <2>10. ASSUME NEW e \in Executions, Dispatch(e)
       PROVE  Facts'
    BY <2>10 DEF Dispatch
  <2>11. ASSUME NEW e \in Executions, Complete(e)
       PROVE  Facts'
    BY <2>11 DEF Complete
  <2>12. ASSUME NEW e \in Executions, CompleteRefused(e)
       PROVE  Facts'
    BY <2>12 DEF CompleteRefused
  <2>13. ASSUME NEW e \in Executions, Retry(e)
       PROVE  Facts'
    BY <2>13 DEF Retry
  <2>14. ASSUME NEW e \in Executions, GiveUp(e)
       PROVE  Facts'
    BY <2>14 DEF GiveUp
  <2>15. ASSUME NEW e \in Executions, FailRefused(e)
       PROVE  Facts'
    BY <2>15 DEF FailRefused
  <2>16. ASSUME NEW e \in Executions, Fails(e)
       PROVE  Facts'
    BY <2>16 DEF Fails
  <2>17. CASE Requeue
    BY <2>17 DEF Requeue
  <2>18. CASE UnlockStuckJobs
    BY <2>18 DEF UnlockStuckJobs, Stuck
  <2>19. CASE Crash
    BY <2>19 DEF Crash
  <2>20. CASE UNCHANGED vars
    BY <2>20 DEF vars
  <2> QED
    BY <2>1, <2>2, <2>3, <2>4, <2>5, <2>6, <2>7, <2>8, <2>9, <2>10, <2>11,
       <2>12, <2>13, <2>14, <2>15, <2>16, <2>17, <2>18, <2>19, <2>20 DEF Next,
       Progress

(***************************************************************************)
(* The invariant: done means done, and failed means tried.                 *)
(***************************************************************************)
THEOREM InvHolds == Spec => []Inv
<1>1. Init => Inv
  BY ExecutionsAssumption, BoundsAssumption
     DEF Init, Inv, TypeOK, Try, Open, Idle, DoneMeansDone,
        FailedAfterAllTries,
        CountsAreCovered, OwnersHold
<1>2. Inv /\ [Next]_vars => Inv'
  BY TypeIsInductive, InvIsInductive DEF Inv
<1>3. QED
  BY <1>1, <1>2, PTL DEF Spec

(***************************************************************************)
(* A job that was given up had all the tries its delay list promises, also *)
(* when a slow try lost its lock and another ran beside it.                *)
(***************************************************************************)
THEOREM GivenUpIsTried == Spec => []FailedAfterAllTries
<1>1. Inv => FailedAfterAllTries
  BY DEF Inv
<1>2. QED
  BY <1>1, InvHolds, PTL

(***************************************************************************)
(* Every update of an open job filters on its being open.                  *)
(***************************************************************************)
LEMMA StepsKeepSettled ==
  ASSUME TypeOK, [Next]_vars
  PROVE  StaysSettled
  <2> USE DEF TypeOK, Executions, Try, Open, Settled, Idle, IsAt, Goes,
     Returns,
          Runnable, StillLocked, Unlock, Begins, docVars, StaysSettled
  <2>1. ASSUME NEW j \in Jobs, Create(j)
       PROVE  StaysSettled
    BY <2>1 DEF Create
  <2>2. ASSUME NEW j \in Jobs, Enqueue(j)
       PROVE  StaysSettled
    BY <2>2 DEF Enqueue
  <2>3. ASSUME NEW j \in Jobs, EnqueueFails(j)
       PROVE  StaysSettled
    BY <2>3 DEF EnqueueFails
  <2>4. ASSUME NEW j \in Jobs, Take(j)
       PROVE  StaysSettled
    BY <2>4 DEF Take
  <2>5. ASSUME NEW j \in Jobs, Ignore(j)
       PROVE  StaysSettled
    BY <2>5 DEF Ignore
  <2>6. ASSUME NEW j \in Jobs, LockExpires(j)
       PROVE  StaysSettled
    BY <2>6 DEF LockExpires
  <2>7. ASSUME NEW a \in Admins, NEW j \in Jobs, AdminProcesses(a, j)
       PROVE  StaysSettled
    BY <2>7 DEF AdminProcesses
  <2>8. ASSUME NEW e \in Executions, Lock(e)
       PROVE  StaysSettled
    BY <2>8 DEF Lock
  <2>9. ASSUME NEW e \in Executions, NotLocked(e)
       PROVE  StaysSettled
    BY <2>9 DEF NotLocked
  <2>10. ASSUME NEW e \in Executions, Dispatch(e)
       PROVE  StaysSettled
    BY <2>10 DEF Dispatch
  <2>11. ASSUME NEW e \in Executions, Complete(e)
       PROVE  StaysSettled
    BY <2>11 DEF Complete
  <2>12. ASSUME NEW e \in Executions, CompleteRefused(e)
       PROVE  StaysSettled
    BY <2>12 DEF CompleteRefused
  <2>13. ASSUME NEW e \in Executions, Retry(e)
       PROVE  StaysSettled
    BY <2>13 DEF Retry
  <2>14. ASSUME NEW e \in Executions, GiveUp(e)
       PROVE  StaysSettled
    BY <2>14 DEF GiveUp
  <2>15. ASSUME NEW e \in Executions, FailRefused(e)
       PROVE  StaysSettled
    BY <2>15 DEF FailRefused
  <2>16. ASSUME NEW e \in Executions, Fails(e)
       PROVE  StaysSettled
    BY <2>16 DEF Fails
  <2>17. CASE Requeue
    BY <2>17 DEF Requeue
  <2>18. CASE UnlockStuckJobs
    BY <2>18 DEF UnlockStuckJobs
  <2>19. CASE Crash
    BY <2>19 DEF Crash
  <2>20. CASE UNCHANGED vars
    BY <2>20 DEF vars
  <2> QED
    BY <2>1, <2>2, <2>3, <2>4, <2>5, <2>6, <2>7, <2>8, <2>9, <2>10, <2>11,
       <2>12, <2>13, <2>14, <2>15, <2>16, <2>17, <2>18, <2>19, <2>20 DEF Next,
       Progress

(***************************************************************************)
(* A settled job is never opened again.                                    *)
(***************************************************************************)
THEOREM NeverReopened == Spec => SettledStays
<1>1. TypeOK /\ [Next]_vars => [StaysSettled]_vars
  BY StepsKeepSettled
<1>2. QED
  BY <1>1, TypeCorrect, PTL DEF Spec, SettledStays

(***************************************************************************)
(* The lock of a job whose tries do not outlast it.                        *)
(***************************************************************************)
LEMMA LockIsInductive ==
  ASSUME TypeOK, TypeOK', LockProtects, [Next]_vars
  PROVE  LockProtects'
  <2> USE ExecutionsAssumption
      DEF TypeOK, Executions, Try, Open, Settled, Idle, IsAt, Goes, Returns,
          Runnable, StillLocked, Unlock, Begins, docVars, Works, LockProtects
  <2>1. ASSUME NEW j \in Jobs, Create(j)
       PROVE  LockProtects'
    BY <2>1 DEF Create
  <2>2. ASSUME NEW j \in Jobs, Enqueue(j)
       PROVE  LockProtects'
    BY <2>2 DEF Enqueue
  <2>3. ASSUME NEW j \in Jobs, EnqueueFails(j)
       PROVE  LockProtects'
    BY <2>3 DEF EnqueueFails
  <2>4. ASSUME NEW j \in Jobs, Take(j)
       PROVE  LockProtects'
    BY <2>4 DEF Take
  <2>5. ASSUME NEW j \in Jobs, Ignore(j)
       PROVE  LockProtects'
    BY <2>5 DEF Ignore
  <2>6. ASSUME NEW j \in Jobs, LockExpires(j)
       PROVE  LockProtects'
    BY <2>6 DEF LockExpires
  <2>7. ASSUME NEW a \in Admins, NEW j \in Jobs, AdminProcesses(a, j)
       PROVE  LockProtects'
    BY <2>7 DEF AdminProcesses
  <2>8. ASSUME NEW e \in Executions, Lock(e)
       PROVE  LockProtects'
    <3>1. run[e] \in Try
      BY <2>8 DEF Lock
    <3> QED
      BY <2>8, <3>1 DEF Lock
  <2>9. ASSUME NEW e \in Executions, NotLocked(e)
       PROVE  LockProtects'
    BY <2>9 DEF NotLocked
  <2>10. ASSUME NEW e \in Executions, Dispatch(e)
       PROVE  LockProtects'
    BY <2>10 DEF Dispatch
  <2>11. ASSUME NEW e \in Executions, Complete(e)
       PROVE  LockProtects'
    BY <2>11 DEF Complete
  <2>12. ASSUME NEW e \in Executions, CompleteRefused(e)
       PROVE  LockProtects'
    BY <2>12 DEF CompleteRefused
  <2>13. ASSUME NEW e \in Executions, Retry(e)
       PROVE  LockProtects'
    BY <2>13 DEF Retry
  <2>14. ASSUME NEW e \in Executions, GiveUp(e)
       PROVE  LockProtects'
    BY <2>14 DEF GiveUp
  <2>15. ASSUME NEW e \in Executions, FailRefused(e)
       PROVE  LockProtects'
    BY <2>15 DEF FailRefused
  <2>16. ASSUME NEW e \in Executions, Fails(e)
       PROVE  LockProtects'
    BY <2>16 DEF Fails
  <2>17. CASE Requeue
    BY <2>17 DEF Requeue
  <2>18. CASE UnlockStuckJobs
    BY <2>18 DEF UnlockStuckJobs, Stuck
  <2>19. CASE Crash
    BY <2>19 DEF Crash
  <2>20. CASE UNCHANGED vars
    BY <2>20 DEF vars
  <2> QED
    BY <2>1, <2>2, <2>3, <2>4, <2>5, <2>6, <2>7, <2>8, <2>9, <2>10, <2>11,
       <2>12, <2>13, <2>14, <2>15, <2>16, <2>17, <2>18, <2>19, <2>20 DEF Next,
       Progress

(***************************************************************************)
(* One execution at a time works on a job that is not slow.                *)
(***************************************************************************)
THEOREM LockIsEnough == Spec => []LockProtects
<1>1. Init => LockProtects
  BY DEF Init, LockProtects, Works, Idle
<1>2. TypeOK /\ TypeOK' /\ LockProtects /\ [Next]_vars => LockProtects'
  BY LockIsInductive
<1>3. QED
  BY <1>1, <1>2, TypeCorrect, PTL DEF Spec

(***************************************************************************)
(* Who ends a try writes the count it read plus one, and under the lock    *)
(* that count is still the one of the document.                            *)
(***************************************************************************)
LEMMA StepsCountOnce ==
  ASSUME TypeOK, LockProtects, [Next]_vars
  PROVE  RetriesGrow
  <2> USE ExecutionsAssumption, BoundsAssumption
      DEF TypeOK, Executions, Try, Open, Idle, IsAt, Goes, Returns,
          Unlock, Begins, docVars, Works, LockProtects, RetriesGrow
  <2>1. ASSUME NEW j \in Jobs, Create(j)
       PROVE  RetriesGrow
    BY <2>1 DEF Create
  <2>2. ASSUME NEW j \in Jobs, Enqueue(j)
       PROVE  RetriesGrow
    BY <2>2 DEF Enqueue
  <2>3. ASSUME NEW j \in Jobs, EnqueueFails(j)
       PROVE  RetriesGrow
    BY <2>3 DEF EnqueueFails
  <2>4. ASSUME NEW j \in Jobs, Take(j)
       PROVE  RetriesGrow
    BY <2>4 DEF Take
  <2>5. ASSUME NEW j \in Jobs, Ignore(j)
       PROVE  RetriesGrow
    BY <2>5 DEF Ignore
  <2>6. ASSUME NEW j \in Jobs, LockExpires(j)
       PROVE  RetriesGrow
    BY <2>6 DEF LockExpires
  <2>7. ASSUME NEW a \in Admins, NEW j \in Jobs, AdminProcesses(a, j)
       PROVE  RetriesGrow
    BY <2>7 DEF AdminProcesses
  <2>8. ASSUME NEW e \in Executions, Lock(e)
       PROVE  RetriesGrow
    BY <2>8 DEF Lock
  <2>9. ASSUME NEW e \in Executions, NotLocked(e)
       PROVE  RetriesGrow
    BY <2>9 DEF NotLocked
  <2>10. ASSUME NEW e \in Executions, Dispatch(e)
       PROVE  RetriesGrow
    BY <2>10 DEF Dispatch
  <2>11. ASSUME NEW e \in Executions, Complete(e)
       PROVE  RetriesGrow
    BY <2>11 DEF Complete
  <2>12. ASSUME NEW e \in Executions, CompleteRefused(e)
       PROVE  RetriesGrow
    BY <2>12 DEF CompleteRefused
  <2>13. ASSUME NEW e \in Executions, Retry(e)
       PROVE  RetriesGrow
    BY <2>13 DEF Retry
  <2>14. ASSUME NEW e \in Executions, GiveUp(e)
       PROVE  RetriesGrow
    BY <2>14 DEF GiveUp
  <2>15. ASSUME NEW e \in Executions, FailRefused(e)
       PROVE  RetriesGrow
    BY <2>15 DEF FailRefused
  <2>16. ASSUME NEW e \in Executions, Fails(e)
       PROVE  RetriesGrow
    BY <2>16 DEF Fails
  <2>17. CASE Requeue
    BY <2>17 DEF Requeue
  <2>18. CASE UnlockStuckJobs
    BY <2>18 DEF UnlockStuckJobs
  <2>19. CASE Crash
    BY <2>19 DEF Crash
  <2>20. CASE UNCHANGED vars
    BY <2>20 DEF vars
  <2> QED
    BY <2>1, <2>2, <2>3, <2>4, <2>5, <2>6, <2>7, <2>8, <2>9, <2>10, <2>11,
       <2>12, <2>13, <2>14, <2>15, <2>16, <2>17, <2>18, <2>19, <2>20 DEF Next,
       Progress

(***************************************************************************)
(* A try of such a job is neither counted twice nor forgotten.             *)
(***************************************************************************)
THEOREM EveryTryCountsOnce == Spec => RetriesOnlyGrow
<1>1. TypeOK /\ LockProtects /\ [Next]_vars => [RetriesGrow]_vars
  BY StepsCountOnce
<1>2. QED
  BY <1>1, TypeCorrect, LockIsEnough, PTL DEF Spec, RetriesOnlyGrow

(***************************************************************************)
(* Each step of a job whose tries do not outlast its lock is a step of the *)
(* loop, or none: its owner is the execution that works on it, so what ends *)
(* a try ends the try that is under way, under the count it has read.      *)
(***************************************************************************)
LEMMA StepsAreOfTheLoop ==
  ASSUME Inv, TypeOK', LockProtects, [Next]_vars
  PROVE  [Loop!Next]_(Loop!vars)
  <2> DEFINE Step == [Loop!Next]_(Loop!vars)
  <2> SUFFICES Step
    OBVIOUS
  <2>st. ASSUME /\ \A j \in Lasting: status'[j] = status[j] /\ retries'[j] = retries[j]
                /\ \A j \in Lasting: done'[j] = done[j]
                /\ \A j \in Lasting: owner'[j] # NoOne => owner[j] # NoOne
         PROVE  Step
    BY <2>st DEF Loop!Next, Loop!Abandon, Loop!vars
  <2>las. ASSUME NEW j \in Lasting,
                 Loop!Create(j) \/ Loop!Begin(j) \/ Loop!Act(j) \/ Loop!Ignore(j)
                   \/ Loop!Succeed(j) \/ Loop!TryAgain(j) \/ Loop!GiveUp(j)
          PROVE  Step
    BY <2>las DEF Loop!Next
  <2>jobs. Lasting \subseteq Jobs
    BY DEF Lasting
  <2>types. /\ status \in [Jobs -> {"none"} \union Open \union Settled]
            /\ retries \in [Jobs -> 0..MaxRetries]
            /\ owner \in [Jobs -> Executions \union {NoOne}]
            /\ done \in [Jobs -> BOOLEAN]
            /\ NoOne \notin Executions
    BY ExecutionsAssumption DEF Inv, TypeOK, Executions
  <2>owns. ASSUME NEW e \in Executions, NEW j \in Lasting, Works(e, j)
           PROVE  /\ owner[j] = e /\ retries[j] = run[e].retries
                  /\ j \in {i \in Lasting: owner[i] # NoOne}
    BY <2>owns, <2>jobs, <2>types DEF LockProtects, Lasting
  <2> USE ExecutionsAssumption
      DEF TypeOK, Executions, Try, Open, Settled, Idle, IsAt, Goes, Returns,
          Runnable, StillLocked, Unlock, Begins, docVars
  <2> HIDE DEF Step
  <2>1. ASSUME NEW j \in Jobs, Create(j)
       PROVE  Step
    <3>1. CASE j \in Lasting
      <4>1. Loop!Create(j)
        BY <2>1, <2>types, <2>jobs, <3>1 DEF Create, Loop!Create
      <4> QED
        BY <4>1, <2>las, <3>1
    <3>2. CASE j \notin Lasting
      BY <2>1, <2>st, <3>2 DEF Create
    <3> QED
      BY <3>1, <3>2
  <2>2. ASSUME NEW j \in Jobs, Enqueue(j)
       PROVE  Step
    BY <2>2, <2>st DEF Enqueue
  <2>3. ASSUME NEW j \in Jobs, EnqueueFails(j)
       PROVE  Step
    BY <2>3, <2>st DEF EnqueueFails
  <2>4. ASSUME NEW j \in Jobs, Take(j)
       PROVE  Step
    BY <2>4, <2>st DEF Take
  <2>5. ASSUME NEW j \in Jobs, Ignore(j)
       PROVE  Step
    <3>1. CASE j \in Lasting
      <4>1. owner[j] = NoOne
        BY <2>5 DEF Ignore, Inv, OwnersHold
      <4>2. Loop!Ignore(j)
        BY <2>5, <2>types, <2>jobs, <3>1, <4>1 DEF Ignore, Loop!Ignore, Loop!Waits
      <4> QED
        BY <4>2, <2>las, <3>1
    <3>2. CASE j \notin Lasting
      BY <2>5, <2>st, <3>2 DEF Ignore
    <3> QED
      BY <3>1, <3>2
  <2>6. ASSUME NEW j \in Jobs, LockExpires(j)
       PROVE  Step
    BY <2>6, <2>st DEF LockExpires
  <2>7. ASSUME NEW a \in Admins, NEW j \in Jobs, AdminProcesses(a, j)
       PROVE  Step
    BY <2>7, <2>st DEF AdminProcesses
  <2>8. ASSUME NEW e \in Executions, Lock(e)
       PROVE  Step
    <3>j. PICK j \in Jobs: j = run[e].job
      BY <2>8 DEF Lock, Inv
    <3>1. CASE j \in Lasting
      <4>1. owner[j] = NoOne
        BY <2>8, <3>j, <3>j DEF Lock, Inv, OwnersHold
      <4>2. Loop!Begin(j)
        BY <2>8, <3>j, <2>types, <2>jobs, <3>1, <4>1 DEF Lock, Loop!Begin, Loop!Waits
      <4> QED
        BY <4>2, <2>las, <3>1
    <3>2. CASE j \notin Lasting
      BY <2>8, <3>j, <2>st, <3>2 DEF Lock
    <3> QED
      BY <3>1, <3>2
  <2>9. ASSUME NEW e \in Executions, NotLocked(e)
       PROVE  Step
    BY <2>9, <2>st DEF NotLocked
  <2>10. ASSUME NEW e \in Executions, Dispatch(e)
       PROVE  Step
    <3>j. PICK j \in Jobs: j = run[e].job
      BY <2>10 DEF Dispatch, Inv
    <3>same. status' = status /\ retries' = retries /\ owner' = owner
      BY <2>10 DEF Dispatch
    <3>eff. done' = done \/ done' = [done EXCEPT ![j] = TRUE]
      BY <2>10, <3>j DEF Dispatch
    <3>1. CASE j \in Lasting
      <4>1. j \in {i \in Lasting: owner[i] # NoOne}
        BY <2>10, <3>j, <2>owns, <3>1 DEF Dispatch, Works
      <4>2. CASE done' = done
        BY <2>10, <3>j, <2>st, <4>2 DEF Dispatch
      <4>3. CASE done' = [done EXCEPT ![j] = TRUE]
        <5>1. Loop!Act(j)
          BY <3>same, <2>types, <2>jobs, <3>1, <4>1, <4>3 DEF Loop!Act
        <5> QED
          BY <5>1, <2>las, <3>1
      <4> QED
        BY <3>eff, <4>2, <4>3
    <3>2. CASE j \notin Lasting
      BY <3>same, <3>j, <3>eff, <2>types, <2>jobs, <2>st, <3>2
    <3> QED
      BY <3>1, <3>2
  <2>11. ASSUME NEW e \in Executions, Complete(e)
       PROVE  Step
    <3>j. PICK j \in Jobs: j = run[e].job
      BY <2>11 DEF Complete, Inv
    <3>1. CASE j \in Lasting
      <4>0. /\ owner[j] = e /\ retries[j] = run[e].retries
            /\ j \in {i \in Lasting: owner[i] # NoOne}
        BY <2>11, <3>j, <2>owns, <3>1 DEF Complete, Works
      <4>1. Loop!Ends(j, "DONE")
        BY <2>11, <3>j, <2>types, <2>jobs, <3>1, <4>0 DEF Complete, Loop!Ends
      <4>2. done[j]
        BY <2>11, <3>j, <2>jobs, <3>1 DEF Complete, Inv, CountsAreCovered
      <4>3. Loop!Succeed(j)
        BY <2>11, <3>j, <2>types, <2>jobs, <3>1, <4>1, <4>2 DEF Complete, Loop!Succeed
      <4> QED
        BY <4>3, <2>las, <3>1
    <3>2. CASE j \notin Lasting
      BY <2>11, <3>j, <2>st, <3>2 DEF Complete
    <3> QED
      BY <3>1, <3>2
  <2>12. ASSUME NEW e \in Executions, CompleteRefused(e)
       PROVE  Step
    BY <2>12, <2>st DEF CompleteRefused
  <2>13. ASSUME NEW e \in Executions, Retry(e)
       PROVE  Step
    <3>j. PICK j \in Jobs: j = run[e].job
      BY <2>13 DEF Retry, Inv
    <3>1. CASE j \in Lasting
      <4>0. /\ owner[j] = e /\ retries[j] = run[e].retries
            /\ j \in {i \in Lasting: owner[i] # NoOne}
        BY <2>13, <3>j, <2>owns, <3>1 DEF Retry, Works
      <4>1. Loop!Ends(j, "RETRY")
        BY <2>13, <3>j, <2>types, <2>jobs, <3>1, <4>0 DEF Retry, Loop!Ends
      <4>3. Loop!TryAgain(j)
        BY <2>13, <3>j, <2>types, <2>jobs, <3>1, <4>0, <4>1 DEF Retry, Loop!TryAgain
      <4> QED
        BY <4>3, <2>las, <3>1
    <3>2. CASE j \notin Lasting
      BY <2>13, <3>j, <2>st, <3>2 DEF Retry
    <3> QED
      BY <3>1, <3>2
  <2>14. ASSUME NEW e \in Executions, GiveUp(e)
       PROVE  Step
    <3>j. PICK j \in Jobs: j = run[e].job
      BY <2>14 DEF GiveUp, Inv
    <3>1. CASE j \in Lasting
      <4>0. /\ owner[j] = e /\ retries[j] = run[e].retries
            /\ j \in {i \in Lasting: owner[i] # NoOne}
        BY <2>14, <3>j, <2>owns, <3>1 DEF GiveUp, Works
      <4>1. Loop!Ends(j, "FAILED")
        BY <2>14, <3>j, <2>types, <2>jobs, <3>1, <4>0 DEF GiveUp, Loop!Ends
      <4>3. Loop!GiveUp(j)
        BY <2>14, <3>j, <2>types, <2>jobs, <3>1, <4>0, <4>1 DEF GiveUp, Loop!GiveUp
      <4> QED
        BY <4>3, <2>las, <3>1
    <3>2. CASE j \notin Lasting
      BY <2>14, <3>j, <2>st, <3>2 DEF GiveUp
    <3> QED
      BY <3>1, <3>2
  <2>15. ASSUME NEW e \in Executions, FailRefused(e)
       PROVE  Step
    BY <2>15, <2>st DEF FailRefused
  <2>16. ASSUME NEW e \in Executions, Fails(e)
       PROVE  Step
    <3>1. \A j \in Lasting: owner'[j] # NoOne => owner[j] # NoOne
      <4>1. CASE IsAt(e, "complete")
        BY <2>16, <4>1 DEF Fails
      <4>2. CASE ~IsAt(e, "complete")
        BY <2>16, <2>jobs, <4>2 DEF Fails
      <4> QED
        BY <4>1, <4>2
    <3> QED
      BY <2>16, <2>st, <3>1 DEF Fails
  <2>17. CASE Requeue
    BY <2>17, <2>st DEF Requeue
  <2>18. CASE UnlockStuckJobs
    BY <2>18, <2>st DEF UnlockStuckJobs
  <2>19. CASE Crash
    <3>1. \A j \in Lasting: owner'[j] = NoOne
      BY <2>19, <2>jobs DEF Crash
    <3> QED
      BY <2>19, <2>st, <3>1 DEF Crash
  <2>20. CASE UNCHANGED vars
    BY <2>20, <2>st DEF vars
  <2> QED
    BY <2>1, <2>2, <2>3, <2>4, <2>5, <2>6, <2>7, <2>8, <2>9, <2>10, <2>11, <2>12, <2>13, <2>14, <2>15, <2>16, <2>17, <2>18, <2>19, <2>20 DEF Next, Progress

(***************************************************************************)
(* The jobs whose tries do not outlast their locks are loops of tries.     *)
(***************************************************************************)
THEOREM JobsAreLoops == Spec => TriesAreALoop
<1>1. Init => Loop!Init
  BY DEF Init, Loop!Init, Lasting
<1>2. Inv /\ TypeOK' /\ LockProtects /\ [Next]_vars => [Loop!Next]_(Loop!vars)
  BY StepsAreOfTheLoop
<1>3. QED
  BY <1>1, <1>2, TypeCorrect, InvHolds, LockIsEnough, PTL
     DEF Spec, TriesAreALoop, Loop!Spec
=============================================================================
