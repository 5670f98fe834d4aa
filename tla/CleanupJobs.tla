----------------------------- MODULE CleanupJobs -----------------------------
(***************************************************************************)
(* The clean-up jobs: side effects (deleting files, revoking sessions,     *)
(* removing Redis keys) that failed once and are tried again.  A job is a  *)
(* MongoDB document, and an entry of a BullMQ queue makes the worker of    *)
(* the process try it; an administrator may also try it, or set it aside.  *)
(*                                                                         *)
(* Whoever tries a job locks its document for LOCK_DURATION_MS; a try of a *)
(* slow job may outlast its lock.  What a job does is abstracted to        *)
(* whether it is done: a try that throws may have done it or not.  The     *)
(* delay of a queue entry is left out: an entry is taken at some point.    *)
(***************************************************************************)
EXTENDS Naturals

CONSTANTS
    Jobs,
    Worker,         \* the BullMQ worker, which takes one entry at a time
    Admins,         \* requests of administrators in flight at a time
    NoJob, NoOne,
    MaxRetries,     \* length of the list of retry delays of the action
    SlowJobs,       \* those whose tries may take longer than the lock lasts
    MaxFaults       \* bound on MongoDB and Redis errors and on crashes

ASSUME ExecutionsAssumption ==
    /\ Worker \notin Admins
    /\ NoOne \notin Admins \union {Worker}
    /\ NoJob \notin Jobs
ASSUME BoundsAssumption ==
    /\ MaxRetries \in Nat
    /\ MaxFaults \in Nat
    /\ SlowJobs \subseteq Jobs

Executions == Admins \union {Worker}
Open == {"PENDING", "RETRY"}
Settled == {"DONE", "FAILED", "IGNORED"}

VARIABLES
    status, retries, lock,  \* MongoDB: the documents
    fresh, stalled,         \* Redis: entries per job that the worker has to take,
                            \*   never taken, and left over from a crash
    adding,                 \* jobs whose creator has yet to add the entry
    run,                    \* the executions of processCleanupJob
    done,                   \* whether the side effect of a job has happened
    tries,                  \* history: how often a job was dispatched, counted
                            \*   up to MaxRetries + 1
    owner,                  \* history: who locked a job
    faults

docVars == <<status, retries, lock, owner>>
queueVars == <<fresh, stalled, adding>>
vars == <<docVars, queueVars, run, done, tries, faults>>

Idle == [at |-> "idle", job |-> NoJob, status |-> "PENDING", retries |-> 0,
         again |-> FALSE]

Try == [at: {"lock", "dispatch", "complete", "fail", "requeue"},
        job: Jobs, status: Open, retries: 0..MaxRetries, again: BOOLEAN]

TypeOK ==
    /\ status \in [Jobs -> {"none"} \union Open \union Settled]
    /\ retries \in [Jobs -> 0..MaxRetries]
    /\ lock \in [Jobs -> {"none", "held", "expired"}]
    /\ fresh \in [Jobs -> Nat]
    /\ stalled \in [Jobs -> Nat]
    /\ adding \in SUBSET Jobs
    /\ run \in [Executions -> Try \union {Idle}]
    /\ done \in [Jobs -> BOOLEAN]
    /\ tries \in [Jobs -> 0..(MaxRetries + 1)]
    /\ owner \in [Jobs -> Executions \union {NoOne}]
    /\ faults \in 0..MaxFaults

Init ==
    /\ status = [j \in Jobs |-> "none"]
    /\ retries = [j \in Jobs |-> 0]
    /\ lock = [j \in Jobs |-> "none"]
    /\ fresh = [j \in Jobs |-> 0]
    /\ stalled = [j \in Jobs |-> 0]
    /\ adding = {}
    /\ run = [e \in Executions |-> Idle]
    /\ done = [j \in Jobs |-> FALSE]
    /\ tries = [j \in Jobs |-> 0]
    /\ owner = [j \in Jobs |-> NoOne]
    /\ faults = 0

-----------------------------------------------------------------------------
(* Helpers.                                                                *)

IsAt(e, stop) == run[e].at = stop
Goes(e, stop) == run' = [run EXCEPT ![e].at = stop]
Returns(e) == run' = [run EXCEPT ![e] = Idle]

Runnable(j) == status[j] \in Open /\ lock[j] # "held"

\* The filter of every update that ends a try: the status that was read, and
\* some lock, not necessarily this one.
StillLocked(e) ==
    LET j == run[e].job IN status[j] = run[e].status /\ lock[j] = "held"

Unlock(j) ==
    /\ lock' = [lock EXCEPT ![j] = "none"]
    /\ owner' = [owner EXCEPT ![j] = NoOne]

Faulty == faults < MaxFaults /\ faults' = faults + 1

-----------------------------------------------------------------------------
(* createCleanupJob: the document, then the queue entry.                   *)

Create(j) ==
    /\ status[j] = "none"
    /\ status' = [status EXCEPT ![j] = "PENDING"]
    /\ adding' = adding \union {j}
    /\ UNCHANGED <<retries, lock, owner, fresh, stalled, run, done, tries,
                   faults>>

Enqueue(j) ==
    /\ j \in adding
    /\ adding' = adding \ {j}
    /\ fresh' = [fresh EXCEPT ![j] = @ + 1]
    /\ UNCHANGED <<docVars, stalled, run, done, tries, faults>>

EnqueueFails(j) ==
    /\ j \in adding
    /\ Faulty
    /\ adding' = adding \ {j}
    /\ UNCHANGED <<docVars, fresh, stalled, run, done, tries>>

-----------------------------------------------------------------------------
(* processCleanupJob, for the worker and for an administrator.             *)

Begins(e, j, again) ==
    /\ IsAt(e, "idle")
    /\ run' = [run EXCEPT ![e] =
                 [at |-> "lock", job |-> j, status |-> "PENDING",
                  retries |-> 0, again |-> again]]
    /\ UNCHANGED <<docVars, adding, done, tries, faults>>

Take(j) ==
    \/ /\ fresh[j] > 0
       /\ fresh' = [fresh EXCEPT ![j] = @ - 1]
       /\ Begins(Worker, j, FALSE)
       /\ UNCHANGED stalled
    \/ /\ stalled[j] > 0
       /\ stalled' = [stalled EXCEPT ![j] = @ - 1]
       /\ Begins(Worker, j, TRUE)
       /\ UNCHANGED fresh

AdminProcesses(a, j) ==
    /\ status[j] # "none"
    /\ Begins(a, j, FALSE)
    /\ UNCHANGED <<fresh, stalled>>

\* Mutant: the filter of the lock forgets the lock.
Lock_Shared(e) ==
    LET j == run[e].job IN
    /\ IsAt(e, "lock")
    /\ status[j] \in Open
    /\ lock' = [lock EXCEPT ![j] = "held"]
    /\ owner' = [owner EXCEPT ![j] = e]
    /\ run' = [run EXCEPT ![e] =
                 [at |-> "dispatch", job |-> j, status |-> status[j],
                  retries |-> retries[j], again |-> run[e].again]]
    /\ UNCHANGED <<status, retries, queueVars, done, tries, faults>>

Lock(e) ==
    LET j == run[e].job IN
    /\ IsAt(e, "lock")
    /\ Runnable(j)
    /\ lock' = [lock EXCEPT ![j] = "held"]
    /\ owner' = [owner EXCEPT ![j] = e]
    /\ run' = [run EXCEPT ![e] =
                 [at |-> "dispatch", job |-> j, status |-> status[j],
                  retries |-> retries[j], again |-> run[e].again]]
    /\ UNCHANGED <<status, retries, queueVars, done, tries, faults>>

\* The exception makes BullMQ drop the entry.
NotLocked(e) ==
    /\ IsAt(e, "lock")
    /\ ~Runnable(run[e].job)
    /\ Returns(e)
    /\ UNCHANGED <<docVars, queueVars, done, tries, faults>>

\* Mutant: the handler swallows the error of the side effect.
Dispatch_Swallows(e) ==
    LET j == run[e].job IN
    /\ IsAt(e, "dispatch")
    /\ tries' = [tries EXCEPT ![j] = IF @ > MaxRetries THEN @ ELSE @ + 1]
    /\ done' \in {done, [done EXCEPT ![j] = TRUE]}
    /\ Goes(e, "complete")
    /\ UNCHANGED <<docVars, queueVars, faults>>

Dispatch(e) ==
    LET j == run[e].job IN
    /\ IsAt(e, "dispatch")
    /\ tries' = [tries EXCEPT ![j] = IF @ > MaxRetries THEN @ ELSE @ + 1]
    /\ \/ done' = [done EXCEPT ![j] = TRUE] /\ Goes(e, "complete")
       \/ Goes(e, "fail") /\ done' \in {done, [done EXCEPT ![j] = TRUE]}
    /\ UNCHANGED <<docVars, queueVars, faults>>

Complete(e) ==
    LET j == run[e].job IN
    /\ IsAt(e, "complete")
    /\ StillLocked(e)
    /\ status' = [status EXCEPT ![j] = "DONE"]
    /\ Unlock(j)
    /\ Returns(e)
    /\ UNCHANGED <<retries, queueVars, done, tries, faults>>

\* handleCompletedJob throws inside the try: the catch takes it for a failure.
CompleteRefused(e) ==
    /\ IsAt(e, "complete")
    /\ ~StillLocked(e)
    /\ Goes(e, "fail")
    /\ UNCHANGED <<docVars, queueVars, done, tries, faults>>

\* Mutant: the update filters on the id alone.
Retry_ById(e) ==
    LET j == run[e].job IN
    /\ IsAt(e, "fail")
    /\ run[e].retries < MaxRetries
    /\ status' = [status EXCEPT ![j] = "RETRY"]
    /\ retries' = [retries EXCEPT ![j] = run[e].retries + 1]
    /\ Unlock(j)
    /\ IF e = Worker THEN Goes(e, "requeue") ELSE Returns(e)
    /\ UNCHANGED <<queueVars, done, tries, faults>>

\* Mutant: the worker forgets to queue the next try.
Retry_NotQueued(e) ==
    LET j == run[e].job IN
    /\ IsAt(e, "fail")
    /\ run[e].retries < MaxRetries
    /\ StillLocked(e)
    /\ status' = [status EXCEPT ![j] = "RETRY"]
    /\ retries' = [retries EXCEPT ![j] = run[e].retries + 1]
    /\ Unlock(j)
    /\ Returns(e)
    /\ UNCHANGED <<queueVars, done, tries, faults>>

\* Only the worker queues the next try.
Retry(e) ==
    LET j == run[e].job IN
    /\ IsAt(e, "fail")
    /\ run[e].retries < MaxRetries
    /\ StillLocked(e)
    /\ status' = [status EXCEPT ![j] = "RETRY"]
    /\ retries' = [retries EXCEPT ![j] = run[e].retries + 1]
    /\ Unlock(j)
    /\ IF e = Worker THEN Goes(e, "requeue") ELSE Returns(e)
    /\ UNCHANGED <<queueVars, done, tries, faults>>

\* Mutant: the last try is not made.
GiveUp_TooSoon(e) ==
    LET j == run[e].job IN
    /\ IsAt(e, "fail")
    /\ run[e].retries + 1 >= MaxRetries
    /\ StillLocked(e)
    /\ status' = [status EXCEPT ![j] = "FAILED"]
    /\ retries' = [retries EXCEPT ![j] = MaxRetries]
    /\ Unlock(j)
    /\ Returns(e)
    /\ UNCHANGED <<queueVars, done, tries, faults>>

GiveUp(e) ==
    LET j == run[e].job IN
    /\ IsAt(e, "fail")
    /\ run[e].retries = MaxRetries
    /\ StillLocked(e)
    /\ status' = [status EXCEPT ![j] = "FAILED"]
    /\ retries' = [retries EXCEPT ![j] = MaxRetries]
    /\ Unlock(j)
    /\ Returns(e)
    /\ UNCHANGED <<queueVars, done, tries, faults>>

FailRefused(e) ==
    /\ IsAt(e, "fail")
    /\ ~StillLocked(e)
    /\ Returns(e)
    /\ UNCHANGED <<docVars, queueVars, done, tries, faults>>

Requeue ==
    /\ IsAt(Worker, "requeue")
    /\ fresh' = [fresh EXCEPT ![run[Worker].job] = @ + 1]
    /\ Returns(Worker)
    /\ UNCHANGED <<docVars, stalled, adding, done, tries, faults>>

-----------------------------------------------------------------------------
(* The other operations on a document.                                     *)

\* Mutant: a job is set aside while it is locked.
Ignore_Locked(j) ==
    /\ status[j] \in Open
    /\ status' = [status EXCEPT ![j] = "IGNORED"]
    /\ Unlock(j)
    /\ UNCHANGED <<retries, queueVars, run, done, tries, faults>>

Ignore(j) ==
    /\ Runnable(j)
    /\ status' = [status EXCEPT ![j] = "IGNORED"]
    /\ Unlock(j)
    /\ UNCHANGED <<retries, queueVars, run, done, tries, faults>>

Stuck == {j \in Jobs: lock[j] = "expired" /\ status[j] \in Open}

UnlockStuckJobs ==
    /\ Stuck # {}
    /\ lock' = [j \in Jobs |-> IF j \in Stuck THEN "none" ELSE lock[j]]
    /\ UNCHANGED <<status, retries, owner, queueVars, run, done, tries, faults>>

Works(e, j) == run[e].job = j /\ run[e].at \in {"dispatch", "complete", "fail"}

LockExpires(j) ==
    /\ lock[j] = "held"
    /\ j \in SlowJobs \/ owner[j] = NoOne
    /\ lock' = [lock EXCEPT ![j] = "expired"]
    /\ owner' = [owner EXCEPT ![j] = NoOne]
    /\ UNCHANGED <<status, retries, queueVars, run, done, tries, faults>>

-----------------------------------------------------------------------------
(* Failures.                                                               *)

\* A MongoDB or Redis command of the execution throws.  In Complete the catch
\* of processCleanupJob sees it, elsewhere the execution ends, and with the
\* worker's its queue entry; its lock stays until it expires.
Fails(e) ==
    /\ Faulty
    /\ run[e].at \in {"lock", "complete", "fail", "requeue"}
    /\ IF IsAt(e, "complete")
       THEN Goes(e, "fail") /\ UNCHANGED owner
       ELSE /\ Returns(e)
            /\ owner' = [j \in Jobs |-> IF owner[j] = e THEN NoOne ELSE owner[j]]
    /\ UNCHANGED <<status, retries, lock, queueVars, done, tries>>

\* The process dies.  BullMQ finds the entry the worker had and queues it
\* again, unless that happened to it before.
Crash ==
    /\ Faulty
    /\ run' = [e \in Executions |-> Idle]
    /\ owner' = [j \in Jobs |-> NoOne]
    /\ adding' = {}
    /\ stalled' = IF IsAt(Worker, "idle") \/ run[Worker].again THEN stalled
                  ELSE [stalled EXCEPT ![run[Worker].job] = @ + 1]
    /\ UNCHANGED <<status, retries, lock, fresh, done, tries>>

-----------------------------------------------------------------------------
Progress(e) ==
    \/ Lock(e) \/ NotLocked(e) \/ Dispatch(e)
    \/ Complete(e) \/ CompleteRefused(e)
    \/ Retry(e) \/ GiveUp(e) \/ FailRefused(e)

Next ==
    \/ \E j \in Jobs: \/ Create(j) \/ Enqueue(j) \/ EnqueueFails(j)
                      \/ Take(j) \/ Ignore(j) \/ LockExpires(j)
    \/ \E a \in Admins, j \in Jobs: AdminProcesses(a, j)
    \/ \E e \in Executions: Progress(e) \/ Fails(e)
    \/ Requeue
    \/ UnlockStuckJobs
    \/ Crash

Spec == Init /\ [][Next]_vars

\* The worker runs while it has entries, and what was begun goes on.
Fairness ==
    /\ \A j \in Jobs: WF_vars(Enqueue(j))
    /\ WF_vars(\E j \in Jobs: Take(j))
    /\ WF_vars(Requeue)
    /\ \A e \in Executions: WF_vars(Progress(e))

FairSpec == Spec /\ Fairness

-----------------------------------------------------------------------------
(* Properties.                                                             *)

\* A job is marked done only after its side effect happened, by whichever of
\* several overlapping tries marks it.
DoneMeansDone == \A j \in Jobs: status[j] = "DONE" => done[j]

\* A job is given up only after all the tries it was promised, although a try
\* may end under the lock of another and write back an old count.
FailedAfterAllTries ==
    \A j \in Jobs: status[j] = "FAILED" => tries[j] > MaxRetries

\* A job that was settled is never opened again by a try that ends late.
StaysSettled ==
    \A j \in Jobs: status[j] \in Settled => status'[j] = status[j]

SettledStays == [][StaysSettled]_vars

\* What the two properties above rest on: a try that is over has been counted,
\* and nobody writes a count of which the tries were not made.
CountsAreCovered ==
    /\ \A j \in Jobs: retries[j] <= tries[j]
    /\ \A e \in Executions:
        /\ run[e].at \in {"dispatch", "complete", "fail"} =>
            run[e].retries <= tries[run[e].job]
        /\ run[e].at \in {"complete", "fail"} =>
            run[e].retries < tries[run[e].job]
        /\ run[e].at = "complete" => done[run[e].job]

\* Whoever still counts as the owner of a job has its lock.
OwnersHold == \A j \in Jobs: owner[j] # NoOne => lock[j] = "held"

Inv ==
    TypeOK /\ DoneMeansDone /\ FailedAfterAllTries /\ CountsAreCovered /\ OwnersHold

\* Unless its tries outlast the lock, one execution at a time works on a job, the
\* job is open and locked meanwhile, and what it read of the job stays true.
LockProtects ==
    \A e \in Executions, j \in Jobs \ SlowJobs: Works(e, j) =>
        /\ owner[j] = e
        /\ lock[j] = "held"
        /\ status[j] = run[e].status
        /\ retries[j] = run[e].retries

\* Under the same condition no try is counted twice or forgotten.
RetriesGrow ==
    \A j \in Jobs \ SlowJobs: retries'[j] # retries[j] => retries'[j] = retries[j] + 1

RetriesOnlyGrow == [][RetriesGrow]_vars

\* Under the same condition a job is a loop of tries one after the other, whoever
\* makes them: each is counted once or abandoned uncounted, it is given up when
\* the count is full, it is set aside between two tries only, and its side effect
\* does not happen any more once it is settled.
Lasting == Jobs \ SlowJobs

Loop == INSTANCE RetriedJobs WITH
    Jobs <- Lasting,
    status <- [j \in Lasting |-> status[j]],
    count <- [j \in Lasting |-> retries[j]],
    trying <- {j \in Lasting: owner[j] # NoOne},
    done <- [j \in Lasting |-> done[j]]

TriesAreALoop == Loop!Spec

Undisturbed == faults = 0 /\ \A a \in Admins: IsAt(a, "idle")

\* Left alone by administrators and failures, the worker and its queue settle
\* every job whose tries do not outlast its lock: none waits forever between two
\* tries or behind another job, a slow one included.
JobsSettle ==
    []Undisturbed =>
        \A j \in Jobs \ SlowJobs: status[j] \in Open ~> status[j] \in Settled
=============================================================================
