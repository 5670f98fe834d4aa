----------------------------- MODULE RetriedJobs -----------------------------
(***************************************************************************)
(* What the clean-up jobs promise: a job is a loop of tries, one after the *)
(* other.  A try does the side effect or not, and ends in success, in one  *)
(* more entry of the count, in giving up when the count is full, or is     *)
(* abandoned uncounted when something breaks.  Between two tries, and only *)
(* then, an administrator may set the job aside; nothing happens to a job, *)
(* or for it, once it is settled.                                          *)
(***************************************************************************)
EXTENDS Naturals

CONSTANTS
    Jobs,
    MaxRetries      \* tries after the first

VARIABLES
    status,
    count,          \* failed tries that another was to follow
    trying,         \* the jobs a try of which is under way
    done            \* whether the side effect has happened

vars == <<status, count, trying, done>>

Init ==
    /\ status = [j \in Jobs |-> "none"]
    /\ count = [j \in Jobs |-> 0]
    /\ trying = {}
    /\ done = [j \in Jobs |-> FALSE]

Waits(j) == status[j] \in {"PENDING", "RETRY"} /\ j \notin trying

Create(j) ==
    /\ status[j] = "none"
    /\ status' = [status EXCEPT ![j] = "PENDING"]
    /\ UNCHANGED <<count, trying, done>>

Begin(j) ==
    /\ Waits(j)
    /\ trying' = trying \union {j}
    /\ UNCHANGED <<status, count, done>>

Act(j) ==
    /\ j \in trying
    /\ done' = [done EXCEPT ![j] = TRUE]
    /\ UNCHANGED <<status, count, trying>>

Ends(j, outcome) ==
    /\ j \in trying
    /\ trying' = trying \ {j}
    /\ status' = [status EXCEPT ![j] = outcome]
    /\ UNCHANGED done

Succeed(j) == done[j] /\ Ends(j, "DONE") /\ UNCHANGED count

TryAgain(j) ==
    /\ count[j] < MaxRetries
    /\ Ends(j, "RETRY")
    /\ count' = [count EXCEPT ![j] = @ + 1]

GiveUp(j) == count[j] = MaxRetries /\ Ends(j, "FAILED") /\ UNCHANGED count

Abandon ==
    /\ trying' \in SUBSET trying
    /\ UNCHANGED <<status, count, done>>

Ignore(j) ==
    /\ Waits(j)
    /\ status' = [status EXCEPT ![j] = "IGNORED"]
    /\ UNCHANGED <<count, trying, done>>

Next ==
    \/ \E j \in Jobs: \/ Create(j) \/ Begin(j) \/ Act(j) \/ Ignore(j)
                      \/ Succeed(j) \/ TryAgain(j) \/ GiveUp(j)
    \/ Abandon

Spec == Init /\ [][Next]_vars
=============================================================================
