------------------------------ MODULE CallStart ------------------------------
(***************************************************************************)
(* RealtimeCallService.startCall and the Redis locks around it.            *)
(*                                                                         *)
(* An execution of startCall takes one lock per person (SET key EX 5 NX,   *)
(* the keys in sorted order), asks MongoDB whether either person is in an  *)
(* active call, creates the call, pushes a notification and, in `finally', *)
(* deletes the two keys.  The Redis value is the constant 'locked': DEL    *)
(* does not ask who holds the key.  Here a held key is mapped to the       *)
(* execution that set it, which only the properties look at.               *)
(*                                                                         *)
(* A key may expire at any time: 5 s are no bound on two queries, the six  *)
(* of createCall, a push or the queue of an overloaded process.            *)
(*                                                                         *)
(* The rate limit in front of startCall only refuses requests and shares   *)
(* no state with the rest: a refused request is a step not taken.  What    *)
(* happens to a call after its creation is module CallLifecycle; here it   *)
(* is over at some point.                                                  *)
(***************************************************************************)
EXTENDS Naturals

CONSTANTS
    UserIds,    \* user ids; sort() orders them, so they are numbers
    Pairs,      \* the two people of a request for a call, the smaller id first
    CallIds,    \* call ids, given out in their order
    Executions  \* executions of startCall that may overlap

Points == {"idle", "lock2", "undo", "check", "push", "release"}

NoUser == 0
Free == "free"
Orphan == "orphan"      \* set, and its execution is gone: only the TTL frees it

ASSUME UserIdsAssumption == UserIds \subseteq Nat \ {NoUser}
ASSUME CallIdsAssumption == CallIds \subseteq Nat
ASSUME PairsAssumption ==
    \A p \in Pairs: \E a, b \in UserIds: p = <<a, b>> /\ a <= b
ASSUME ExecutionsAssumption == Executions \intersect {Free, Orphan} = {}

VARIABLES
    lock,       \* Redis: call:start:lock:<user>
    callStatus, \* MongoDB: calling or accepted are "active" here
    people,     \* MongoDB: callerId and calleeId of an active call
    pc,
    first, second,      \* the two people, in the order of their keys
    todo,       \* queries unanswered (check) or keys undeleted (release)
    busy,       \* one of the two queries found an active call
    lost,       \* history: the keys an execution set and had taken from it,
                \*   by the TTL or by the DEL of another
    unguarded   \* history: the active calls whose execution had lost a key
                \*   when it created them

redisVars == <<lock>>
mongoVars == <<callStatus, people>>
localVars == <<pc, first, second, todo, busy>>
historyVars == <<lost, unguarded>>
callStartVars == <<redisVars, mongoVars, localVars, historyVars>>

CallStartTypeOK ==
    /\ lock \in [UserIds -> Executions \union {Free, Orphan}]
    /\ callStatus \in [CallIds -> {"none", "active", "over"}]
    /\ people \in [CallIds -> SUBSET UserIds]
    /\ pc \in [Executions -> Points]
    /\ first \in [Executions -> UserIds \union {NoUser}]
    /\ second \in [Executions -> UserIds \union {NoUser}]
    /\ todo \in [Executions -> SUBSET UserIds]
    /\ busy \in [Executions -> BOOLEAN]
    /\ lost \in [Executions -> SUBSET UserIds]
    /\ unguarded \subseteq CallIds

Both(h) == {first[h], second[h]}

IsNext(c) ==
    /\ callStatus[c] = "none"
    /\ \A d \in CallIds: callStatus[d] = "none" => c <= d

InActiveCall(u) == \E c \in CallIds: callStatus[c] = "active" /\ u \in people[c]

\* The executions hs are over, their locals with them.
Ends(hs) ==
    /\ pc' = [h \in Executions |-> IF h \in hs THEN "idle" ELSE pc[h]]
    /\ first' = [h \in Executions |-> IF h \in hs THEN NoUser ELSE first[h]]
    /\ second' = [h \in Executions |-> IF h \in hs THEN NoUser ELSE second[h]]
    /\ todo' = [h \in Executions |-> IF h \in hs THEN {} ELSE todo[h]]
    /\ busy' = [h \in Executions |-> IF h \in hs THEN FALSE ELSE busy[h]]

Finish(hs) ==
    /\ Ends(hs)
    /\ lost' = [h \in Executions |-> IF h \in hs THEN {} ELSE lost[h]]

\* Whoever holds the key of u, other than h, has it no more.
LostTo(h, u) ==
    [g \in Executions |->
        IF lock[u] = g /\ g # h THEN lost[g] \union {u} ELSE lost[g]]

\* The keys of an execution that is gone wait for their TTL.
Abandoned(hs) == [u \in UserIds |-> IF lock[u] \in hs THEN Orphan ELSE lock[u]]

CallStartInit ==
    /\ lock = [u \in UserIds |-> Free]
    /\ callStatus = [c \in CallIds |-> "none"]
    /\ people = [c \in CallIds |-> {}]
    /\ pc = [h \in Executions |-> "idle"]
    /\ first = [h \in Executions |-> NoUser]
    /\ second = [h \in Executions |-> NoUser]
    /\ todo = [h \in Executions |-> {}]
    /\ busy = [h \in Executions |-> FALSE]
    /\ lost = [h \in Executions |-> {}]
    /\ unguarded = {}

-----------------------------------------------------------------------------
(* The steps of one execution.                                             *)

\* The first key, of the smaller id: who calls whom is of no consequence here.  If
\* it is taken, or Redis does not answer, nothing has happened.
LockFirst(h, a, b) ==
    /\ pc[h] = "idle"
    /\ <<a, b>> \in Pairs
    /\ lock[a] = Free
    /\ lock' = [lock EXCEPT ![a] = h]
    /\ pc' = [pc EXCEPT ![h] = "lock2"]
    /\ first' = [first EXCEPT ![h] = a]
    /\ second' = [second EXCEPT ![h] = b]
    /\ UNCHANGED <<todo, busy, mongoVars, historyVars>>

LockSecond(h) ==
    /\ pc[h] = "lock2"
    /\ lock[second[h]] = Free
    /\ lock' = [lock EXCEPT ![second[h]] = h]
    /\ pc' = [pc EXCEPT ![h] = "check"]
    /\ todo' = [todo EXCEPT ![h] = Both(h)]
    /\ UNCHANGED <<first, second, busy, mongoVars, historyVars>>

\* Also the end of a call to oneself, unless the first key has expired by now:
\* both keys are the same key.
SecondIsTaken(h) ==
    /\ pc[h] = "lock2"
    /\ lock[second[h]] # Free
    /\ pc' = [pc EXCEPT ![h] = "undo"]
    /\ UNCHANGED <<first, second, todo, busy, redisVars, mongoVars, historyVars>>

\* Mutant: DEL of all keys instead of those acquired.
Undo_AllKeys(h) ==
    /\ pc[h] = "undo"
    /\ lock' = [u \in UserIds |-> IF u \in Both(h) THEN Free ELSE lock[u]]
    /\ Finish({h})
    /\ UNCHANGED <<mongoVars, unguarded>>

\* DEL of the key acquired so far; whoever holds it now loses it.
Undo(h) ==
    /\ pc[h] = "undo"
    /\ lock' = [lock EXCEPT ![first[h]] = Free]
    /\ Ends({h})
    /\ lost' = [LostTo(h, first[h]) EXCEPT ![h] = {}]
    /\ UNCHANGED <<mongoVars, unguarded>>

\* The two queries run in parallel: each is answered when it is answered.
FindActiveCall(h, u) ==
    /\ pc[h] = "check"
    /\ u \in todo[h]
    /\ todo' = [todo EXCEPT ![h] = @ \ {u}]
    /\ busy' = [busy EXCEPT ![h] = @ \/ InActiveCall(u)]
    /\ UNCHANGED <<pc, first, second, redisVars, mongoVars, historyVars>>

\* Mutant: the answers are not looked at.
CreateCall_Unchecked(h, c) ==
    /\ pc[h] = "check"
    /\ todo[h] = {}
    /\ first[h] # second[h]
    /\ IsNext(c)
    /\ callStatus' = [callStatus EXCEPT ![c] = "active"]
    /\ people' = [people EXCEPT ![c] = Both(h)]
    /\ unguarded' = IF lost[h] = {} THEN unguarded ELSE unguarded \union {c}
    /\ pc' = [pc EXCEPT ![h] = "push"]
    /\ UNCHANGED <<first, second, todo, busy, redisVars, lost>>

\* createCall refuses a call to oneself by itself.
CreateCall(h, c) ==
    /\ pc[h] = "check"
    /\ todo[h] = {}
    /\ ~busy[h]
    /\ first[h] # second[h]
    /\ IsNext(c)
    /\ callStatus' = [callStatus EXCEPT ![c] = "active"]
    /\ people' = [people EXCEPT ![c] = Both(h)]
    /\ unguarded' = IF lost[h] = {} THEN unguarded ELSE unguarded \union {c}
    /\ pc' = [pc EXCEPT ![h] = "push"]
    /\ UNCHANGED <<first, second, todo, busy, redisVars, lost>>

\* Into `finally': the push was sent, or the person is busy, or createCall
\* refused (oneself, blocked, no friend, no member), or a query or the push threw.
Leave(h) ==
    /\ pc[h] \in {"check", "push"}
    /\ pc' = [pc EXCEPT ![h] = "release"]
    /\ todo' = [todo EXCEPT ![h] = Both(h)]
    /\ busy' = [busy EXCEPT ![h] = FALSE]
    /\ UNCHANGED <<first, second, redisVars, mongoVars, historyVars>>

\* Again DEL without asking who holds the key; with the last one startCall is over.
Release(h, u) ==
    /\ pc[h] = "release"
    /\ u \in todo[h]
    /\ lock' = [lock EXCEPT ![u] = Free]
    /\ IF todo[h] = {u}
       THEN /\ Ends({h})
            /\ lost' = [LostTo(h, u) EXCEPT ![h] = {}]
       ELSE /\ todo' = [todo EXCEPT ![h] = @ \ {u}]
            /\ lost' = LostTo(h, u)
            /\ UNCHANGED <<pc, first, second, busy>>
    /\ UNCHANGED <<mongoVars, unguarded>>

\* A Redis command throws: nothing deletes the keys set so far.
RedisFails(h) ==
    /\ pc[h] \in {"lock2", "undo", "release"}
    /\ lock' = Abandoned({h})
    /\ Finish({h})
    /\ UNCHANGED <<mongoVars, unguarded>>

-----------------------------------------------------------------------------
(* The surroundings.                                                       *)

\* Mutant: only whoever still runs sees its key expire.
Expire_NotAbandoned(u) ==
    /\ lock[u] \in Executions
    /\ lock' = [lock EXCEPT ![u] = Free]
    /\ lost' = [lost EXCEPT ![lock[u]] = @ \union {u}]
    /\ UNCHANGED <<localVars, mongoVars, unguarded>>

\* The TTL elapses, whether or not the execution that set the key still runs.
Expire(u) ==
    /\ lock[u] # Free
    /\ lock' = [lock EXCEPT ![u] = Free]
    /\ lost' = LostTo(Orphan, u)
    /\ UNCHANGED <<localVars, mongoVars, unguarded>>

\* Rejected, missed or ended: CallLifecycle says when.  Nobody asks for the people
\* of a call that is over.
CallOver(c) ==
    /\ callStatus[c] = "active"
    /\ callStatus' = [callStatus EXCEPT ![c] = "over"]
    /\ people' = [people EXCEPT ![c] = {}]
    /\ unguarded' = unguarded \ {c}
    /\ UNCHANGED <<localVars, redisVars, lost>>

\* The server process restarts; Redis and MongoDB keep what they have.
ServerRestarts ==
    /\ \E h \in Executions: pc[h] # "idle"
    /\ lock' = Abandoned(Executions)
    /\ Finish(Executions)
    /\ UNCHANGED <<mongoVars, unguarded>>

ExecutionSteps(h) ==
    \/ LockSecond(h) \/ SecondIsTaken(h)
    \/ Undo(h)
    \/ \E u \in UserIds: FindActiveCall(h, u) \/ Release(h, u)
    \/ \E c \in CallIds: CreateCall(h, c)
    \/ Leave(h)

CallStartNext ==
    \/ \E h \in Executions, a, b \in UserIds: LockFirst(h, a, b)
    \/ \E h \in Executions: ExecutionSteps(h) \/ RedisFails(h)
    \/ \E u \in UserIds: Expire(u)
    \/ \E c \in CallIds: CallOver(c)
    \/ ServerRestarts

CallStartSpec == CallStartInit /\ [][CallStartNext]_callStartVars

\* Node runs an execution whose awaited reply has come, and Redis drops the key
\* of one that is gone.  Nobody has to call, hang up, crash or be slow.
CallStartFairness ==
    /\ \A h \in Executions: WF_callStartVars(ExecutionSteps(h))
    /\ \A u \in UserIds: WF_callStartVars(lock[u] = Orphan /\ Expire(u))

FairCallStartSpec == CallStartSpec /\ CallStartFairness

-----------------------------------------------------------------------------
(* Properties.                                                             *)

Overlap(c, d) ==
    /\ callStatus[c] = "active" /\ callStatus[d] = "active"
    /\ c # d
    /\ people[c] \intersect people[d] # {}

\* A person is in at most one active call, but for a call whose execution had
\* lost one of its keys by the time it created it.  Of executions that kept their
\* keys that long no two overlap on a person, however slow, or robbed, or ended by
\* an error or a restart, the others are.
OneActiveCallPerUser ==
    \A c, d \in CallIds: Overlap(c, d) => c \in unguarded \/ d \in unguarded

\* What the locks are there for; the code does not keep it.
NobodyIsInTwoCalls == \A c, d \in CallIds: ~Overlap(c, d)

\* The keys an execution has set and not yet deleted.
Keys(h) ==
    CASE pc[h] \in {"lock2", "undo"} -> {first[h]}
      [] pc[h] \in {"check", "push"} -> Both(h)
      [] pc[h] = "release" -> todo[h]
      [] OTHER -> {}

\* They are its own, but for those it has lost.
KeysAreHeld == \A h \in Executions: \A u \in Keys(h) \ lost[h]: lock[u] = h

\* What an execution that kept its keys and found nobody busy saw is still true
\* when it creates the call: nobody else who kept theirs created one meanwhile.
QueriesStayTrue ==
    \A h \in Executions:
        pc[h] = "check" /\ ~busy[h] /\ lost[h] = {} =>
            \A u \in Both(h) \ todo[h], c \in CallIds \ unguarded:
                ~(callStatus[c] = "active" /\ u \in people[c])

\* An execution on its way knows its two people.
PeopleAreKnown ==
    \A h \in Executions: pc[h] # "idle" => Both(h) \subseteq UserIds

LocalsAreSound ==
    \A h \in Executions:
        /\ todo[h] \subseteq Both(h)
        /\ pc[h] \notin {"check", "release"} => todo[h] = {}

\* The inductive invariant.
CallStartInv ==
    /\ CallStartTypeOK
    /\ PeopleAreKnown
    /\ OneActiveCallPerUser
    /\ KeysAreHeld
    /\ QueriesStayTrue
    /\ LocalsAreSound

\* The DEL of undo and of `finally', which do not ask whose key it is, remove the
\* key of another running execution only when the one that deletes has lost its
\* own: so a chain of such deletions begins with a TTL that elapsed.
DeletesAnothersKey(h, u) ==
    /\ Undo(h) \/ Release(h, u)
    /\ lock[u] \in Executions \ {h}
    /\ lock'[u] = Free

OnlyTheRobbedRob ==
    [][\A h \in Executions, u \in UserIds:
            DeletesAnothersKey(h, u) => u \in lost[h]]_callStartVars

\* Whatever fails, nobody stays locked out of calling: a key that is set, by an
\* execution that finishes, throws or dies with the process, is gone some day,
\* even if only the keys of those that are gone expire.
LocksGoAway == \A u \in UserIds: lock[u] # Free ~> lock[u] = Free
=============================================================================
