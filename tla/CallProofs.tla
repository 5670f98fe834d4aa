----------------------------- MODULE CallProofs -----------------------------
(***************************************************************************)
(* A call, from the request to its end: first startCall under its locks    *)
(* (CallStart), then the call that it creates (CallLifecycle).  The two    *)
(* modules meet where the document is inserted and share no state.         *)
(***************************************************************************)
EXTENDS CallStart, CallLifecycle, TLAPS

-----------------------------------------------------------------------------
(***************************************************************************)
(* A person is in two active calls only by a call whose execution had lost *)
(* one of its keys when it created it, and the key of another is deleted   *)
(* only by an execution that has lost its own: for any number of people,   *)
(* calls and executions, however slow each is, whatever fails or crashes.  *)
(*                                                                         *)
(* The argument: an execution sets a key only when it is free, so a key    *)
(* that it has not lost is its own (KeysAreHeld).  Two executions that     *)
(* have lost nothing therefore do not overlap on a person, and what one of *)
(* them was told about its two people stays true (QueriesStayTrue).        *)
(***************************************************************************)

(***************************************************************************)
(* Type correctness: what an execution stores is typed because it knows    *)
(* its people.                                                             *)
(***************************************************************************)
THEOREM CallStartTypeCorrect == CallStartSpec => [](CallStartTypeOK /\ PeopleAreKnown)
<1>1. CallStartInit => CallStartTypeOK /\ PeopleAreKnown
  BY DEF CallStartInit, CallStartTypeOK, PeopleAreKnown, Points
<1>2. CallStartTypeOK /\ PeopleAreKnown /\ [CallStartNext]_callStartVars
        => CallStartTypeOK' /\ PeopleAreKnown'
  <2> SUFFICES ASSUME CallStartTypeOK, PeopleAreKnown, [CallStartNext]_callStartVars
               PROVE  CallStartTypeOK' /\ PeopleAreKnown'
    OBVIOUS
  <2> USE DEF CallStartTypeOK, PeopleAreKnown, Points, Both, LostTo,
              mongoVars, redisVars, localVars, historyVars
  <2>1. ASSUME NEW h \in Executions, NEW a \in UserIds, NEW b \in UserIds,
              LockFirst(h, a, b)
       PROVE  CallStartTypeOK' /\ PeopleAreKnown'
    BY <2>1 DEF LockFirst
  <2>2. ASSUME NEW h \in Executions, LockSecond(h)
       PROVE  CallStartTypeOK' /\ PeopleAreKnown'
    BY <2>2 DEF LockSecond
  <2>3. ASSUME NEW h \in Executions, SecondIsTaken(h)
       PROVE  CallStartTypeOK' /\ PeopleAreKnown'
    BY <2>3 DEF SecondIsTaken
  <2>4. ASSUME NEW h \in Executions, Undo(h)
       PROVE  CallStartTypeOK' /\ PeopleAreKnown'
    BY <2>4 DEF Undo, Ends
  <2>5. ASSUME NEW h \in Executions, NEW u \in UserIds, FindActiveCall(h, u)
       PROVE  CallStartTypeOK' /\ PeopleAreKnown'
    BY <2>5 DEF FindActiveCall
  <2>6. ASSUME NEW h \in Executions, NEW u \in UserIds, Release(h, u)
       PROVE  CallStartTypeOK' /\ PeopleAreKnown'
    <3>1. CASE todo[h] = {u}
      <4>1. /\ lock' = [lock EXCEPT ![u] = Free]
            /\ Ends({h})
            /\ lost' = [LostTo(h, u) EXCEPT ![h] = {}]
            /\ UNCHANGED <<callStatus, people, unguarded>>
        BY <2>6, <3>1 DEF Release
      <4> QED
        BY <4>1 DEF Ends
    <3>2. CASE todo[h] # {u}
      <4>1. /\ lock' = [lock EXCEPT ![u] = Free]
            /\ todo' = [todo EXCEPT ![h] = @ \ {u}]
            /\ lost' = [g \in Executions |->
                          IF lock[u] = g /\ g # h THEN lost[g] \union {u} ELSE lost[g]]
            /\ UNCHANGED <<pc, first, second, busy, callStatus, people, unguarded>>
        BY <2>6, <3>2 DEF Release
      <4> QED
        BY <4>1
    <3> QED
      BY <3>1, <3>2
  <2>7. ASSUME NEW h \in Executions, NEW c \in CallIds, CreateCall(h, c)
       PROVE  CallStartTypeOK' /\ PeopleAreKnown'
    BY <2>7 DEF CreateCall
  <2>8. ASSUME NEW h \in Executions, Leave(h)
       PROVE  CallStartTypeOK' /\ PeopleAreKnown'
    BY <2>8 DEF Leave
  <2>9. ASSUME NEW h \in Executions, RedisFails(h)
       PROVE  CallStartTypeOK' /\ PeopleAreKnown'
    BY <2>9 DEF RedisFails, Finish, Ends, Abandoned
  <2>10. ASSUME NEW u \in UserIds, Expire(u)
       PROVE  CallStartTypeOK' /\ PeopleAreKnown'
    BY <2>10 DEF Expire
  <2>11. ASSUME NEW c \in CallIds, CallOver(c)
       PROVE  CallStartTypeOK' /\ PeopleAreKnown'
    BY <2>11 DEF CallOver
  <2>12. CASE ServerRestarts
    BY <2>12 DEF ServerRestarts, Finish, Ends, Abandoned
  <2>13. CASE UNCHANGED callStartVars
    BY <2>13 DEF callStartVars
  <2> QED
    BY <2>1, <2>2, <2>3, <2>4, <2>5, <2>6, <2>7, <2>8, <2>9, <2>10, <2>11,
    <2>12, <2>13 DEF CallStartNext, ExecutionSteps
<1>3. QED
  BY <1>1, <1>2, PTL DEF CallStartSpec


(***************************************************************************)
(* The inductive step, an action at a time and under it a conjunct.        *)
(***************************************************************************)
LEMMA CallStartInvIsInductive ==
  ASSUME CallStartInv, CallStartTypeOK', PeopleAreKnown',
         [CallStartNext]_callStartVars
  PROVE  CallStartInv'
  <2> DEFINE Facts == /\ OneActiveCallPerUser
                      /\ KeysAreHeld
                      /\ QueriesStayTrue
                      /\ LocalsAreSound
  <2> USE ExecutionsAssumption
      DEF CallStartInv, CallStartTypeOK, PeopleAreKnown, OneActiveCallPerUser,
          KeysAreHeld, Keys, Overlap, LostTo,
          QueriesStayTrue, LocalsAreSound, InActiveCall, Both, Points,
          Free, Orphan, mongoVars, redisVars, localVars, historyVars
  <2>1. ASSUME NEW h \in Executions, NEW a \in UserIds, NEW b \in UserIds, LockFirst(h, a, b)
        PROVE  Facts'
    <3>1. OneActiveCallPerUser'
      BY <2>1 DEF LockFirst
    <3>2. KeysAreHeld'
      BY <2>1 DEF LockFirst
    <3>3. QueriesStayTrue'
      BY <2>1 DEF LockFirst
    <3>4. LocalsAreSound'
      BY <2>1 DEF LockFirst
    <3> QED
      BY <3>1, <3>2, <3>3, <3>4
  <2>2. ASSUME NEW h \in Executions, LockSecond(h)
        PROVE  Facts'
    <3>1. OneActiveCallPerUser'
      BY <2>2 DEF LockSecond
    <3>2. KeysAreHeld'
      BY <2>2 DEF LockSecond
    <3>3. QueriesStayTrue'
      BY <2>2 DEF LockSecond
    <3>4. LocalsAreSound'
      BY <2>2 DEF LockSecond
    <3> QED
      BY <3>1, <3>2, <3>3, <3>4
  <2>3. ASSUME NEW h \in Executions, SecondIsTaken(h)
        PROVE  Facts'
    <3>1. OneActiveCallPerUser'
      BY <2>3 DEF SecondIsTaken
    <3>2. KeysAreHeld'
      BY <2>3 DEF SecondIsTaken
    <3>3. QueriesStayTrue'
      BY <2>3 DEF SecondIsTaken
    <3>4. LocalsAreSound'
      BY <2>3 DEF SecondIsTaken
    <3> QED
      BY <3>1, <3>2, <3>3, <3>4
  <2>4. ASSUME NEW h \in Executions, Undo(h)
        PROVE  Facts'
    <3>1. OneActiveCallPerUser'
      BY <2>4 DEF Undo, Ends
    <3>2. KeysAreHeld'
      <4> SUFFICES ASSUME NEW g \in Executions, NEW v \in Keys(g)', v \notin lost'[g]
                   PROVE  lock'[v] = g
        BY DEF KeysAreHeld
      <4>1. g # h
        BY <2>4 DEF Undo, Ends
      <4>2. v \in Keys(g)
        BY <2>4, <4>1 DEF Undo, Ends
      <4>3. /\ v \notin lost[g]
            /\ ~(lock[first[h]] = g /\ v = first[h])
        BY <2>4, <4>1 DEF Undo
      <4>4. lock[v] = g
        BY <4>2, <4>3
      <4> QED
        BY <2>4, <4>3, <4>4 DEF Undo
    <3>3. QueriesStayTrue'
      <4> SUFFICES ASSUME NEW g \in Executions, pc'[g] = "check", ~busy'[g],
                          lost'[g] = {}, NEW v \in Both(g)' \ todo'[g],
                          NEW c \in CallIds \ unguarded',
                          callStatus'[c] = "active", v \in people'[c]
                   PROVE  FALSE
        BY DEF QueriesStayTrue
      <4>1. g # h
        BY <2>4 DEF Undo, Ends
      <4>2. pc[g] = "check" /\ ~busy[g] /\ v \in Both(g) \ todo[g]
        BY <2>4, <4>1 DEF Undo, Ends
      <4>3. lost[g] = {}
        BY <2>4, <4>1 DEF Undo
      <4>4. c \in CallIds \ unguarded /\ callStatus[c] = "active" /\ v \in people[c]
        BY <2>4 DEF Undo
      <4> QED
        BY <4>2, <4>3, <4>4
    <3>4. LocalsAreSound'
      BY <2>4 DEF Undo, Ends
    <3> QED
      BY <3>1, <3>2, <3>3, <3>4
  <2>5. ASSUME NEW h \in Executions, NEW u \in UserIds, FindActiveCall(h, u)
        PROVE  Facts'
    <3>1. OneActiveCallPerUser'
      BY <2>5 DEF FindActiveCall
    <3>2. KeysAreHeld'
      BY <2>5 DEF FindActiveCall
    <3>3. QueriesStayTrue'
      <4> SUFFICES ASSUME NEW g \in Executions, pc'[g] = "check", ~busy'[g],
                          lost'[g] = {}, NEW v \in Both(g)' \ todo'[g],
                          NEW c \in CallIds \ unguarded',
                          callStatus'[c] = "active", v \in people'[c]
                   PROVE  FALSE
        BY DEF QueriesStayTrue
      <4>1. /\ first' = first /\ second' = second /\ pc' = pc /\ lost' = lost
            /\ callStatus' = callStatus /\ people' = people /\ unguarded' = unguarded
        BY <2>5 DEF FindActiveCall
      <4>2. CASE g = h /\ v = u
        <5>1. busy'[h] = (busy[h] \/ InActiveCall(u))
          BY <2>5 DEF FindActiveCall
        <5>2. ~InActiveCall(u)
          BY <5>1, <4>2
        <5> QED
          BY <5>2, <4>1, <4>2
      <4>3. CASE g # h \/ v # u
        <5>1. v \in Both(g) \ todo[g] /\ ~busy[g]
          BY <2>5, <4>1, <4>3 DEF FindActiveCall
        <5> QED
          BY <5>1, <4>1
      <4> QED
        BY <4>2, <4>3
    <3>4. LocalsAreSound'
      BY <2>5 DEF FindActiveCall
    <3> QED
      BY <3>1, <3>2, <3>3, <3>4
  <2>6. ASSUME NEW h \in Executions, NEW u \in UserIds, Release(h, u)
        PROVE  Facts'
    <3> DEFINE last == todo[h] = {u}
    <3>1. /\ pc[h] = "release" /\ u \in todo[h]
          /\ lock' = [lock EXCEPT ![u] = Free]
          /\ pc' = [pc EXCEPT ![h] = IF last THEN "idle" ELSE "release"]
          /\ \A g \in Executions \ {h}: /\ first'[g] = first[g] /\ second'[g] = second[g]
                                        /\ todo'[g] = todo[g] /\ busy'[g] = busy[g]
                                        /\ lost[g] \subseteq lost'[g]
                                        /\ lock[u] = g => u \in lost'[g]
          /\ todo'[h] = todo[h] \ {u}
          /\ ~last => first'[h] = first[h] /\ second'[h] = second[h] /\ lost'[h] = lost[h]
          /\ UNCHANGED <<callStatus, people, unguarded>>
      <4>1. CASE last
        <5>1. /\ pc[h] = "release" /\ u \in todo[h]
              /\ lock' = [lock EXCEPT ![u] = Free]
              /\ Ends({h})
              /\ lost' = [LostTo(h, u) EXCEPT ![h] = {}]
              /\ UNCHANGED <<callStatus, people, unguarded>>
          BY <2>6, <4>1 DEF Release
        <5>2. pc' = [pc EXCEPT ![h] = "idle"]
          BY <5>1 DEF Ends
        <5>3. todo'[h] = todo[h] \ {u}
          BY <5>1, <4>1 DEF Ends
        <5>4. \A g \in Executions \ {h}: /\ first'[g] = first[g] /\ second'[g] = second[g]
                                        /\ todo'[g] = todo[g] /\ busy'[g] = busy[g]
          BY <5>1 DEF Ends
        <5>5. \A g \in Executions \ {h}: /\ lost[g] \subseteq lost'[g]
                                        /\ lock[u] = g => u \in lost'[g]
          BY <5>1
        <5> QED
          BY <5>1, <5>2, <5>3, <5>4, <5>5, <4>1
      <4>2. CASE ~last
        <5>1. /\ pc[h] = "release" /\ u \in todo[h]
              /\ lock' = [lock EXCEPT ![u] = Free]
              /\ todo' = [todo EXCEPT ![h] = @ \ {u}]
              /\ lost' = [g \in Executions |->
                            IF lock[u] = g /\ g # h THEN lost[g] \union {u} ELSE lost[g]]
              /\ UNCHANGED <<pc, first, second, busy, callStatus, people, unguarded>>
          BY <2>6, <4>2 DEF Release
        <5> QED
          BY <5>1, <4>2
      <4> QED
        BY <4>1, <4>2
    <3>2. OneActiveCallPerUser'
      BY <3>1
    <3>3. KeysAreHeld'
      <4> SUFFICES ASSUME NEW g \in Executions, NEW v \in Keys(g)', v \notin lost'[g]
                   PROVE  lock'[v] = g
        BY DEF KeysAreHeld
      <4>1. CASE g = h
        <5>1. pc'[h] = "release" /\ v \in todo[h] /\ v # u /\ ~last
          BY <3>1, <4>1
        <5>2. v \in Keys(h) /\ v \notin lost[h]
          BY <3>1, <4>1, <5>1
        <5> QED
          BY <3>1, <4>1, <5>1, <5>2
      <4>2. CASE g # h
        <5>1. v \in Keys(g) /\ v \notin lost[g] /\ ~(lock[u] = g /\ v = u)
          BY <3>1, <4>2
        <5>2. lock[v] = g
          BY <5>1
        <5> QED
          BY <3>1, <5>1, <5>2
      <4> QED
        BY <4>1, <4>2
    <3>4. QueriesStayTrue'
      BY <3>1
    <3>5. LocalsAreSound'
      <4> SUFFICES ASSUME NEW g \in Executions
                   PROVE  /\ todo'[g] \subseteq Both(g)'
                          /\ pc'[g] \notin {"check", "release"} => todo'[g] = {}
        BY DEF LocalsAreSound
      <4>1. CASE g = h
        BY <3>1, <4>1
      <4>2. CASE g # h
        BY <3>1, <4>2
      <4> QED
        BY <4>1, <4>2
    <3> QED
      BY <3>2, <3>3, <3>4, <3>5
  <2>7. ASSUME NEW h \in Executions, NEW c \in CallIds, CreateCall(h, c)
        PROVE  Facts'
    <3>1. OneActiveCallPerUser'
      <4>1. /\ pc[h] = "check" /\ todo[h] = {} /\ ~busy[h]
            /\ people' = [people EXCEPT ![c] = Both(h)]
            /\ callStatus' = [callStatus EXCEPT ![c] = "active"]
            /\ unguarded' = IF lost[h] = {} THEN unguarded ELSE unguarded \union {c}
        BY <2>7 DEF CreateCall
      <4>2. CASE lost[h] = {}
        <5>1. \A d \in CallIds \ unguarded:
                callStatus[d] = "active" => people[d] \intersect Both(h) = {}
          BY <4>1, <4>2
        <5> QED
          BY <4>1, <4>2, <5>1
      <4>3. CASE lost[h] # {}
        BY <4>1, <4>3
      <4> QED
        BY <4>2, <4>3
    <3>2. KeysAreHeld'
      BY <2>7 DEF CreateCall
    <3>3. QueriesStayTrue'
      BY <2>7 DEF CreateCall
    <3>4. LocalsAreSound'
      BY <2>7 DEF CreateCall
    <3> QED
      BY <3>1, <3>2, <3>3, <3>4
  <2>8. ASSUME NEW h \in Executions, Leave(h)
        PROVE  Facts'
    <3>1. OneActiveCallPerUser'
      BY <2>8 DEF Leave
    <3>2. KeysAreHeld'
      BY <2>8 DEF Leave
    <3>3. QueriesStayTrue'
      BY <2>8 DEF Leave
    <3>4. LocalsAreSound'
      BY <2>8 DEF Leave
    <3> QED
      BY <3>1, <3>2, <3>3, <3>4
  <2>9. ASSUME NEW h \in Executions, RedisFails(h)
        PROVE  Facts'
    <3>1. OneActiveCallPerUser'
      BY <2>9 DEF RedisFails, Finish, Ends, Abandoned
    <3>2. KeysAreHeld'
      BY <2>9 DEF RedisFails, Finish, Ends, Abandoned
    <3>3. QueriesStayTrue'
      BY <2>9 DEF RedisFails, Finish, Ends, Abandoned
    <3>4. LocalsAreSound'
      BY <2>9 DEF RedisFails, Finish, Ends, Abandoned
    <3> QED
      BY <3>1, <3>2, <3>3, <3>4
  <2>10. ASSUME NEW u \in UserIds, Expire(u)
        PROVE  Facts'
    <3>1. OneActiveCallPerUser'
      BY <2>10 DEF Expire
    <3>2. KeysAreHeld'
      BY <2>10 DEF Expire
    <3>3. QueriesStayTrue'
      BY <2>10 DEF Expire
    <3>4. LocalsAreSound'
      BY <2>10 DEF Expire
    <3> QED
      BY <3>1, <3>2, <3>3, <3>4
  <2>11. ASSUME NEW c \in CallIds, CallOver(c)
        PROVE  Facts'
    <3>1. OneActiveCallPerUser'
      BY <2>11 DEF CallOver
    <3>2. KeysAreHeld'
      BY <2>11 DEF CallOver
    <3>3. QueriesStayTrue'
      BY <2>11 DEF CallOver
    <3>4. LocalsAreSound'
      BY <2>11 DEF CallOver
    <3> QED
      BY <3>1, <3>2, <3>3, <3>4
  <2>12. CASE ServerRestarts
    <3>1. OneActiveCallPerUser'
      BY <2>12 DEF ServerRestarts, Finish, Ends, Abandoned
    <3>2. KeysAreHeld'
      BY <2>12 DEF ServerRestarts, Finish, Ends, Abandoned
    <3>3. QueriesStayTrue'
      BY <2>12 DEF ServerRestarts, Finish, Ends, Abandoned
    <3>4. LocalsAreSound'
      BY <2>12 DEF ServerRestarts, Finish, Ends, Abandoned
    <3> QED
      BY <3>1, <3>2, <3>3, <3>4
  <2>13. CASE UNCHANGED callStartVars
    BY <2>13 DEF callStartVars
  <2> QED
    BY <2>1, <2>2, <2>3, <2>4, <2>5, <2>6, <2>7, <2>8, <2>9, <2>10, <2>11,
    <2>12, <2>13 DEF CallStartNext, ExecutionSteps

(***************************************************************************)
(* The invariant holds.                                                    *)
(***************************************************************************)
LEMMA CallStartInvHolds == CallStartSpec => []CallStartInv
<1>1. CallStartInit => CallStartInv
  BY DEF CallStartInit, CallStartInv, CallStartTypeOK, PeopleAreKnown,
         OneActiveCallPerUser, Overlap,
         KeysAreHeld, Keys, QueriesStayTrue, LocalsAreSound, Points, Both
<1>2. CallStartInv /\ CallStartTypeOK' /\ PeopleAreKnown' /\ [CallStartNext]_callStartVars
        => CallStartInv'
  BY CallStartInvIsInductive
<1>3. QED
  BY <1>1, <1>2, CallStartTypeCorrect, PTL DEF CallStartSpec

(***************************************************************************)
(* Of two active calls that share a person, one was created by an          *)
(* execution that had lost one of its keys.                                *)
(***************************************************************************)
THEOREM OneCall == CallStartSpec => [](OneActiveCallPerUser /\ KeysAreHeld)
<1>1. CallStartInv => OneActiveCallPerUser /\ KeysAreHeld
  BY DEF CallStartInv
<1>2. QED
  BY <1>1, CallStartInvHolds, PTL

(***************************************************************************)
(* The DEL commands, which do not ask whose key it is, remove the key of   *)
(* another running execution only when the one that sends them has lost    *)
(* its own.                                                                *)
(***************************************************************************)
THEOREM RobbedBefore == CallStartSpec => OnlyTheRobbedRob
<1> DEFINE Rob == \A h \in Executions, u \in UserIds:
                        DeletesAnothersKey(h, u) => u \in lost[h]
<1>1. CallStartInv => Rob
  <2> SUFFICES ASSUME CallStartInv, NEW h \in Executions, NEW u \in UserIds,
                      DeletesAnothersKey(h, u), u \notin lost[h]
               PROVE  FALSE
    OBVIOUS
  <2>1. lock[u] \in Executions \ {h} /\ lock'[u] = Free /\ (Undo(h) \/ Release(h, u))
    BY DEF DeletesAnothersKey
  <2>2. lock[u] # Free
    BY <2>1, ExecutionsAssumption DEF Free
  <2>3. u \in Keys(h)
    <3>1. CASE Undo(h)
      <4>1. pc[h] = "undo" /\ lock' = [lock EXCEPT ![first[h]] = Free]
        BY <3>1 DEF Undo
      <4>2. u = first[h]
        BY <4>1, <2>1, <2>2 DEF CallStartInv, CallStartTypeOK
      <4> QED
        BY <4>1, <4>2 DEF Keys
    <3>2. CASE Release(h, u)
      BY <3>2 DEF Release, Keys
    <3> QED
      BY <2>1, <3>1, <3>2
  <2>4. lock[u] = h
    BY <2>3 DEF CallStartInv, KeysAreHeld
  <2> QED
    BY <2>1, <2>4
<1>2. QED
  BY <1>1, CallStartInvHolds, PTL DEF OnlyTheRobbedRob

-----------------------------------------------------------------------------
(***************************************************************************)
(* For any number of calls, people, sockets and executions, whatever       *)
(* throws or restarts: what people are told is what MongoDB holds, a       *)
(* status only goes forward and a call that is over has at most one        *)
(* message; and short of failures, nobody is left ringing.                 *)
(*                                                                         *)
(* The argument: every update filters on the status it expects, so an      *)
(* execution that wakes up after its own update knows the status for good  *)
(* (KnowsTheStatus), because no other update leaves a terminal status.     *)
(***************************************************************************)

(***************************************************************************)
(* Type correctness, which includes where each operation may stop.         *)
(***************************************************************************)
THEOREM TypeCorrect == Spec => []TypeOK
<1>1. Init => TypeOK
  BY FaultsAssumption DEF Init, TypeOK, Status
<1>2. TypeOK /\ [Next]_vars => TypeOK'
  <2> SUFFICES ASSUME TypeOK, [Next]_vars PROVE TypeOK'
    OBVIOUS
  <2> USE PeopleAssumption, FaultsAssumption
      DEF TypeOK, Execution, Ops, StopsOf, Idle, Gone, IsIdle, At, Begins,
          Goes, Returns, Bind, Unbind, Closes, Tells, AfterRead, PartyOf,
          Status, Terminal, Events, callVars
  <2>1. ASSUME NEW h \in Handlers, NEW c \in Calls, NEW s \in Sockets,
         StartCall(h, c, s)
       PROVE  TypeOK'
    BY <2>1 DEF StartCall
  <2>2. ASSUME NEW h \in Handlers, Ring(h)
       PROVE  TypeOK'
    BY <2>2 DEF Ring
  <2>3. ASSUME NEW h \in Handlers, ScheduleTimeout(h)
       PROVE  TypeOK'
    BY <2>3 DEF ScheduleTimeout
  <2>4. ASSUME NEW h \in Handlers, NEW c \in Calls, NEW s \in Sockets,
         Accept(h, c, s)
       PROVE  TypeOK'
    BY <2>4 DEF Accept
  <2>5. ASSUME NEW h \in Handlers, FirstHeartbeat(h)
       PROVE  TypeOK'
    <3>1. run[h].call \in Calls
      BY <2>5 DEF FirstHeartbeat
    <3>2. bound' \in [Sockets -> Calls \union {NoCall, Gone}]
      BY <2>5, <3>1 DEF FirstHeartbeat
    <3> QED
      BY <2>5, <3>1, <3>2 DEF FirstHeartbeat
  <2>6. ASSUME NEW h \in Handlers, AnnounceAccepted(h)
       PROVE  TypeOK'
    BY <2>6 DEF AnnounceAccepted
  <2>7. ASSUME NEW h \in Handlers, NEW c \in Calls, NEW s \in Sockets,
         Reject(h, c, s)
       PROVE  TypeOK'
    BY <2>7 DEF Reject
  <2>8. ASSUME NEW h \in Handlers, AnnounceRejected(h)
       PROVE  TypeOK'
    BY <2>8 DEF AnnounceRejected
  <2>9. ASSUME NEW h \in Handlers, NEW c \in Calls, NEW s \in Sockets,
         RequestEnd(h, c, s)
       PROVE  TypeOK'
    BY <2>9 DEF RequestEnd
  <2>10. ASSUME NEW h \in Handlers, NEW s \in Sockets, Disconnect(h, s)
       PROVE  TypeOK'
    BY <2>10 DEF Disconnect
  <2>11. ASSUME NEW s \in Sockets, DisconnectUnbound(s)
       PROVE  TypeOK'
    BY <2>11 DEF DisconnectUnbound
  <2>12. ASSUME NEW h \in Handlers, FindDisconnected(h)
       PROVE  TypeOK'
    BY <2>12 DEF FindDisconnected
  <2>13. ASSUME NEW h \in Handlers, ReadForEnd(h)
       PROVE  TypeOK'
    BY <2>13, SMTT(30) DEF ReadForEnd
  <2>14. ASSUME NEW h \in Handlers, End(h)
       PROVE  TypeOK'
    BY <2>14 DEF End
  <2>15. ASSUME NEW h \in Handlers, EndTooLate(h)
       PROVE  TypeOK'
    BY <2>15 DEF EndTooLate
  <2>16. ASSUME NEW h \in Handlers, Settle(h)
       PROVE  TypeOK'
    BY <2>16 DEF Settle
  <2>17. ASSUME NEW h \in Handlers, AnnounceEnded(h)
       PROVE  TypeOK'
    BY <2>17 DEF AnnounceEnded
  <2>18. ASSUME NEW h \in Handlers, NEW c \in Calls, TimerFires(h, c)
       PROVE  TypeOK'
    BY <2>18 DEF TimerFires
  <2>19. ASSUME NEW h \in Handlers, NEW c \in Calls, CronFindsStale(h, c)
       PROVE  TypeOK'
    BY <2>19 DEF CronFindsStale
  <2>20. ASSUME NEW h \in Handlers, MarkMissed(h)
       PROVE  TypeOK'
    BY <2>20 DEF MarkMissed
  <2>21. ASSUME NEW h \in Handlers, MarkMissedTooLate(h)
       PROVE  TypeOK'
    BY <2>21 DEF MarkMissedTooLate
  <2>22. ASSUME NEW h \in Handlers, AnnounceMissed(h)
       PROVE  TypeOK'
    BY <2>22 DEF AnnounceMissed
  <2>23. ASSUME NEW h \in Handlers, NEW c \in Calls, NEW s \in Sockets,
         RequestHeartbeat(h, c, s)
       PROVE  TypeOK'
    BY <2>23 DEF RequestHeartbeat
  <2>24. ASSUME NEW h \in Handlers, Heartbeat(h)
       PROVE  TypeOK'
    BY <2>24 DEF Heartbeat
  <2>25. ASSUME NEW h \in Handlers, NEW c \in Calls, CronFindsAccepted(h, c)
       PROVE  TypeOK'
    BY <2>25 DEF CronFindsAccepted
  <2>26. ASSUME NEW h \in Handlers, CronReadsTtl(h)
       PROVE  TypeOK'
    <3>1. CASE alive[run[h].call]
      BY <2>26, <3>1 DEF CronReadsTtl
    <3>2. CASE ~alive[run[h].call]
      BY <2>26, <3>2 DEF CronReadsTtl
    <3> QED
      BY <3>1, <3>2
  <2>27. ASSUME NEW h \in Handlers, CreateCallMessage(h)
       PROVE  TypeOK'
    BY <2>27 DEF CreateCallMessage
  <2>28. ASSUME NEW h \in Handlers, NEW c \in Calls, NEW s \in Sockets,
         Signal(h, c, s)
       PROVE  TypeOK'
    BY <2>28 DEF Signal
  <2>29. ASSUME NEW h \in Handlers, BindSignalling(h)
       PROVE  TypeOK'
    <3>1. run[h].call \in Calls
      BY <2>29 DEF BindSignalling
    <3>2. bound' \in [Sockets -> Calls \union {NoCall, Gone}]
      BY <2>29, <3>1 DEF BindSignalling
    <3> QED
      BY <2>29, <3>1, <3>2 DEF BindSignalling
  <2>30. ASSUME NEW c \in Calls, RingTimeElapses(c)
       PROVE  TypeOK'
    BY <2>30 DEF RingTimeElapses
  <2>31. ASSUME NEW c \in Calls, HeartbeatExpires(c)
       PROVE  TypeOK'
    BY <2>31 DEF HeartbeatExpires
  <2>32. ASSUME NEW s \in Sockets, Reconnect(s)
       PROVE  TypeOK'
    BY <2>32 DEF Reconnect
  <2>33. ASSUME NEW h \in Handlers, Fail(h)
       PROVE  TypeOK'
    BY <2>33 DEF Fail
  <2>34. CASE Crash
    BY <2>34 DEF Crash
  <2>36. ASSUME NEW h \in Handlers, NEW c \in Calls, FindMissingMessage(h, c)
       PROVE  TypeOK'
    BY <2>36 DEF FindMissingMessage
  <2>35. CASE UNCHANGED vars
    BY <2>35 DEF vars, callVars
  <2> QED
    BY <2>1, <2>2, <2>3, <2>4, <2>5, <2>6, <2>7, <2>8, <2>9, <2>10, <2>11,
       <2>12, <2>13, <2>14, <2>15, <2>16, <2>17, <2>18, <2>19, <2>20, <2>21,
       <2>22, <2>23, <2>24, <2>25, <2>26, <2>27, <2>28, <2>29, <2>30, <2>31,
       <2>32, <2>33, <2>34, <2>35, <2>36
    DEF Next, Progress, Request, Background, Jobs, Surroundings
<1>3. QED
  BY <1>1, <1>2, PTL DEF Spec


\* The stops of an execution that has found out how its call came to an end.
Late == {"message", "settle", "emit"}

(***************************************************************************)
(* An execution that neither changes a call nor tells anybody goes on, or  *)
(* gives up before it had something to tell, and no one else moves.        *)
(***************************************************************************)
LEMMA QuietSteps ==
  ASSUME Inv, TypeOK', NEW h \in Handlers, run[h] # Idle,
         UNCHANGED <<status, closedBy, told, faults>>,
         \A g \in Handlers \ {h}: run'[g] = run[g],
         \/ /\ run'[h] = Idle
            /\ run[h].op # "accept"
            /\ run[h].at \in Late =>
                   run[h].op \in {"cronMissed", "cronLost", "reconcile"}
         \/ /\ run'[h].op = run[h].op
            /\ run'[h].call = run[h].call
            /\ run[h].at \in Late => run'[h].at \in Late
            /\ \/ run'[h].at \in Late => run[h].at \in Late
               \/ /\ run[h].op \in Ending
                  /\ status[run[h].call] = "ended"
               \/ /\ run[h].op \in Missing
                  /\ status[run[h].call] = "missed"
  PROVE  OutcomesAgree' /\ KnowsTheStatus' /\ CloserDecides' /\ WillBeTold'
  <2>1. OutcomesAgree' /\ CloserDecides'
    BY DEF Inv, OutcomesAgree, CloserDecides
  <2>2. KnowsTheStatus'
    <3> SUFFICES ASSUME NEW g \in Handlers, run'[g] # Idle
                 PROVE  LET now == status[run'[g].call] IN
                        /\ run'[g].op = "accept" => now \in {"accepted", "ended"}
                        /\ run'[g].op = "reject" => now = "rejected"
                        /\ run'[g].op = "reconcile" => now \in Terminal
                        /\ run'[g].at \in {"message", "settle", "emit"} =>
                            /\ run'[g].op \in Ending => now = "ended"
                            /\ run'[g].op \in Missing => now = "missed"
      BY DEF KnowsTheStatus
    <3>1. CASE g # h
      BY <3>1 DEF Inv, KnowsTheStatus
    <3>2. CASE g = h
      BY <3>2 DEF Inv, KnowsTheStatus, Late, Ending, Missing
    <3> QED
      BY <3>1, <3>2
  <2>3. WillBeTold'
    <3> SUFFICES ASSUME faults = 0, NEW c \in Calls
                 PROVE  /\ \/ status[c] \notin Terminal
                           \/ closedBy[c] \in {"cronMissed", "cronLost"}
                           \/ status[c] \in told[c]
                           \/ \E g \in Handlers:
                                /\ run'[g].op = closedBy[c]
                                /\ run'[g].call = c
                                /\ run'[g].at \in Late
                        /\ status[c] = "accepted" =>
                            \/ "accepted" \in told[c]
                            \/ \E g \in Handlers:
                                /\ run'[g].op = "accept"
                                /\ run'[g].call = c
      BY DEF WillBeTold, Late, Busy
    <3>1. ASSUME NEW g \in Handlers, run[g].op = closedBy[c],
                 closedBy[c] \notin {"cronMissed", "cronLost", "reconcile"},
                 run[g].at \in Late, run[g].call = c
          PROVE  /\ run'[g].op = closedBy[c]
                 /\ run'[g].call = c
                 /\ run'[g].at \in Late
      BY <3>1
    <3>2. ASSUME NEW g \in Handlers, run[g].op = "accept", run[g].call = c
          PROVE  run'[g].op = "accept" /\ run'[g].call = c
      BY <3>2
    <3>3. status[c] \in Terminal => closedBy[c] # "reconcile"
      BY DEF Inv, CloserDecides, Terminal, Ending, Missing
    <3> QED
      BY <3>1, <3>2, <3>3 DEF Inv, WillBeTold, Late, Busy
  <2> QED
    BY <2>1, <2>2, <2>3

(***************************************************************************)
(* The inductive step, action by action.                                   *)
(***************************************************************************)
LEMMA InvIsInductive ==
  ASSUME Inv, TypeOK', [Next]_vars
  PROVE  Inv'
  <2> DEFINE Facts == /\ OutcomesAgree
                      /\ OneSummaryPerCall
                      /\ KnowsTheStatus
                      /\ CloserDecides
                      /\ WillBeTold
  <2> SUFFICES Facts'
    BY DEF Inv
  <2> USE DEF Inv, TypeOK, Execution, Ops, StopsOf, Idle, IsIdle, At, Begins,
          Goes, Returns, Closes, Tells, AfterRead, 
          Status, Terminal, Events, callVars, Busy, Ending, Missing,
          OutcomesAgree, OneSummaryPerCall, KnowsTheStatus, CloserDecides,
             WillBeTold
  <2>1. ASSUME NEW h \in Handlers, NEW c \in Calls, NEW s \in Sockets,
         StartCall(h, c, s)
       PROVE  Facts'
    BY <2>1 DEF StartCall
  <2>2. ASSUME NEW h \in Handlers, Ring(h)
       PROVE  Facts'
    <3>1. OutcomesAgree'
      BY <2>2 DEF Ring
    <3>2. OneSummaryPerCall'
      BY <2>2 DEF Ring
    <3>3. KnowsTheStatus'
      BY <2>2 DEF Ring
    <3>4. CloserDecides'
      BY <2>2 DEF Ring
    <3>5. WillBeTold'
      <4>1. UNCHANGED <<status, closedBy, faults>>
        BY <2>2 DEF Ring
      <4>2. \A c \in Calls: told[c] \subseteq told'[c]
        BY <2>2 DEF Ring
      <4>3. \A g \in Handlers:
              /\ run'[g].op = run[g].op /\ run'[g].call = run[g].call
              /\ run[g].at \in Late => run'[g].at \in Late
        BY <2>2 DEF Ring, Late
      <4> HIDE DEF TypeOK, Execution, OutcomesAgree, OneSummaryPerCall,
                   KnowsTheStatus, CloserDecides
      <4> QED
        BY <4>1, <4>2, <4>3 DEF Late
    <3> QED
      BY <3>1, <3>2, <3>3, <3>4, <3>5
  <2>3. ASSUME NEW h \in Handlers, ScheduleTimeout(h)
       PROVE  Facts'
    BY <2>3 DEF ScheduleTimeout
  <2>4. ASSUME NEW h \in Handlers, NEW c \in Calls, NEW s \in Sockets,
         Accept(h, c, s)
       PROVE  Facts'
    BY <2>4 DEF Accept
  <2>5. ASSUME NEW h \in Handlers, FirstHeartbeat(h)
       PROVE  Facts'
    <3>1. OutcomesAgree'
      BY <2>5 DEF FirstHeartbeat
    <3>2. OneSummaryPerCall'
      BY <2>5 DEF FirstHeartbeat
    <3>3. KnowsTheStatus'
      BY <2>5 DEF FirstHeartbeat
    <3>4. CloserDecides'
      BY <2>5 DEF FirstHeartbeat
    <3>5. WillBeTold'
      BY <2>5, SMTT(30) DEF FirstHeartbeat
    <3> QED
      BY <3>1, <3>2, <3>3, <3>4, <3>5
  <2>6. ASSUME NEW h \in Handlers, AnnounceAccepted(h)
       PROVE  Facts'
    BY <2>6 DEF AnnounceAccepted
  <2>7. ASSUME NEW h \in Handlers, NEW c \in Calls, NEW s \in Sockets,
         Reject(h, c, s)
       PROVE  Facts'
    BY <2>7 DEF Reject
  <2>8. ASSUME NEW h \in Handlers, AnnounceRejected(h)
       PROVE  Facts'
    BY <2>8 DEF AnnounceRejected
  <2>9. ASSUME NEW h \in Handlers, NEW c \in Calls, NEW s \in Sockets,
         RequestEnd(h, c, s)
       PROVE  Facts'
    BY <2>9 DEF RequestEnd
  <2>10. ASSUME NEW h \in Handlers, NEW s \in Sockets, Disconnect(h, s)
       PROVE  Facts'
    BY <2>10 DEF Disconnect
  <2>11. ASSUME NEW s \in Sockets, DisconnectUnbound(s)
       PROVE  Facts'
    BY <2>11 DEF DisconnectUnbound
  <2>12. ASSUME NEW h \in Handlers, FindDisconnected(h)
       PROVE  Facts'
    <3>1. OneSummaryPerCall'
      BY <2>12 DEF FindDisconnected
    <3> HIDE DEF Inv, TypeOK, OutcomesAgree, OneSummaryPerCall, KnowsTheStatus,
            CloserDecides, WillBeTold
    <3>2. OutcomesAgree' /\ KnowsTheStatus' /\ CloserDecides' /\ WillBeTold'
      <4>1. run \in [Handlers -> Execution \union {Idle}]
        BY DEF Inv, TypeOK
      <4> QED
        BY <2>12, <4>1, QuietSteps DEF FindDisconnected, Late
    <3> QED
      BY <3>1, <3>2
  <2>13. ASSUME NEW h \in Handlers, ReadForEnd(h)
       PROVE  Facts'
    <3>1. OneSummaryPerCall'
      BY <2>13 DEF ReadForEnd
    <3> HIDE DEF Inv, TypeOK, OutcomesAgree, OneSummaryPerCall, KnowsTheStatus,
            CloserDecides, WillBeTold
    <3>2. OutcomesAgree' /\ KnowsTheStatus' /\ CloserDecides' /\ WillBeTold'
      <4>1. run \in [Handlers -> Execution \union {Idle}]
        BY DEF Inv, TypeOK
      <4> QED
        BY <2>13, <4>1, QuietSteps DEF ReadForEnd, Late
    <3> QED
      BY <3>1, <3>2
  <2>14. ASSUME NEW h \in Handlers, End(h)
       PROVE  Facts'
    <3>1. OutcomesAgree'
      BY <2>14 DEF End
    <3>2. OneSummaryPerCall'
      BY <2>14 DEF End
    <3>3. KnowsTheStatus'
      BY <2>14, SMTT(30) DEF End
    <3>4. CloserDecides'
      BY <2>14 DEF End
    <3>5. WillBeTold'
      BY <2>14, SMTT(30) DEF End
    <3> QED
      BY <3>1, <3>2, <3>3, <3>4, <3>5
  <2>15. ASSUME NEW h \in Handlers, EndTooLate(h)
       PROVE  Facts'
    BY <2>15 DEF EndTooLate
  <2>16. ASSUME NEW h \in Handlers, Settle(h)
       PROVE  Facts'
    <3>1. OneSummaryPerCall'
      BY <2>16 DEF Settle
    <3> HIDE DEF Inv, TypeOK, OutcomesAgree, OneSummaryPerCall, KnowsTheStatus,
            CloserDecides, WillBeTold
    <3>2. OutcomesAgree' /\ KnowsTheStatus' /\ CloserDecides' /\ WillBeTold'
      <4>1. run \in [Handlers -> Execution \union {Idle}]
        BY DEF Inv, TypeOK
      <4> QED
        BY <2>16, <4>1, QuietSteps DEF Settle, Late
    <3> QED
      BY <3>1, <3>2
  <2>17. ASSUME NEW h \in Handlers, AnnounceEnded(h)
       PROVE  Facts'
    BY <2>17 DEF AnnounceEnded
  <2>18. ASSUME NEW h \in Handlers, NEW c \in Calls, TimerFires(h, c)
       PROVE  Facts'
    BY <2>18 DEF TimerFires
  <2>19. ASSUME NEW h \in Handlers, NEW c \in Calls, CronFindsStale(h, c)
       PROVE  Facts'
    BY <2>19 DEF CronFindsStale
  <2>20. ASSUME NEW h \in Handlers, MarkMissed(h)
       PROVE  Facts'
    <3>1. OutcomesAgree'
      BY <2>20 DEF MarkMissed
    <3>2. OneSummaryPerCall'
      BY <2>20 DEF MarkMissed
    <3>3. KnowsTheStatus'
      BY <2>20 DEF MarkMissed
    <3>4. CloserDecides'
      BY <2>20 DEF MarkMissed
    <3>5. WillBeTold'
      BY <2>20, SMTT(30) DEF MarkMissed
    <3> QED
      BY <3>1, <3>2, <3>3, <3>4, <3>5
  <2>21. ASSUME NEW h \in Handlers, MarkMissedTooLate(h)
       PROVE  Facts'
    <3>1. OneSummaryPerCall'
      BY <2>21 DEF MarkMissedTooLate
    <3> HIDE DEF Inv, TypeOK, OutcomesAgree, OneSummaryPerCall, KnowsTheStatus,
            CloserDecides, WillBeTold
    <3>2. OutcomesAgree' /\ KnowsTheStatus' /\ CloserDecides' /\ WillBeTold'
      <4>1. run \in [Handlers -> Execution \union {Idle}]
        BY DEF Inv, TypeOK
      <4> QED
        BY <2>21, <4>1, QuietSteps DEF MarkMissedTooLate, Late
    <3> QED
      BY <3>1, <3>2
  <2>22. ASSUME NEW h \in Handlers, AnnounceMissed(h)
       PROVE  Facts'
    BY <2>22 DEF AnnounceMissed
  <2>23. ASSUME NEW h \in Handlers, NEW c \in Calls, NEW s \in Sockets,
         RequestHeartbeat(h, c, s)
       PROVE  Facts'
    BY <2>23 DEF RequestHeartbeat
  <2>24. ASSUME NEW h \in Handlers, Heartbeat(h)
       PROVE  Facts'
    BY <2>24 DEF Heartbeat
  <2>25. ASSUME NEW h \in Handlers, NEW c \in Calls, CronFindsAccepted(h, c)
       PROVE  Facts'
    BY <2>25 DEF CronFindsAccepted
  <2>26. ASSUME NEW h \in Handlers, CronReadsTtl(h)
       PROVE  Facts'
    <3>1. OneSummaryPerCall'
      BY <2>26 DEF CronReadsTtl
    <3> HIDE DEF Inv, TypeOK, OutcomesAgree, OneSummaryPerCall, KnowsTheStatus,
            CloserDecides, WillBeTold
    <3>2. OutcomesAgree' /\ KnowsTheStatus' /\ CloserDecides' /\ WillBeTold'
      <4>1. run \in [Handlers -> Execution \union {Idle}]
        BY DEF Inv, TypeOK
      <4> QED
        BY <2>26, <4>1, QuietSteps DEF CronReadsTtl, Late
    <3> QED
      BY <3>1, <3>2
  <2>27. ASSUME NEW h \in Handlers, CreateCallMessage(h)
       PROVE  Facts'
    <3>1. OneSummaryPerCall'
      BY <2>27, SMTT(30) DEF CreateCallMessage
    <3> HIDE DEF Inv, TypeOK, OutcomesAgree, OneSummaryPerCall, KnowsTheStatus,
            CloserDecides, WillBeTold
    <3>2. OutcomesAgree' /\ KnowsTheStatus' /\ CloserDecides' /\ WillBeTold'
      <4>1. run \in [Handlers -> Execution \union {Idle}]
        BY DEF Inv, TypeOK
      <4> QED
        BY <2>27, <4>1, QuietSteps DEF CreateCallMessage, Late
    <3> QED
      BY <3>1, <3>2
  <2>28. ASSUME NEW h \in Handlers, NEW c \in Calls, NEW s \in Sockets,
         Signal(h, c, s)
       PROVE  Facts'
    BY <2>28 DEF Signal
  <2>29. ASSUME NEW h \in Handlers, BindSignalling(h)
       PROVE  Facts'
    BY <2>29 DEF BindSignalling
  <2>30. ASSUME NEW c \in Calls, RingTimeElapses(c)
       PROVE  Facts'
    BY <2>30 DEF RingTimeElapses
  <2>31. ASSUME NEW c \in Calls, HeartbeatExpires(c)
       PROVE  Facts'
    BY <2>31 DEF HeartbeatExpires
  <2>32. ASSUME NEW s \in Sockets, Reconnect(s)
       PROVE  Facts'
    BY <2>32 DEF Reconnect
  <2>33. ASSUME NEW h \in Handlers, Fail(h)
       PROVE  Facts'
    BY <2>33 DEF Fail
  <2>34. CASE Crash
    BY <2>34 DEF Crash
  <2>36. ASSUME NEW h \in Handlers, NEW c \in Calls, FindMissingMessage(h, c)
       PROVE  Facts'
    BY <2>36 DEF FindMissingMessage
  <2>35. CASE UNCHANGED vars
    BY <2>35 DEF vars, callVars
  <2> HIDE DEF Inv, TypeOK, Execution, Ops, StopsOf, Idle, IsIdle, At, Begins,
           Goes, Returns, Closes, Tells, AfterRead, 
           Status, Terminal, Events, callVars, Busy, Ending, Missing,
           OutcomesAgree, OneSummaryPerCall, KnowsTheStatus, CloserDecides,
              WillBeTold
  <2> QED
    BY <2>1, <2>2, <2>3, <2>4, <2>5, <2>6, <2>7, <2>8, <2>9, <2>10, <2>11,
       <2>12, <2>13, <2>14, <2>15, <2>16, <2>17, <2>18, <2>19, <2>20, <2>21,
       <2>22, <2>23, <2>24, <2>25, <2>26, <2>27, <2>28, <2>29, <2>30, <2>31,
       <2>32, <2>33, <2>34, <2>35, <2>36
    DEF Next, Progress, Request, Background, Jobs, Surroundings

(***************************************************************************)
(* The invariant holds: what an execution that wakes up takes for granted  *)
(* of its call is so.                                                      *)
(***************************************************************************)
THEOREM InvHolds == Spec => []Inv
<1>1. Init => Inv
  BY FaultsAssumption DEF Init, Inv, TypeOK, Status, Terminal, OutcomesAgree,
     OneSummaryPerCall, KnowsTheStatus, CloserDecides, WillBeTold, Ending,
     Missing
<1>2. Inv /\ TypeOK' /\ [Next]_vars => Inv'
  BY InvIsInductive
<1>3. QED
  BY <1>1, <1>2, TypeCorrect, PTL DEF Spec

(***************************************************************************)
(* Nobody is told an outcome that is not the one of the call.              *)
(***************************************************************************)
THEOREM Outcomes == Spec => []OutcomesAgree
<1>1. Inv => OutcomesAgree
  BY DEF Inv
<1>2. QED
  BY <1>1, InvHolds, PTL

(***************************************************************************)
(* A call has at most one summary message, and only when it is over.       *)
(***************************************************************************)
THEOREM OneSummary == Spec => []OneSummaryPerCall
<1>1. Inv => OneSummaryPerCall
  BY DEF Inv
<1>2. QED
  BY <1>1, InvHolds, PTL

(***************************************************************************)
(* Short of failures, whoever answered or closed a call and is done has    *)
(* told both people.                                                       *)
(***************************************************************************)
THEOREM Told == Spec => []NobodyIsLeftRinging
<1>1. Inv => NobodyIsLeftRinging
  BY DEF Inv, WillBeTold, NobodyIsLeftRinging, Busy
<1>2. QED
  BY <1>1, InvHolds, PTL

(***************************************************************************)
(* A status only goes forward: late timers and late answers change nothing.*)
(***************************************************************************)
THEOREM OnlyForward == Spec => StatusIsForward
<1>1. Inv /\ [Next]_vars => [Forward]_vars
  <2> SUFFICES ASSUME Inv, Next PROVE Forward
    BY DEF Forward, vars, callVars
  <2> USE DEF Inv, TypeOK, Forward, callVars, Closes, Terminal
  <2>1. ASSUME NEW h \in Handlers, NEW c \in Calls, NEW s \in Sockets,
               Request(h, c, s)
        PROVE  Forward
    BY <2>1 DEF Request, StartCall, Accept, Reject, RequestEnd,
                RequestHeartbeat, Signal
  <2>2. ASSUME NEW h \in Handlers, Progress(h) \/ Fail(h) PROVE Forward
    BY <2>2 DEF Progress, Fail, Ring, ScheduleTimeout, FirstHeartbeat,
       AnnounceAccepted, AnnounceRejected, FindDisconnected, ReadForEnd, End,
       EndTooLate, Settle, AnnounceEnded, MarkMissed, MarkMissedTooLate,
       AnnounceMissed, Heartbeat, CronReadsTtl, CreateCallMessage,
       BindSignalling
  <2>3. ASSUME NEW h \in Handlers, NEW c \in Calls, Background(h, c)
        PROVE  Forward
    BY <2>3 DEF Background, Jobs, TimerFires, CronFindsStale, CronFindsAccepted,
                FindMissingMessage
  <2>4. ASSUME NEW h \in Handlers, NEW s \in Sockets, Disconnect(h, s)
        PROVE  Forward
    BY <2>4 DEF Disconnect
  <2>5. ASSUME NEW s \in Sockets, DisconnectUnbound(s) \/ Reconnect(s)
        PROVE  Forward
    BY <2>5 DEF DisconnectUnbound, Reconnect
  <2>6. ASSUME NEW c \in Calls, Surroundings(c) PROVE Forward
    BY <2>6 DEF Surroundings, RingTimeElapses, HeartbeatExpires
  <2>7. CASE Crash
    BY <2>7 DEF Crash
  <2> QED
    BY <2>1, <2>2, <2>3, <2>4, <2>5, <2>6, <2>7 DEF Next
<1>2. QED
  BY <1>1, InvHolds, PTL DEF Spec, StatusIsForward
=============================================================================
