---------------------------- MODULE CallLifecycle ----------------------------
(***************************************************************************)
(* The life of a call after startCall created it: RealtimeCallService and  *)
(* CallService, with the gateway's disconnect handler.                     *)
(*                                                                         *)
(* Every request, timer callback and cron pass is an execution that stops  *)
(* at each await; between two stops anything else may run.  An execution   *)
(* is at the stop its `at' names, and its next action is what it does from *)
(* there to the following stop, with the effect of the MongoDB or Redis    *)
(* command it awaits there.  A request the code refuses with an exception  *)
(* before it changed anything is a step not taken.                         *)
(*                                                                         *)
(* Who may start a call is module CallStart.  Call tokens, payloads and    *)
(* the relaying of offers, answers and candidates are left out, except     *)
(* that they tie the call to the socket.                                   *)
(***************************************************************************)
EXTENDS Naturals, FiniteSets

CONSTANTS
    Calls, Users, Sockets,
    Handlers,               \* executions in flight at a time
    CallerOf, CalleeOf,     \* the two people of a call
    OwnerOf,                \* the person behind a socket
    NoCall, NoSocket,
    MaxFaults               \* bound on exceptions and crashes

ASSUME PeopleAssumption ==
    /\ CallerOf \in [Calls -> Users]
    /\ CalleeOf \in [Calls -> Users]
    /\ \A c \in Calls: CallerOf[c] # CalleeOf[c]
    /\ OwnerOf \in [Sockets -> Users]
ASSUME NothingAssumption ==
    /\ NoCall \notin Calls
    /\ NoSocket \notin Sockets
ASSUME FaultsAssumption == MaxFaults \in Nat

Terminal == {"rejected", "ended", "missed"}
Status == {"none", "calling", "accepted"} \union Terminal
Events == {"incoming", "accepted", "rejected", "ended", "missed"}
Ops == {"start", "accept", "reject", "end", "disconnect", "timer",
        "cronMissed", "cronLost", "beat", "signal", "reconcile"}

\* Where each operation may stop.
StopsOf(o) ==
    CASE o = "start"      -> {"token", "push"}
      [] o = "accept"     -> {"beat", "emit"}
      [] o = "reject"     -> {"message", "emit"}
      [] o = "end"        -> {"cas", "message", "settle", "emit"}
      [] o = "disconnect" -> {"find", "read", "cas", "message", "settle", "emit"}
      [] o = "timer"      -> {"miss", "message", "emit"}
      [] o = "cronMissed" -> {"miss", "message", "settle"}
      [] o = "cronLost"   -> {"ttl", "read", "cas", "message", "settle"}
      [] o = "beat"       -> {"beat"}
      [] o = "signal"     -> {"bind"}
      [] o = "reconcile"  -> {"message"}

VARIABLES
    status,     \* MongoDB: status of the call document
    summary,    \* MongoDB: messages that carry the call's callId
    alive,      \* Redis: call:heartbeat:accepted:<call> exists
    timer,      \* memory: callTimeoutTimers has the call
    bound,      \* memory: client.data.activeCallId of a socket
    run,        \* memory: the executions
    told,       \* events emitted to the two people
    ringOver,   \* createdAt is at least CALL_RING_TIMEOUT_MS ago
    closedBy,   \* history: which operation made the call terminal
    faults

callVars == <<status, summary, closedBy>>
vars == <<status, summary, alive, timer, bound, run, told, ringOver,
          closedBy, faults>>

Gone == "gone"      \* a socket that is disconnected

Execution ==
    {e \in [op: Ops, at: UNION {StopsOf(o): o \in Ops}, call: Calls,
            via: Sockets \union {NoSocket}]: e.at \in StopsOf(e.op)}
Idle == [op |-> "none", at |-> "idle", call |-> NoCall, via |-> NoSocket]

TypeOK ==
    /\ status \in [Calls -> Status]
    /\ summary \in [Calls -> Nat]
    /\ alive \in [Calls -> BOOLEAN]
    /\ timer \in [Calls -> BOOLEAN]
    /\ bound \in [Sockets -> Calls \union {NoCall, Gone}]
    /\ run \in [Handlers -> Execution \union {Idle}]
    /\ told \in [Calls -> SUBSET Events]
    /\ ringOver \in [Calls -> BOOLEAN]
    /\ closedBy \in [Calls -> Ops \union {"none"}]
    /\ faults \in 0..MaxFaults

Init ==
    /\ status = [c \in Calls |-> "none"]
    /\ summary = [c \in Calls |-> 0]
    /\ alive = [c \in Calls |-> FALSE]
    /\ timer = [c \in Calls |-> FALSE]
    /\ bound = [s \in Sockets |-> NoCall]
    /\ run = [h \in Handlers |-> Idle]
    /\ told = [c \in Calls |-> {}]
    /\ ringOver = [c \in Calls |-> FALSE]
    /\ closedBy = [c \in Calls |-> "none"]
    /\ faults = 0

-----------------------------------------------------------------------------
(* Helpers.                                                                *)

PartyOf(c) == {CallerOf[c], CalleeOf[c]}

IsIdle(h) == run[h].at = "idle"
At(h, o, stop) == run[h].op \in o /\ run[h].at = stop

Begins(h, o, stop, c, s) ==
    run' = [run EXCEPT ![h] = [op |-> o, at |-> stop, call |-> c, via |-> s]]
Goes(h, stop) == run' = [run EXCEPT ![h].at = stop]
Returns(h) == run' = [run EXCEPT ![h] = Idle]

\* Setting activeCallId on a socket that is gone is of no consequence.
Bind(s, c) ==
    bound' = [bound EXCEPT ![s] = IF @ = Gone THEN Gone ELSE c]
\* clearSocketActiveCall does not look which call it clears.
Unbind(s) == Bind(s, NoCall)

\* A status update that filters on the status it expects.
Closes(c, from, to, o) ==
    /\ status[c] \in from
    /\ status' = [status EXCEPT ![c] = to]
    /\ closedBy' = [closedBy EXCEPT ![c] = o]
    /\ UNCHANGED summary

Tells(c, e) == told' = [told EXCEPT ![c] = @ \union {e}]

\* Where endCall goes after it read the call: an ended call only gets its
\* message, anything else is tried.
AfterRead(c) == IF status[c] = "ended" THEN "message" ELSE "cas"

-----------------------------------------------------------------------------
(* startCall, from the insert of the call on.                              *)

StartCall(h, c, s) ==
    /\ IsIdle(h)
    /\ status[c] = "none"
    /\ OwnerOf[s] = CallerOf[c]
    /\ status' = [status EXCEPT ![c] = "calling"]
    /\ Bind(s, c)
    /\ Begins(h, "start", "token", c, s)
    /\ UNCHANGED <<summary, closedBy, alive, timer, told, ringOver, faults>>

Ring(h) ==
    /\ At(h, {"start"}, "token")
    /\ Tells(run[h].call, "incoming")
    /\ Goes(h, "push")
    /\ UNCHANGED <<callVars, alive, timer, bound, ringOver, faults>>

\* Only now, after the push: the call may have been answered meanwhile.
ScheduleTimeout(h) ==
    /\ At(h, {"start"}, "push")
    /\ timer' = [timer EXCEPT ![run[h].call] = TRUE]
    /\ Returns(h)
    /\ UNCHANGED <<callVars, alive, bound, told, ringOver, faults>>

-----------------------------------------------------------------------------
(* acceptCall and rejectCall.                                              *)

Accept(h, c, s) ==
    /\ IsIdle(h)
    /\ OwnerOf[s] = CalleeOf[c]
    /\ status[c] = "calling"
    /\ status' = [status EXCEPT ![c] = "accepted"]
    /\ Begins(h, "accept", "beat", c, s)
    /\ UNCHANGED <<summary, closedBy, alive, timer, bound, told, ringOver,
                   faults>>

FirstHeartbeat(h) ==
    /\ At(h, {"accept"}, "beat")
    /\ Bind(run[h].via, run[h].call)
    /\ timer' = [timer EXCEPT ![run[h].call] = FALSE]
    /\ alive' = [alive EXCEPT ![run[h].call] = TRUE]
    /\ Goes(h, "emit")
    /\ UNCHANGED <<callVars, told, ringOver, faults>>

AnnounceAccepted(h) ==
    /\ At(h, {"accept"}, "emit")
    /\ Tells(run[h].call, "accepted")
    /\ Returns(h)
    /\ UNCHANGED <<callVars, alive, timer, bound, ringOver, faults>>

Reject(h, c, s) ==
    /\ IsIdle(h)
    /\ OwnerOf[s] = CalleeOf[c]
    /\ Closes(c, {"calling"}, "rejected", "reject")
    /\ Begins(h, "reject", "message", c, s)
    /\ UNCHANGED <<alive, timer, bound, told, ringOver, faults>>

AnnounceRejected(h) ==
    /\ At(h, {"reject"}, "emit")
    /\ timer' = [timer EXCEPT ![run[h].call] = FALSE]
    /\ Unbind(run[h].via)
    /\ Tells(run[h].call, "rejected")
    /\ Returns(h)
    /\ UNCHANGED <<callVars, alive, ringOver, faults>>

-----------------------------------------------------------------------------
(* endCall, on request or because a socket disconnects.                    *)

RequestEnd(h, c, s) ==
    /\ IsIdle(h)
    /\ status[c] # "none"
    /\ OwnerOf[s] \in PartyOf(c)
    /\ Begins(h, "end", AfterRead(c), c, s)
    /\ UNCHANGED <<callVars, alive, timer, bound, told, ringOver, faults>>

\* handleDisconnect acts on the call the socket is bound to, if any.
Disconnect(h, s) ==
    /\ IsIdle(h)
    /\ bound[s] \in Calls
    /\ OwnerOf[s] \in PartyOf(bound[s])
    /\ bound' = [bound EXCEPT ![s] = Gone]
    /\ Begins(h, "disconnect", "find", bound[s], s)
    /\ UNCHANGED <<callVars, alive, timer, told, ringOver, faults>>

DisconnectUnbound(s) ==
    /\ bound[s] = NoCall
    /\ bound' = [bound EXCEPT ![s] = Gone]
    /\ UNCHANGED <<callVars, alive, timer, run, told, ringOver, faults>>

FindDisconnected(h) ==
    /\ At(h, {"disconnect"}, "find")
    /\ IF status[run[h].call] = "ended" THEN Returns(h) ELSE Goes(h, "read")
    /\ UNCHANGED <<callVars, alive, timer, bound, told, ringOver, faults>>

ReadForEnd(h) ==
    /\ At(h, {"disconnect", "cronLost"}, "read")
    /\ Goes(h, AfterRead(run[h].call))
    /\ UNCHANGED <<callVars, alive, timer, bound, told, ringOver, faults>>

End(h) ==
    /\ At(h, {"end", "disconnect", "cronLost"}, "cas")
    /\ Closes(run[h].call, {"calling", "accepted"}, "ended", run[h].op)
    /\ Goes(h, "message")
    /\ UNCHANGED <<alive, timer, bound, told, ringOver, faults>>

\* Rejected, missed or ended meanwhile: ALREADY_ENDED is thrown.
EndTooLate(h) ==
    /\ At(h, {"end", "disconnect", "cronLost"}, "cas")
    /\ status[run[h].call] \notin {"calling", "accepted"}
    /\ Returns(h)
    /\ UNCHANGED <<callVars, alive, timer, bound, told, ringOver, faults>>

\* The cron pass tells nobody.
Settle(h) ==
    /\ At(h, {"end", "disconnect", "cronLost", "cronMissed"}, "settle")
    /\ timer' = [timer EXCEPT ![run[h].call] = FALSE]
    /\ alive' = [alive EXCEPT ![run[h].call] = FALSE]
    /\ IF run[h].op \in {"cronLost", "cronMissed"}
       THEN Returns(h) ELSE Goes(h, "emit")
    /\ UNCHANGED <<callVars, bound, told, ringOver, faults>>

\* Mutant: only the request announces the end, the disconnect forgets to.
AnnounceEnded_OnRequest(h) ==
    /\ At(h, {"end", "disconnect"}, "emit")
    /\ Unbind(run[h].via)
    /\ IF run[h].op = "end" THEN Tells(run[h].call, "ended") ELSE UNCHANGED told
    /\ Returns(h)
    /\ UNCHANGED <<callVars, alive, timer, ringOver, faults>>

AnnounceEnded(h) ==
    /\ At(h, {"end", "disconnect"}, "emit")
    /\ IF run[h].op = "end" THEN Unbind(run[h].via) ELSE UNCHANGED bound
    /\ Tells(run[h].call, "ended")
    /\ Returns(h)
    /\ UNCHANGED <<callVars, alive, timer, ringOver, faults>>

-----------------------------------------------------------------------------
(* The ring timeout: the timer in memory and the first half of the cron.   *)

TimerFires(h, c) ==
    /\ IsIdle(h)
    /\ timer[c]
    /\ ringOver[c]
    /\ timer' = [timer EXCEPT ![c] = FALSE]
    /\ Begins(h, "timer", "miss", c, NoSocket)
    /\ UNCHANGED <<callVars, alive, bound, told, ringOver, faults>>

CronFindsStale(h, c) ==
    /\ IsIdle(h)
    /\ status[c] = "calling"
    /\ ringOver[c]
    /\ Begins(h, "cronMissed", "miss", c, NoSocket)
    /\ UNCHANGED <<callVars, alive, timer, bound, told, ringOver, faults>>

\* Mutant: the update does not filter on the status.
MarkMissed_Unfiltered(h) ==
    /\ At(h, {"timer", "cronMissed"}, "miss")
    /\ Closes(run[h].call, Status, "missed", run[h].op)
    /\ Goes(h, "message")
    /\ UNCHANGED <<alive, timer, bound, told, ringOver, faults>>

MarkMissed(h) ==
    /\ At(h, {"timer", "cronMissed"}, "miss")
    /\ Closes(run[h].call, {"calling"}, "missed", run[h].op)
    /\ Goes(h, "message")
    /\ UNCHANGED <<alive, timer, bound, told, ringOver, faults>>

\* Mutant: a timer that comes too late is taken for one that closed the call.
MarkMissedTooLate_Ignored(h) ==
    /\ At(h, {"timer", "cronMissed"}, "miss")
    /\ status[run[h].call] # "calling"
    /\ Goes(h, "message")
    /\ UNCHANGED <<callVars, alive, timer, bound, told, ringOver, faults>>

\* A call already missed gets its message, any other status is left alone.
MarkMissedTooLate(h) ==
    /\ At(h, {"timer", "cronMissed"}, "miss")
    /\ status[run[h].call] # "calling"
    /\ IF status[run[h].call] = "missed" THEN Goes(h, "message") ELSE Returns(h)
    /\ UNCHANGED <<callVars, alive, timer, bound, told, ringOver, faults>>

AnnounceMissed(h) ==
    /\ At(h, {"timer"}, "emit")
    /\ Tells(run[h].call, "missed")
    /\ Returns(h)
    /\ UNCHANGED <<callVars, alive, timer, bound, ringOver, faults>>

-----------------------------------------------------------------------------
(* The heartbeat of an accepted call and the second half of the cron.      *)

RequestHeartbeat(h, c, s) ==
    /\ IsIdle(h)
    /\ OwnerOf[s] = CalleeOf[c]
    /\ status[c] = "accepted"
    /\ Begins(h, "beat", "beat", c, s)
    /\ UNCHANGED <<callVars, alive, timer, bound, told, ringOver, faults>>

Heartbeat(h) ==
    /\ At(h, {"beat"}, "beat")
    /\ alive' = [alive EXCEPT ![run[h].call] = TRUE]
    /\ Returns(h)
    /\ UNCHANGED <<callVars, timer, bound, told, ringOver, faults>>

CronFindsAccepted(h, c) ==
    /\ IsIdle(h)
    /\ status[c] = "accepted"
    /\ Begins(h, "cronLost", "ttl", c, NoSocket)
    /\ UNCHANGED <<callVars, alive, timer, bound, told, ringOver, faults>>

\* Mutant: the TTL of a missing key, -2, is taken for a sign of life.
CronReadsTtl_NotZero(h) ==
    /\ At(h, {"cronLost"}, "ttl")
    /\ Returns(h)
    /\ UNCHANGED <<callVars, alive, timer, bound, told, ringOver, faults>>

CronReadsTtl(h) ==
    /\ At(h, {"cronLost"}, "ttl")
    /\ IF alive[run[h].call] THEN Returns(h) ELSE Goes(h, "read")
    /\ UNCHANGED <<callVars, alive, timer, bound, told, ringOver, faults>>

-----------------------------------------------------------------------------
(* createCallMessage: the unique index on callId lets one message in, a    *)
(* duplicate is swallowed, any other error is an exception (Fail).         *)

\* Mutant: no unique index on callId.
CreateCallMessage_NoIndex(h) ==
    /\ run[h].at = "message"
    /\ summary' = [summary EXCEPT ![run[h].call] = @ + 1]
    /\ IF run[h].op = "reconcile" THEN Returns(h)
       ELSE Goes(h, IF run[h].op \in {"reject", "timer"} THEN "emit" ELSE "settle")
    /\ UNCHANGED <<status, closedBy, alive, timer, bound, told, ringOver,
                   faults>>

CreateCallMessage(h) ==
    /\ run[h].at = "message"
    /\ summary' = [summary EXCEPT ![run[h].call] = IF @ = 0 THEN 1 ELSE @]
    /\ IF run[h].op = "reconcile" THEN Returns(h)
       ELSE Goes(h, IF run[h].op \in {"reject", "timer"} THEN "emit" ELSE "settle")
    /\ UNCHANGED <<status, closedBy, alive, timer, bound, told, ringOver,
                   faults>>

\* The nightly job finds a call that is over, which it will stay, and no message
\* of it.
FindMissingMessage(h, c) ==
    /\ IsIdle(h)
    /\ status[c] \in Terminal
    /\ summary[c] = 0
    /\ Begins(h, "reconcile", "message", c, NoSocket)
    /\ UNCHANGED <<callVars, alive, timer, bound, told, ringOver, faults>>

\* forwardOffer, forwardAnswer and forwardIceCandidate tie an accepted call to
\* the socket that signals.
Signal(h, c, s) ==
    /\ IsIdle(h)
    /\ status[c] = "accepted"
    /\ OwnerOf[s] \in PartyOf(c)
    /\ Begins(h, "signal", "bind", c, s)
    /\ UNCHANGED <<callVars, alive, timer, bound, told, ringOver, faults>>

BindSignalling(h) ==
    /\ At(h, {"signal"}, "bind")
    /\ Bind(run[h].via, run[h].call)
    /\ Returns(h)
    /\ UNCHANGED <<callVars, alive, timer, told, ringOver, faults>>

-----------------------------------------------------------------------------
(* Time, clients and failures.                                             *)

RingTimeElapses(c) ==
    /\ status[c] # "none"
    /\ ~ringOver[c]
    /\ ringOver' = [ringOver EXCEPT ![c] = TRUE]
    /\ UNCHANGED <<callVars, alive, timer, bound, run, told, faults>>

HeartbeatExpires(c) ==
    /\ alive[c]
    /\ alive' = [alive EXCEPT ![c] = FALSE]
    /\ UNCHANGED <<callVars, timer, bound, run, told, ringOver, faults>>

Reconnect(s) ==
    /\ bound[s] = Gone
    /\ bound' = [bound EXCEPT ![s] = NoCall]
    /\ UNCHANGED <<callVars, alive, timer, run, told, ringOver, faults>>

\* What an execution awaits is rejected: it leaves what it has done so far.
Fail(h) ==
    /\ ~IsIdle(h)
    /\ faults < MaxFaults
    /\ faults' = faults + 1
    /\ Returns(h)
    /\ UNCHANGED <<callVars, alive, timer, bound, told, ringOver>>

\* The process restarts: timers, sockets and executions are lost.
Crash ==
    /\ faults < MaxFaults
    /\ faults' = faults + 1
    /\ timer' = [c \in Calls |-> FALSE]
    /\ bound' = [s \in Sockets |-> Gone]
    /\ run' = [h \in Handlers |-> Idle]
    /\ UNCHANGED <<callVars, alive, told, ringOver>>

-----------------------------------------------------------------------------
Progress(h) ==
    \/ Ring(h) \/ ScheduleTimeout(h)
    \/ FirstHeartbeat(h) \/ AnnounceAccepted(h) \/ AnnounceRejected(h)
    \/ FindDisconnected(h) \/ ReadForEnd(h) \/ End(h) \/ EndTooLate(h)
    \/ Settle(h) \/ AnnounceEnded(h)
    \/ MarkMissed(h) \/ MarkMissedTooLate(h) \/ AnnounceMissed(h)
    \/ Heartbeat(h) \/ CronReadsTtl(h)
    \/ CreateCallMessage(h) \/ BindSignalling(h)

Request(h, c, s) ==
    \/ StartCall(h, c, s) \/ Accept(h, c, s) \/ Reject(h, c, s)
    \/ RequestEnd(h, c, s) \/ RequestHeartbeat(h, c, s) \/ Signal(h, c, s)

Jobs(h, c) ==
    CronFindsStale(h, c) \/ CronFindsAccepted(h, c) \/ FindMissingMessage(h, c)

Background(h, c) == TimerFires(h, c) \/ Jobs(h, c)

Surroundings(c) ==
    RingTimeElapses(c) \/ HeartbeatExpires(c)

Next ==
    \/ \E h \in Handlers: Progress(h) \/ Fail(h)
    \/ \E h \in Handlers, c \in Calls, s \in Sockets: Request(h, c, s)
    \/ \E h \in Handlers, c \in Calls: Background(h, c)
    \/ \E h \in Handlers, s \in Sockets: Disconnect(h, s)
    \/ \E s \in Sockets: DisconnectUnbound(s) \/ Reconnect(s)
    \/ \E c \in Calls: Surroundings(c)
    \/ Crash

Spec == Init /\ [][Next]_vars

\* Executions go on, time passes, the cron comes back every minute and the job
\* that looks for missing messages every night (for two nights, which is enough
\* for one failure).  They are strongly fair because they need a free execution,
\* of which the model has few and Node has as many as it likes, and under one
\* condition because a call waits for one of them at a time.  No timer, client or
\* socket is relied on.
Fairness ==
    /\ \A h \in Handlers: WF_vars(Progress(h))
    /\ \A c \in Calls:
        /\ WF_vars(RingTimeElapses(c))
        /\ WF_vars(HeartbeatExpires(c))
        /\ SF_vars(\E h \in Handlers: Jobs(h, c))

FairSpec == Spec /\ Fairness

-----------------------------------------------------------------------------
(* Properties.                                                             *)

\* What the two people are told is what the database says, for good: nobody is
\* told that a call was missed, rejected or ended when another operation won,
\* and no call is announced both as accepted and as rejected or missed.
OutcomesAgree ==
    \A c \in Calls:
        /\ \A e \in Terminal: e \in told[c] => status[c] = e
        /\ "accepted" \in told[c] => status[c] \in {"accepted", "ended"}

\* The history of a conversation shows a call once and only when it is over,
\* although up to five operations try to write its message.
OneSummaryPerCall ==
    \A c \in Calls:
        /\ summary[c] <= 1
        /\ summary[c] = 1 => status[c] \in Terminal

\* A call that is over stays as it is, and an accepted call can only end: a
\* timer or a reject that comes late changes nothing.
Forward ==
    \A c \in Calls: status'[c] # status[c] =>
        \/ status[c] = "none" /\ status'[c] = "calling"
        \/ status[c] = "calling" /\ status'[c] \in Terminal \union {"accepted"}
        \/ status[c] = "accepted" /\ status'[c] = "ended"

StatusIsForward == [][Forward]_vars

Busy(c, o) == \E h \in Handlers: run[h].op = o /\ run[h].call = c

\* Short of failures, the operation that answered or closed a call tells both
\* people, whichever other operations ran into it: only a call closed by the
\* cron pass goes unannounced.
NobodyIsLeftRinging ==
    faults = 0 => \A c \in Calls:
        /\ /\ status[c] \in Terminal
           /\ closedBy[c] \notin {"cronMissed", "cronLost"}
           /\ ~Busy(c, closedBy[c])
           => status[c] \in told[c]
        /\ /\ status[c] = "accepted"
           /\ ~Busy(c, "accept")
           => "accepted" \in told[c]

Ending == {"end", "disconnect", "cronLost"}
Missing == {"timer", "cronMissed"}

\* What an execution may take for granted of its call when it wakes up, although
\* others ran while it slept.
KnowsTheStatus ==
    \A h \in Handlers: run[h] # Idle =>
        LET now == status[run[h].call] IN
        /\ run[h].op = "accept" => now \in {"accepted", "ended"}
        /\ run[h].op = "reject" => now = "rejected"
        /\ run[h].op = "reconcile" => now \in Terminal
        /\ run[h].at \in {"message", "settle", "emit"} =>
            /\ run[h].op \in Ending => now = "ended"
            /\ run[h].op \in Missing => now = "missed"

\* Who closed a call left it in its own status.
CloserDecides ==
    \A c \in Calls:
        /\ closedBy[c] = "reject" <=> status[c] = "rejected"
        /\ closedBy[c] \in Ending <=> status[c] = "ended"
        /\ closedBy[c] \in Missing <=> status[c] = "missed"

\* The execution that will tell the two people is still on its way.
WillBeTold ==
    faults = 0 => \A c \in Calls:
        /\ \/ status[c] \notin Terminal
           \/ closedBy[c] \in {"cronMissed", "cronLost"}
           \/ status[c] \in told[c]
           \/ \E h \in Handlers:
                /\ run[h].op = closedBy[c] /\ run[h].call = c
                /\ run[h].at \in {"message", "settle", "emit"}
        /\ status[c] = "accepted" => "accepted" \in told[c] \/ Busy(c, "accept")

Inv ==
    /\ TypeOK
    /\ OutcomesAgree
    /\ OneSummaryPerCall
    /\ KnowsTheStatus
    /\ CloserDecides
    /\ WillBeTold

\* No call rings or stays accepted for good, whatever timers and disconnects
\* were lost, no heartbeat that was written late stays behind, and the history
\* misses no call although the operation that closed it failed: the call is over,
\* its heartbeat gone and its message there, unless one more heartbeat of the
\* callee is on its way.
CallsEnd ==
    \A c \in Calls:
        status[c] # "none" ~>
            \/ status[c] \in Terminal /\ ~alive[c] /\ summary[c] = 1
            \/ Busy(c, "beat")
=============================================================================
