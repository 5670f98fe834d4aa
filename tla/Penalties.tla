------------------------------ MODULE Penalties ------------------------------
(***************************************************************************)
(* Reports about one person, what administrators make of them, and the     *)
(* ban and mute that follow: ReportsService and the services it is made    *)
(* of.                                                                     *)
(*                                                                         *)
(* An execution stops at each await.  Resolving a report is a MongoDB      *)
(* transaction: what it writes becomes visible at its commit, and if       *)
(* anybody wrote one of its documents since its snapshot, it aborts and    *)
(* withTransaction runs it again.  But the person is read and the strikes  *)
(* are counted outside the transaction, in the latest committed state.     *)
(* The other operations read a document, and later save what they changed  *)
(* of it without asking whether it is still the same.                      *)
(*                                                                         *)
(* Who may do what, the deadlines of appeals, the limit of reports per     *)
(* day and the age at which reports are cleaned up are guards left out: a  *)
(* request may be refused, or come in time, whenever it likes.  Evidence,  *)
(* notifications, the audit log and the profile data that a penalty        *)
(* resets are left out; what a ban does to sessions is in module Sessions. *)
(***************************************************************************)
EXTENDS Integers, Sequences, FiniteSets

CONSTANTS
    Handlers,       \* executions in flight at a time
    Reports,
    ReasonOf,       \* what each report is about
    Rules,          \* PENALTY_RULES: the penalties of a reason, by strike
    Overrides,      \* penalties an administrator may choose instead
    Other,          \* the reason of a manual ban
    SystemSpam,     \* the reason of an automatic ban
    AutoBanDays,
    MaxReports,     \* bound on the reports that are made of them
    LastDay,        \* bound on the days that pass
    MaxFaults,      \* bound on exceptions and crashes
    Person,         \* the document of the person, as opposed to a report
    NoReport

Actions == {"none", "warning", "mute", "ban"}
Penalty == [action: Actions, days: Nat]
NoPenalty == [action |-> "none", days |-> 0]

ASSUME ReasonsAssumption == \A r \in Reports: Rules[ReasonOf[r]] \in Seq(Penalty)
ASSUME NoRulesAssumption == Rules[Other] = <<>> /\ Rules[SystemSpam] = <<>>
ASSUME OverridesAssumption == Overrides \subseteq Penalty
ASSUME DaysAssumption == AutoBanDays \in Nat /\ LastDay \in Nat /\ LastDay > 0
ASSUME FaultsAssumption == MaxFaults \in Nat /\ MaxReports \in Nat
ASSUME DocumentsAssumption == Person \notin Reports /\ NoReport \notin Reports
ASSUME FiniteAssumption == IsFiniteSet(Reports)

VARIABLES
    status,     \* MongoDB: status of a report
    penalty,    \* MongoDB: penaltyType of a report
    ban,        \* MongoDB: banUntil of the person, 0 if undefined
    mute,       \* MongoDB: muteUntil of the person
    now,        \* today
    banLock,    \* Redis: rate-limit:ban-lock:user:<person>
    run,        \* memory: the executions
    due,        \* history: how often a report was put before administrators,
                \* or appealed, less how often it was decided
    faults

personVars == <<ban, mute>>
vars == <<status, penalty, ban, mute, now, banLock, run, due, faults>>

\* `resolving' is in the enum of the code and never written.
Status == {"unused", "pending", "resolved", "dismissed", "appeal_pending",
           "appeal_rejected", "appeal_success", "deleted"}
Decisions == {"resolved", "dismissed", "appeal_rejected", "appeal_success"}
Ops == {"resolve", "hidden", "system", "appeal", "unban", "unmute", "clear",
        "sweep"}
Stops == {"load", "check", "update", "person", "count", "commit", "after",
          "undo", "delete", "file", "lift", "last", "overturn", "sweep"}
InTransaction == {"person", "count", "commit"}

Execution ==
    [op: Ops, at: Stops,
     report: Reports \union {NoReport},
     decision: Decisions,
     override: Penalty,
     ban: Nat, mute: Nat,           \* the person as it was read
     count: Nat,                    \* the strikes as they were counted
     set: SUBSET Reports,           \* other reports it is about to write
     missed: SUBSET (Reports \union {Person})]  \* what others wrote since of
                                    \* the documents it may write
Idle == [op |-> "none", at |-> "idle"]

TypeOK ==
    /\ status \in [Reports -> Status]
    /\ penalty \in [Reports -> Actions]
    /\ ban \in Nat /\ mute \in Nat
    /\ now \in 1..LastDay
    /\ banLock \in BOOLEAN
    /\ run \in [Handlers -> Execution \union {Idle}]
    /\ due \in [Reports -> Int]
    /\ faults \in 0..MaxFaults

Init ==
    /\ status = [r \in Reports |-> "unused"]
    /\ penalty = [r \in Reports |-> "none"]
    /\ ban = 0 /\ mute = 0
    /\ now = 1
    /\ banLock = FALSE
    /\ run = [h \in Handlers |-> Idle]
    /\ due = [r \in Reports |-> 0]
    /\ faults = 0

-----------------------------------------------------------------------------
(* Helpers.                                                                *)

IsIdle(h) == run[h].at = "idle"
At(h, stop) == run[h].at = stop

New(o, stop, r, d, p) ==
    [op |-> o, at |-> stop, report |-> r, decision |-> d, override |-> p,
     ban |-> 0, mute |-> 0, count |-> 0, set |-> {}, missed |-> {}]

Goes(h, stop) == run' = [run EXCEPT ![h].at = stop]
Returns(h) == run' = [run EXCEPT ![h] = Idle]

\* An exception: the hidden report of a direct penalty is looked after.
AfterException(h) ==
    IF run[h].op = "hidden" /\ run[h].at \notin {"undo", "delete"}
    THEN [run[h] EXCEPT !.at = "undo"] ELSE Idle
Throws(h) == run' = [run EXCEPT ![h] = AfterException(h)]

\* What a transaction may still write.
Documents(h) == {run[h].report, Person} \union run[h].set

\* The execution goes on as e, and the transactions of the others will find
\* that these documents were written.
Writes(h, docs, e) ==
    run' = [g \in Handlers |->
              CASE g = h -> e
                [] g # h /\ run[g].at \in InTransaction ->
                     [run[g] EXCEPT !.missed = @ \union (docs \intersect Documents(g))]
                [] OTHER -> run[g]]

\* The identifiers a document has, or that a transaction is about to insert.
Used ==
    {q \in Reports:
        \/ status[q] # "unused"
        \/ \E g \in Handlers: run[g].at # "idle" /\ run[g].report = q}

Unused(r) == r \notin Used /\ Cardinality(Used) < MaxReports

SameReason(r) == {q \in Reports: ReasonOf[q] = ReasonOf[r]}
Siblings(r) == {q \in SameReason(r) \ {r}: status[q] = "pending"}
Strikes(r) == {q \in SameReason(r): status[q] = "resolved"}

\* What a resolution was asked to start from.
From(d) ==
    IF d \in {"resolved", "dismissed"} THEN "pending" ELSE "appeal_pending"

\* The rule of that strike, the last rule if there are more strikes than rules.
Rule(reason, n) ==
    LET rules == Rules[reason] IN
    IF rules = <<>> THEN NoPenalty
    ELSE rules[IF n <= Len(rules) THEN n ELSE Len(rules)]

Chosen(h) ==
    IF run[h].override # NoPenalty THEN run[h].override
    ELSE Rule(ReasonOf[run[h].report], run[h].count + 1)

\* A ban or mute in force must not end earlier than it did.
Reduces(h, p) ==
    \/ p.action = "ban" /\ run[h].ban > now /\ now + p.days < run[h].ban
    \/ p.action = "mute" /\ run[h].mute > now /\ now + p.days < run[h].mute

-----------------------------------------------------------------------------
(* Reports, and the requests that decide them.                             *)

\* create, whose last command is the insert.
Create(r) ==
    /\ Unused(r)
    /\ status' = [status EXCEPT ![r] = "pending"]
    /\ due' = [due EXCEPT ![r] = @ + 1]
    /\ UNCHANGED <<penalty, personVars, now, banLock, run, faults>>

\* resolve reads the report; the status it finds decides which answers are
\* allowed and which status the update will ask for.
Resolve(h, r, d, p) ==
    /\ IsIdle(h)
    /\ status[r] = From(d)
    /\ p # NoPenalty => d = "resolved"
    /\ run' = [run EXCEPT ![h] = New("resolve", "update", r, d, p)]
    /\ UNCHANGED <<status, penalty, personVars, now, banLock, due, faults>>

\* quickPenalty and manualBan create a report of their own and resolve it like
\* any other: it is in the list of the other administrators too.
CreateHidden(h, r, p) ==
    /\ IsIdle(h)
    /\ Unused(r)
    /\ p # NoPenalty => p.action = "ban" /\ ReasonOf[r] = Other
    /\ status' = [status EXCEPT ![r] = "pending"]
    /\ due' = [due EXCEPT ![r] = @ + 1]
    /\ run' = [run EXCEPT ![h] = New("hidden", "load", r, "resolved", p)]
    /\ UNCHANGED <<penalty, personVars, now, banLock, faults>>

LoadHidden(h) ==
    /\ At(h, "load")
    /\ IF status[run[h].report] = "pending" THEN Goes(h, "update") ELSE Throws(h)
    /\ UNCHANGED <<status, penalty, personVars, now, banLock, due, faults>>

\* After a burst of refused requests, once per lock: the person is read, and a
\* report is made only if the ban would not be shorter than the one in force.
AutoBan(h, r) ==
    /\ IsIdle(h)
    /\ ~banLock
    /\ Unused(r)
    /\ ReasonOf[r] = SystemSpam
    /\ banLock' = TRUE
    /\ run' = [run EXCEPT ![h] =
                 New("system", "check", r, "resolved",
                     [action |-> "ban", days |-> AutoBanDays])]
    /\ UNCHANGED <<status, penalty, personVars, now, due, faults>>

CheckAutoBan(h) ==
    /\ At(h, "check")
    /\ IF ban > now + AutoBanDays THEN Returns(h) ELSE Goes(h, "update")
    /\ UNCHANGED <<status, penalty, personVars, now, banLock, due, faults>>

-----------------------------------------------------------------------------
(* The transaction of resolveReport.                                       *)

\* Mutant: the update filters on the id alone.
Update_ById(h) ==
    /\ At(h, "update")
    /\ run' = [run EXCEPT ![h].at = "person",
                          ![h].set = Siblings(run[h].report),
                          ![h].missed = {}]
    /\ UNCHANGED <<status, penalty, personVars, now, banLock, due, faults>>

\* The first command takes the snapshot: the report still has the status it was
\* read with, or it is inserted by this transaction.
Update(h) ==
    /\ At(h, "update")
    /\ run[h].op = "system" \/ status[run[h].report] = From(run[h].decision)
    /\ run' = [run EXCEPT
                 ![h].at = IF run[h].decision \in {"resolved", "appeal_success"}
                           THEN "person" ELSE "commit",
                 ![h].set = IF run[h].decision = "resolved"
                            THEN Siblings(run[h].report) ELSE {},
                 ![h].missed = {}]
    /\ UNCHANGED <<status, penalty, personVars, now, banLock, due, faults>>

AlreadyDecided(h) ==
    /\ At(h, "update")
    /\ run[h].op # "system"
    /\ status[run[h].report] # From(run[h].decision)
    /\ Throws(h)
    /\ UNCHANGED <<status, penalty, personVars, now, banLock, due, faults>>

\* Neither this read nor the count below belongs to the transaction.
ReadPerson(h) ==
    /\ At(h, "person")
    /\ run' = [run EXCEPT
                 ![h].at = IF run[h].decision = "resolved"
                           THEN "count" ELSE "commit",
                 ![h].ban = ban,
                 ![h].mute = mute]
    /\ UNCHANGED <<status, penalty, personVars, now, banLock, due, faults>>

CountStrikes(h) ==
    /\ At(h, "count")
    /\ run' = [run EXCEPT
                 ![h].at = "commit",
                 ![h].count = Cardinality(Strikes(run[h].report))]
    /\ UNCHANGED <<status, penalty, personVars, now, banLock, due, faults>>

CannotReduce(h) ==
    /\ At(h, "commit")
    /\ run[h].decision = "resolved"
    /\ Reduces(h, Chosen(h))
    /\ Throws(h)
    /\ UNCHANGED <<status, penalty, personVars, now, banLock, due, faults>>

\* Saving a person whose fields did not change writes nothing.
LiftsBan(h) == penalty[run[h].report] = "ban" /\ run[h].ban # 0
LiftsMute(h) == penalty[run[h].report] = "mute" /\ run[h].mute # 0

WritesPerson(h) ==
    CASE run[h].decision = "resolved" -> Chosen(h).action \in {"ban", "mute"}
      [] run[h].decision = "appeal_success" -> LiftsBan(h) \/ LiftsMute(h)
      [] OTHER -> FALSE

\* Mutant: the person is saved outside the transaction.
WriteSet_WithoutPerson(h) ==
    {run[h].report} \union run[h].set

\* Mutant: only the update of the report itself is given the session of the
\* transaction.
WriteSet_ReportOnly(h) ==
    {run[h].report}

WriteSet(h) ==
    {run[h].report} \union run[h].set
        \union IF WritesPerson(h) THEN {Person} ELSE {}

Conflicts(h) == run[h].missed \intersect WriteSet(h) # {}

\* withTransaction runs the callback again.
RunAgain(h) ==
    /\ At(h, "commit")
    /\ Conflicts(h)
    /\ run' = [run EXCEPT ![h] = New(run[h].op, "update", run[h].report,
                                    run[h].decision, run[h].override)]
    /\ UNCHANGED <<status, penalty, personVars, now, banLock, due, faults>>

\* What follows the commit (sessions, events, notification, audit log) changes
\* nothing here; only an exception of a direct penalty is still of consequence.
Committed(h) ==
    IF run[h].op = "hidden"
    THEN New("hidden", "after", run[h].report, "resolved", NoPenalty) ELSE Idle

\* The report is resolved, the person gets the penalty, and the other pending
\* reports for that reason are dismissed.
CommitResolved(h) ==
    /\ At(h, "commit")
    /\ run[h].decision = "resolved"
    /\ ~Reduces(h, Chosen(h))
    /\ ~Conflicts(h)
    /\ LET r == run[h].report
           p == Chosen(h) IN
       /\ status' = [q \in Reports |-> CASE q = r -> "resolved"
                                         [] q # r /\ q \in run[h].set -> "dismissed"
                                         [] OTHER -> status[q]]
       /\ penalty' = [penalty EXCEPT ![r] = p.action]
       /\ ban' = IF p.action = "ban" THEN now + p.days ELSE ban
       /\ mute' = IF p.action = "mute" THEN now + p.days ELSE mute
       /\ due' = [q \in Reports |->
                    CASE q = r /\ run[h].op # "system" -> due[q] - 1
                      [] q # r /\ q \in run[h].set -> due[q] - 1
                      [] OTHER -> due[q]]
    /\ Writes(h, WriteSet(h), Committed(h))
    /\ UNCHANGED <<now, banLock, faults>>

CommitUnpunished(h) ==
    /\ At(h, "commit")
    /\ run[h].decision \in {"dismissed", "appeal_rejected"}
    /\ ~Conflicts(h)
    /\ status' = [status EXCEPT ![run[h].report] = run[h].decision]
    /\ due' = [due EXCEPT ![run[h].report] = @ - 1]
    /\ Writes(h, WriteSet(h), Committed(h))
    /\ UNCHANGED <<penalty, personVars, now, banLock, faults>>

\* The ban is lifted, or the mute, whichever report it is from by now.
CommitAppealSuccess(h) ==
    /\ At(h, "commit")
    /\ run[h].decision = "appeal_success"
    /\ ~Conflicts(h)
    /\ status' = [status EXCEPT ![run[h].report] = "appeal_success"]
    /\ ban' = IF LiftsBan(h) THEN 0 ELSE ban
    /\ mute' = IF LiftsMute(h) THEN 0 ELSE mute
    /\ due' = [due EXCEPT ![run[h].report] = @ - 1]
    /\ Writes(h, WriteSet(h), Committed(h))
    /\ UNCHANGED <<penalty, now, banLock, faults>>

Afterwards(h) ==
    /\ At(h, "after")
    /\ Returns(h)
    /\ UNCHANGED <<status, penalty, personVars, now, banLock, due, faults>>

\* A hidden report that was not resolved is deleted, by its id.
Undo(h) ==
    /\ At(h, "undo")
    /\ IF status[run[h].report] = "pending" THEN Goes(h, "delete") ELSE Returns(h)
    /\ UNCHANGED <<status, penalty, personVars, now, banLock, due, faults>>

DeleteHidden(h) ==
    /\ At(h, "delete")
    /\ status' = [status EXCEPT ![run[h].report] = "deleted"]
    /\ penalty' = [penalty EXCEPT ![run[h].report] = "none"]
    /\ Writes(h, {run[h].report}, Idle)
    /\ UNCHANGED <<personVars, now, banLock, due, faults>>

-----------------------------------------------------------------------------
(* Appeals, and the administrators who lift a penalty directly.            *)

Appeal(h, r) ==
    /\ IsIdle(h)
    /\ status[r] = "resolved"
    /\ run' = [run EXCEPT ![h] = New("appeal", "file", r, "resolved", NoPenalty)]
    /\ UNCHANGED <<status, penalty, personVars, now, banLock, due, faults>>

\* The evidence is uploaded; whatever became of the report meanwhile, it is
\* under appeal now, unless it is gone and the save fails.
FileAppeal(h) ==
    /\ At(h, "file")
    /\ LET r == run[h].report IN
       \/ /\ status[r] # "deleted"
          /\ status' = [status EXCEPT ![r] = "appeal_pending"]
          /\ due' = [due EXCEPT ![r] = @ + 1]
          /\ Writes(h, {r}, Idle)
       \/ /\ status[r] = "deleted"
          /\ Throws(h)
          /\ UNCHANGED <<status, due>>
    /\ UNCHANGED <<penalty, personVars, now, banLock, faults>>

\* unban, unmute and clearStrike; the last does not touch the person.
Clear(h, o) ==
    /\ IsIdle(h)
    /\ o \in {"unban", "unmute", "clear"}
    /\ run' = [run EXCEPT ![h] =
                 IF o = "clear"
                 THEN New(o, "last", NoReport, "dismissed", NoPenalty)
                 ELSE [New(o, "lift", NoReport, "dismissed", NoPenalty)
                       EXCEPT !.ban = ban, !.mute = mute]]
    /\ UNCHANGED <<status, penalty, personVars, now, banLock, due, faults>>

Lift(h) ==
    /\ At(h, "lift")
    /\ LET unban == run[h].op = "unban" /\ run[h].ban # 0
           unmute == run[h].op = "unmute" /\ run[h].mute # 0 IN
       /\ ban' = IF unban THEN 0 ELSE ban
       /\ mute' = IF unmute THEN 0 ELSE mute
       /\ Writes(h, IF unban \/ unmute THEN {Person} ELSE {},
                 New("clear", "last", NoReport, "dismissed", NoPenalty))
    /\ UNCHANGED <<status, penalty, now, banLock, due, faults>>

\* The resolved report with the latest resolvedAt, which the model does not
\* keep: any of them may be the one.
FindLast(h) ==
    /\ At(h, "last")
    /\ \/ \E r \in Reports:
            /\ status[r] = "resolved"
            /\ run' = [run EXCEPT ![h].at = "overturn", ![h].report = r]
       \/ /\ \A r \in Reports: status[r] # "resolved"
          /\ Returns(h)
    /\ UNCHANGED <<status, penalty, personVars, now, banLock, due, faults>>

Overturn(h) ==
    /\ At(h, "overturn")
    /\ LET r == run[h].report IN
       \/ /\ status[r] # "deleted"
          /\ status' = [status EXCEPT ![r] = "dismissed"]
          /\ Writes(h, {r}, Idle)
       \/ /\ status[r] = "deleted"
          /\ Throws(h)
          /\ UNCHANGED status
    /\ UNCHANGED <<penalty, personVars, now, banLock, due, faults>>

\* The nightly job finds reports that were dismissed or appealed long ago, and
\* deletes them by their ids.
Sweep(h, old) ==
    /\ IsIdle(h)
    /\ old # {}
    /\ \A r \in old: status[r] \in {"dismissed", "appeal_success"}
    /\ run' = [run EXCEPT ![h] =
                 [New("sweep", "sweep", NoReport, "dismissed", NoPenalty)
                  EXCEPT !.set = old]]
    /\ UNCHANGED <<status, penalty, personVars, now, banLock, due, faults>>

DeleteOld(h) ==
    /\ At(h, "sweep")
    /\ status' = [r \in Reports |-> IF r \in run[h].set THEN "deleted"
                                    ELSE status[r]]
    /\ penalty' = [r \in Reports |-> IF r \in run[h].set THEN "none"
                                     ELSE penalty[r]]
    /\ Writes(h, run[h].set, Idle)
    /\ UNCHANGED <<personVars, now, banLock, due, faults>>

-----------------------------------------------------------------------------
(* Time and failures.                                                      *)

DayPasses ==
    /\ now < LastDay
    /\ now' = now + 1
    /\ UNCHANGED <<status, penalty, personVars, banLock, run, due, faults>>

\* RATE_LIMIT_BAN_LOCK_TTL_SECONDS later; nobody deletes the lock.
LockExpires ==
    /\ banLock
    /\ banLock' = FALSE
    /\ UNCHANGED <<status, penalty, personVars, now, run, due, faults>>

Fail(h) ==
    /\ ~IsIdle(h)
    /\ faults < MaxFaults
    /\ faults' = faults + 1
    /\ Throws(h)
    /\ UNCHANGED <<status, penalty, personVars, now, banLock, due>>

Crash ==
    /\ faults < MaxFaults
    /\ faults' = faults + 1
    /\ run' = [h \in Handlers |-> Idle]
    /\ UNCHANGED <<status, penalty, personVars, now, banLock, due>>

-----------------------------------------------------------------------------
Transaction(h) ==
    \/ Update(h) \/ AlreadyDecided(h) \/ ReadPerson(h) \/ CountStrikes(h)
    \/ CannotReduce(h) \/ RunAgain(h)
    \/ CommitResolved(h) \/ CommitUnpunished(h) \/ CommitAppealSuccess(h)

Progress(h) ==
    \/ LoadHidden(h) \/ CheckAutoBan(h) \/ Afterwards(h)
    \/ Undo(h) \/ DeleteHidden(h) \/ FileAppeal(h)
    \/ Lift(h) \/ FindLast(h) \/ Overturn(h) \/ DeleteOld(h)

Request(h, r) ==
    \/ \E d \in Decisions, p \in Overrides \union {NoPenalty}: Resolve(h, r, d, p)
    \/ \E p \in Overrides \union {NoPenalty}: CreateHidden(h, r, p)
    \/ AutoBan(h, r)
    \/ Appeal(h, r)

Next ==
    \/ \E r \in Reports: Create(r)
    \/ \E h \in Handlers: Transaction(h) \/ Progress(h) \/ Fail(h)
    \/ \E h \in Handlers, r \in Reports: Request(h, r)
    \/ \E h \in Handlers, o \in {"unban", "unmute", "clear"}: Clear(h, o)
    \/ \E h \in Handlers, old \in SUBSET Reports: Sweep(h, old)
    \/ DayPasses \/ LockExpires \/ Crash

Spec == Init /\ [][Next]_vars

-----------------------------------------------------------------------------
(* Properties.                                                             *)

\* However many administrators answer at once, and whatever is run again, a
\* report, and an appeal, is decided at most once each time it is put before
\* them: nobody is punished twice for one report.
OneDecisionPerCase == \A r \in Reports: due[r] >= 0

\* A penalty in force is never replaced by one that ends earlier ("a penalty
\* lower than the present one cannot be applied"), although the person was read
\* outside the transaction and others punish or pardon meanwhile: it is lifted
\* altogether or not shortened.
NotShortened ==
    /\ ban > now /\ ban' < ban => ban' = 0
    /\ mute > now /\ mute' < mute => mute' = 0

PenaltiesAreNotReduced == [][NotShortened]_vars

\* Where the penalty grows with the strikes, no two reports are resolved as the
\* same strike, although they are counted outside the transaction: no report
\* was resolved since they were counted.
NoStrikeIsMissed ==
    \A h \in Handlers:
        /\ At(h, "commit") /\ run'[h].at # "commit"
        /\ run[h].decision = "resolved"
        /\ status'[run[h].report] # status[run[h].report]
        /\ Rules[ReasonOf[run[h].report]] # <<>>
        => run[h].count >= Cardinality(Strikes(run[h].report))

StrikesAddUp == [][NoStrikeIsMissed]_vars

-----------------------------------------------------------------------------
(* Why they hold: the inductive invariant.                                 *)

Resolving(h) == run[h].at \in InTransaction /\ run[h].decision = "resolved"

\* An execution on a report has one, and an automatic ban is for its reason.
ReportsAreKnown ==
    \A h \in Handlers: ~IsIdle(h) =>
        /\ run[h].at \in InTransaction \union
                {"load", "check", "update", "after", "undo", "delete", "file"}
           <=> run[h].op \in {"resolve", "hidden", "system", "appeal"}
        /\ \/ run[h].op \in {"resolve", "hidden", "system", "appeal"}
           \/ run[h].at = "overturn"
           => run[h].report \in Reports
        /\ run[h].op = "system" =>
               /\ ReasonOf[run[h].report] = SystemSpam
               /\ run[h].decision = "resolved"

\* What is due was asked for.
CasesAreDue ==
    \A r \in Reports:
        /\ due[r] >= 0
        /\ status[r] \in {"pending", "appeal_pending"} => due[r] >= 1

\* A report of its snapshot that a transaction was not told of is as it was.
SnapshotsHold ==
    \A h \in Handlers: run[h].at \in InTransaction =>
        /\ run[h].op # "system" /\ run[h].report \notin run[h].missed
           => status[run[h].report] = From(run[h].decision)
        /\ \A q \in run[h].set \ run[h].missed: status[q] = "pending"

\* Nor did the person change unnoticed since they were read.
PersonIsKnown ==
    \A h \in Handlers:
        /\ \/ At(h, "count")
           \/ At(h, "commit") /\ run[h].decision \in {"resolved", "appeal_success"}
        /\ Person \notin run[h].missed
        => run[h].ban = ban /\ run[h].mute = mute

\* Of two reports that are being resolved for one reason, one is about to be
\* merged into the other, or is known not to be pending any more.
Merges(g, h) ==
    \/ run[g].report = run[h].report
    \/ run[g].report \in run[h].set
    \/ run[g].report \in run[g].missed

RivalsMeet ==
    \A g, h \in Handlers:
        /\ Resolving(g) /\ run[g].op # "system"
        /\ Resolving(h) /\ run[h].op # "system"
        /\ ReasonOf[run[g].report] = ReasonOf[run[h].report]
        => Merges(g, h) \/ Merges(h, g)

\* A transaction that could commit knows all strikes.
StrikesAreCounted ==
    \A h \in Handlers:
        /\ At(h, "commit") /\ run[h].decision = "resolved"
        /\ Rules[ReasonOf[run[h].report]] # <<>>
        /\ run[h].missed \intersect ({run[h].report} \union run[h].set) = {}
        => run[h].count >= Cardinality(Strikes(run[h].report))

Inv ==
    /\ TypeOK
    /\ ReportsAreKnown
    /\ CasesAreDue
    /\ SnapshotsHold
    /\ PersonIsKnown
    /\ RivalsMeet
    /\ StrikesAreCounted
=============================================================================
