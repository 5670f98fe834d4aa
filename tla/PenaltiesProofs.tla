--------------------------- MODULE PenaltiesProofs ---------------------------
(***************************************************************************)
(* For any number of reports, administrators and failures, and for any     *)
(* rules: a report is decided at most once each time it is put before the  *)
(* administrators, a penalty in force is not shortened, and no strike is   *)
(* overlooked.                                                             *)
(*                                                                         *)
(* All of it rests on the conflicts of the transactions: what one of them  *)
(* read is still so as long as it was not told that it was written.        *)
(*                                                                         *)
(* The last part is about the pictures the reports keep (module Avatars):  *)
(* for any number of requests, reports, files and failures the picture in  *)
(* use is there, so is the evidence, and no file is forgotten.             *)
(***************************************************************************)
EXTENDS Penalties, Avatars, FiniteSetTheorems, TLAPS

(***************************************************************************)
(* Facts about what an execution has in hand.                              *)
(***************************************************************************)
LEMMA NewIsAnExecution ==
  ASSUME NEW o \in Ops, NEW stop \in Stops, NEW r \in Reports \union {NoReport},
         NEW d \in Decisions, NEW p \in Penalty
  PROVE  New(o, stop, r, d, p) \in Execution
  BY DEF New, Execution

LEMMA NoPenaltyIsOne == NoPenalty \in Penalty
  BY DEF NoPenalty, Penalty, Actions

LEMMA Busy ==
  ASSUME TypeOK, NEW h \in Handlers, ~IsIdle(h)
  PROVE  run[h] \in Execution
  BY DEF TypeOK, IsIdle, Idle

LEMMA Quitting ==
  ASSUME TypeOK, NEW h \in Handlers
  PROVE  AfterException(h) \in Execution \union {Idle}
  <1>1. CASE run[h] \in Execution
    BY <1>1 DEF AfterException, Execution, Stops
  <1>2. CASE run[h] = Idle
    BY <1>2 DEF AfterException, Idle
  <1> QED
    BY <1>1, <1>2 DEF TypeOK

LEMMA RulesArePenalties ==
  ASSUME NEW r \in Reports, NEW n \in Nat
  PROVE  Rule(ReasonOf[r], n + 1) \in Penalty
  <1> DEFINE rules == Rules[ReasonOf[r]]
  <1>1. rules \in Seq(Penalty)
    BY ReasonsAssumption
  <1>2. CASE rules = <<>>
    BY <1>2, NoPenaltyIsOne DEF Rule
  <1>3. CASE rules # <<>>
    <2>1. Len(rules) \in Nat /\ Len(rules) > 0
      BY <1>1, <1>3
    <2>2. \A i \in 1..Len(rules): rules[i] \in Penalty
      BY <1>1
    <2> HIDE DEF rules
    <2>3. (IF n + 1 <= Len(rules) THEN n + 1 ELSE Len(rules)) \in 1..Len(rules)
      BY <2>1
    <2> USE DEF rules
    <2> QED
      BY <1>3, <2>2, <2>3 DEF Rule
  <1> QED
    BY <1>2, <1>3

LEMMA ChosenIsAPenalty ==
  ASSUME TypeOK, NEW h \in Handlers, run[h] \in Execution,
         run[h].report \in Reports
  PROVE  Chosen(h) \in Penalty
  <1>1. run[h].override \in Penalty /\ run[h].count \in Nat
    BY DEF Execution
  <1> QED
    BY <1>1, RulesArePenalties DEF Chosen

\* What the others have in hand when documents are written.
LEMMA WritingKeepsTypes ==
  ASSUME TypeOK, NEW h \in Handlers,
         NEW docs \in SUBSET (Reports \union {Person}),
         NEW e \in Execution \union {Idle}, Writes(h, docs, e)
  PROVE  run' \in [Handlers -> Execution \union {Idle}]
  <1>1. ASSUME NEW g \in Handlers, run[g].at \in InTransaction
        PROVE  [run[g] EXCEPT !.missed = @ \union (docs \intersect Documents(g))]
                   \in Execution
    <2>1. run[g] \in Execution
      BY <1>1, Busy DEF IsIdle, InTransaction
    <2> QED
      BY <2>1 DEF Execution
  <1> QED
    BY <1>1 DEF Writes, TypeOK

(***************************************************************************)
(* Type correctness.                                                       *)
(***************************************************************************)

\* What a step may do with one execution.
LEMMA RunTypes ==
  ASSUME TypeOK, NEW h \in Handlers
  PROVE  /\ Returns(h) => run' \in [Handlers -> Execution \union {Idle}]
         /\ Throws(h) => run' \in [Handlers -> Execution \union {Idle}]
         /\ \A stop \in Stops: run[h] \in Execution /\ Goes(h, stop)
                => run' \in [Handlers -> Execution \union {Idle}]
         /\ \A e \in Execution: run' = [run EXCEPT ![h] = e]
                => run' \in [Handlers -> Execution \union {Idle}]
  <1>1. Returns(h) => run' \in [Handlers -> Execution \union {Idle}]
    BY DEF Returns, TypeOK
  <1>2. Throws(h) => run' \in [Handlers -> Execution \union {Idle}]
    BY Quitting DEF Throws, TypeOK
  <1>3. ASSUME NEW stop \in Stops, run[h] \in Execution
        PROVE  [run[h] EXCEPT !.at = stop] \in Execution
    BY <1>3 DEF Execution
  <1>4. \A stop \in Stops: run[h] \in Execution /\ Goes(h, stop)
            => run' \in [Handlers -> Execution \union {Idle}]
    BY <1>3 DEF Goes, TypeOK
  <1>5. \A e \in Execution: run' = [run EXCEPT ![h] = e]
            => run' \in [Handlers -> Execution \union {Idle}]
    BY DEF TypeOK
  <1> QED
    BY <1>1, <1>2, <1>4, <1>5

\* The documents a transaction may write are reports and the person.
LEMMA DocumentTypes ==
  ASSUME TypeOK, NEW h \in Handlers, run[h] \in Execution,
         run[h].report \in Reports
  PROVE  WriteSet(h) \in SUBSET (Reports \union {Person})
  BY DEF WriteSet, Execution

LEMMA CommittedTypes ==
  ASSUME NEW h \in Handlers, run[h].report \in Reports
  PROVE  Committed(h) \in Execution \union {Idle}
  <1>1. New("hidden", "after", run[h].report, "resolved", NoPenalty) \in Execution
    BY NewIsAnExecution, NoPenaltyIsOne DEF Ops, Stops, Decisions
  <1> QED
    BY <1>1 DEF Committed

LEMMA RequestTypes ==
  ASSUME TypeOK, NEW h \in Handlers, NEW r \in Reports, Request(h, r)
  PROVE  TypeOK'
  <1>1. ASSUME NEW d \in Decisions, NEW p \in Overrides \union {NoPenalty},
               Resolve(h, r, d, p)
        PROVE  TypeOK'
    <2>1. New("resolve", "update", r, d, p) \in Execution
      BY NewIsAnExecution, NoPenaltyIsOne, OverridesAssumption
         DEF Ops, Stops, Decisions
    <2>2. run' \in [Handlers -> Execution \union {Idle}]
      BY <1>1, <2>1, RunTypes DEF Resolve
    <2> QED
      BY <1>1, <2>2 DEF Resolve, TypeOK, personVars
  <1>2. ASSUME NEW p \in Overrides \union {NoPenalty}, CreateHidden(h, r, p)
        PROVE  TypeOK'
    <2>1. New("hidden", "load", r, "resolved", p) \in Execution
      BY NewIsAnExecution, NoPenaltyIsOne, OverridesAssumption
         DEF Ops, Stops, Decisions
    <2>2. run' \in [Handlers -> Execution \union {Idle}]
      BY <1>2, <2>1, RunTypes DEF CreateHidden
    <2> QED
      BY <1>2, <2>2 DEF CreateHidden, TypeOK, personVars, Status
  <1>3. ASSUME AutoBan(h, r)
        PROVE  TypeOK'
    <2>1. [action |-> "ban", days |-> AutoBanDays] \in Penalty
      BY DaysAssumption DEF Penalty, Actions
    <2>2. New("system", "check", r, "resolved",
              [action |-> "ban", days |-> AutoBanDays]) \in Execution
      BY <2>1, NewIsAnExecution DEF Ops, Stops, Decisions
    <2>3. run' \in [Handlers -> Execution \union {Idle}]
      BY <1>3, <2>2, RunTypes DEF AutoBan
    <2> QED
      BY <1>3, <2>3 DEF AutoBan, TypeOK, personVars
  <1>4. ASSUME Appeal(h, r)
        PROVE  TypeOK'
    <2>1. New("appeal", "file", r, "resolved", NoPenalty) \in Execution
      BY NewIsAnExecution, NoPenaltyIsOne, OverridesAssumption
         DEF Ops, Stops, Decisions
    <2>2. run' \in [Handlers -> Execution \union {Idle}]
      BY <1>4, <2>1, RunTypes DEF Appeal
    <2> QED
      BY <1>4, <2>2 DEF Appeal, TypeOK, personVars
  <1> QED
    BY <1>1, <1>2, <1>3, <1>4 DEF Request

LEMMA TransactionTypes ==
  ASSUME TypeOK, ReportsAreKnown, NEW h \in Handlers, Transaction(h)
  PROVE  TypeOK'
  <1>1. ~IsIdle(h) /\ run[h] \in Execution /\ run[h].report \in Reports
    <2>1. run[h].at \in InTransaction \union {"update"}
      BY DEF Transaction, At, Update, AlreadyDecided, ReadPerson, CountStrikes,
             CannotReduce, RunAgain, CommitResolved, CommitUnpunished,
             CommitAppealSuccess, InTransaction
    <2> QED
      BY <2>1, Busy DEF IsIdle, InTransaction, ReportsAreKnown
  <1>2. CASE Update(h)
    <2>1. [run[h] EXCEPT
             !.at = IF run[h].decision \in {"resolved", "appeal_success"}
                    THEN "person" ELSE "commit",
             !.set = IF run[h].decision = "resolved"
                     THEN Siblings(run[h].report) ELSE {},
             !.missed = {}] \in Execution
      BY <1>1 DEF Execution, Stops, Siblings, SameReason
    <2>2. run' \in [Handlers -> Execution \union {Idle}]
      BY <1>2, <2>1 DEF Update, TypeOK
    <2> QED
      BY <1>2, <2>2 DEF Update, TypeOK, personVars
  <1>3. CASE AlreadyDecided(h)
    BY <1>3, RunTypes DEF AlreadyDecided, TypeOK, personVars
  <1>4. CASE ReadPerson(h)
    <2>1. [run[h] EXCEPT
             !.at = IF run[h].decision = "resolved" THEN "count" ELSE "commit",
             !.ban = ban, !.mute = mute] \in Execution
      BY <1>1 DEF Execution, Stops, TypeOK
    <2>2. run' \in [Handlers -> Execution \union {Idle}]
      BY <1>4, <2>1 DEF ReadPerson, TypeOK
    <2> QED
      BY <1>4, <2>2 DEF ReadPerson, TypeOK, personVars
  <1>5. CASE CountStrikes(h)
    <2>1. Cardinality(Strikes(run[h].report)) \in Nat
      <3>1. Strikes(run[h].report) \subseteq Reports
        BY DEF Strikes, SameReason
      <3> QED
        BY <3>1, FiniteAssumption, FS_Subset, FS_CardinalityType
    <2>2. [run[h] EXCEPT !.at = "commit",
             !.count = Cardinality(Strikes(run[h].report))] \in Execution
      BY <1>1, <2>1 DEF Execution, Stops
    <2>3. run' \in [Handlers -> Execution \union {Idle}]
      BY <1>5, <2>2 DEF CountStrikes, TypeOK
    <2> QED
      BY <1>5, <2>3 DEF CountStrikes, TypeOK, personVars
  <1>6. CASE CannotReduce(h)
    BY <1>6, RunTypes DEF CannotReduce, TypeOK, personVars
  <1>7. CASE RunAgain(h)
    <2>1. New(run[h].op, "update", run[h].report, run[h].decision,
              run[h].override) \in Execution
      BY <1>1, NewIsAnExecution DEF Execution, Stops
    <2>2. run' \in [Handlers -> Execution \union {Idle}]
      BY <1>7, <2>1, RunTypes DEF RunAgain
    <2> QED
      BY <1>7, <2>2 DEF RunAgain, TypeOK, personVars
  <1>8. WriteSet(h) \in SUBSET (Reports \union {Person})
    BY <1>1, DocumentTypes
  <1>9. Writes(h, WriteSet(h), Committed(h))
            => run' \in [Handlers -> Execution \union {Idle}]
    BY <1>1, <1>8, CommittedTypes, WritingKeepsTypes
  <1>10. CASE CommitResolved(h)
    <2>1. Chosen(h) \in Penalty
      BY <1>1, ChosenIsAPenalty
    <2>2. run' \in [Handlers -> Execution \union {Idle}]
      BY <1>10, <1>9 DEF CommitResolved
    <2>3. status' \in [Reports -> Status] /\ due' \in [Reports -> Int]
      BY <1>10 DEF CommitResolved, TypeOK, Status
    <2>4. penalty' \in [Reports -> Actions]
      BY <1>10, <2>1 DEF CommitResolved, TypeOK, Penalty
    <2>5. ban' \in Nat /\ mute' \in Nat
      BY <1>10, <2>1 DEF CommitResolved, TypeOK, Penalty
    <2> QED
      BY <1>10, <2>2, <2>3, <2>4, <2>5 DEF CommitResolved, TypeOK
  <1>11. CASE CommitUnpunished(h)
    <2>1. run' \in [Handlers -> Execution \union {Idle}]
      BY <1>11, <1>9 DEF CommitUnpunished
    <2> QED
      BY <1>1, <1>11, <2>1 DEF CommitUnpunished, TypeOK, personVars, Status
  <1>12. CASE CommitAppealSuccess(h)
    <2>1. run' \in [Handlers -> Execution \union {Idle}]
      BY <1>12, <1>9 DEF CommitAppealSuccess
    <2> QED
      BY <1>1, <1>12, <2>1 DEF CommitAppealSuccess, TypeOK, Status
  <1> QED
    BY <1>2, <1>3, <1>4, <1>5, <1>6, <1>7, <1>10, <1>11, <1>12 DEF Transaction

LEMMA ProgressTypes ==
  ASSUME TypeOK, ReportsAreKnown, NEW h \in Handlers, Progress(h)
  PROVE  TypeOK'
  <1>1. ~IsIdle(h) /\ run[h] \in Execution
    <2>1. ~IsIdle(h)
      BY DEF Progress, At, IsIdle, LoadHidden, CheckAutoBan, Afterwards, Undo,
             DeleteHidden, FileAppeal, Lift, FindLast, Overturn, DeleteOld
    <2> QED
      BY <2>1, Busy
  <1>2. Idle \in Execution \union {Idle}
    OBVIOUS
  <1>3. CASE LoadHidden(h)
    BY <1>1, <1>3, RunTypes DEF LoadHidden, TypeOK, personVars, Stops
  <1>4. CASE CheckAutoBan(h)
    BY <1>1, <1>4, RunTypes DEF CheckAutoBan, TypeOK, personVars, Stops
  <1>5. CASE Afterwards(h)
    BY <1>5, RunTypes DEF Afterwards, TypeOK, personVars
  <1>6. CASE Undo(h)
    BY <1>1, <1>6, RunTypes DEF Undo, TypeOK, personVars, Stops
  <1>7. CASE DeleteHidden(h)
    <2>1. {run[h].report} \in SUBSET (Reports \union {Person})
      BY <1>1, <1>7 DEF DeleteHidden, At, ReportsAreKnown
    <2>2. run' \in [Handlers -> Execution \union {Idle}]
      BY <1>2, <1>7, <2>1, WritingKeepsTypes DEF DeleteHidden
    <2> QED
      BY <1>7, <2>2 DEF DeleteHidden, TypeOK, personVars, Status, Actions
  <1>8. CASE FileAppeal(h)
    <2>1. run[h].report \in Reports
      BY <1>1, <1>8 DEF FileAppeal, At, ReportsAreKnown
    <2>2. run' \in [Handlers -> Execution \union {Idle}]
      BY <1>2, <1>8, <2>1, WritingKeepsTypes, RunTypes DEF FileAppeal
    <2> QED
      BY <1>8, <2>1, <2>2 DEF FileAppeal, TypeOK, personVars, Status
  <1>9. CASE Lift(h)
    <2>1. New("clear", "last", NoReport, "dismissed", NoPenalty) \in Execution
      BY NewIsAnExecution, NoPenaltyIsOne DEF Ops, Stops, Decisions
    <2>2. \A docs \in SUBSET {Person}:
            Writes(h, docs, New("clear", "last", NoReport, "dismissed", NoPenalty))
            => run' \in [Handlers -> Execution \union {Idle}]
      BY <2>1, WritingKeepsTypes
    <2>3. run' \in [Handlers -> Execution \union {Idle}]
      BY <1>9, <2>2 DEF Lift
    <2> QED
      BY <1>9, <2>3 DEF Lift, TypeOK
  <1>10. CASE FindLast(h)
    <2>1. ASSUME NEW r \in Reports
          PROVE  [run[h] EXCEPT !.at = "overturn", !.report = r] \in Execution
      BY <1>1 DEF Execution, Stops
    <2>2. run' \in [Handlers -> Execution \union {Idle}]
      BY <1>10, <2>1, RunTypes DEF FindLast, TypeOK
    <2> QED
      BY <1>10, <2>2 DEF FindLast, TypeOK, personVars
  <1>11. CASE Overturn(h)
    <2>1. run[h].report \in Reports
      BY <1>1, <1>11 DEF Overturn, At, ReportsAreKnown
    <2>2. run' \in [Handlers -> Execution \union {Idle}]
      BY <1>2, <1>11, <2>1, WritingKeepsTypes, RunTypes DEF Overturn
    <2> QED
      BY <1>11, <2>1, <2>2 DEF Overturn, TypeOK, personVars, Status
  <1>12. CASE DeleteOld(h)
    <2>1. run[h].set \in SUBSET (Reports \union {Person})
      BY <1>1 DEF Execution
    <2>2. run' \in [Handlers -> Execution \union {Idle}]
      BY <1>2, <1>12, <2>1, WritingKeepsTypes DEF DeleteOld
    <2> QED
      BY <1>12, <2>2 DEF DeleteOld, TypeOK, personVars, Status, Actions
  <1> QED
    BY <1>3, <1>4, <1>5, <1>6, <1>7, <1>8, <1>9, <1>10, <1>11, <1>12
       DEF Progress

LEMMA OtherTypes ==
  ASSUME TypeOK
  PROVE  /\ \A r \in Reports: Create(r) => TypeOK'
         /\ \A h \in Handlers: Fail(h) => TypeOK'
         /\ \A h \in Handlers, o \in {"unban", "unmute", "clear"}:
                Clear(h, o) => TypeOK'
         /\ \A h \in Handlers, old \in SUBSET Reports: Sweep(h, old) => TypeOK'
         /\ DayPasses => TypeOK'
         /\ LockExpires => TypeOK'
         /\ Crash => TypeOK'
         /\ UNCHANGED vars => TypeOK'
  <1>1. \A r \in Reports: Create(r) => TypeOK'
    BY DEF Create, TypeOK, personVars, Status
  <1>2. ASSUME NEW h \in Handlers, Fail(h)
        PROVE  TypeOK'
    <2>1. run' \in [Handlers -> Execution \union {Idle}]
      BY <1>2, RunTypes DEF Fail
    <2>2. faults' \in 0..MaxFaults
      BY <1>2, FaultsAssumption DEF Fail, TypeOK
    <2> QED
      BY <1>2, <2>1, <2>2 DEF Fail, TypeOK, personVars
  <1>3. ASSUME NEW h \in Handlers, NEW o \in {"unban", "unmute", "clear"},
               Clear(h, o)
        PROVE  TypeOK'
    <2>1. /\ New(o, "last", NoReport, "dismissed", NoPenalty) \in Execution
          /\ New(o, "lift", NoReport, "dismissed", NoPenalty) \in Execution
      BY NewIsAnExecution, NoPenaltyIsOne DEF Ops, Stops, Decisions
    <2>2. [New(o, "lift", NoReport, "dismissed", NoPenalty)
             EXCEPT !.ban = ban, !.mute = mute] \in Execution
      BY <2>1 DEF Execution, TypeOK
    <2>3. run' \in [Handlers -> Execution \union {Idle}]
      BY <1>3, <2>1, <2>2 DEF Clear, TypeOK
    <2> QED
      BY <1>3, <2>3 DEF Clear, TypeOK, personVars
  <1>4. ASSUME NEW h \in Handlers, NEW old \in SUBSET Reports, Sweep(h, old)
        PROVE  TypeOK'
    <2>1. New("sweep", "sweep", NoReport, "dismissed", NoPenalty) \in Execution
      BY NewIsAnExecution, NoPenaltyIsOne DEF Ops, Stops, Decisions
    <2>2. [New("sweep", "sweep", NoReport, "dismissed", NoPenalty)
             EXCEPT !.set = old] \in Execution
      BY <2>1 DEF Execution
    <2>3. run' \in [Handlers -> Execution \union {Idle}]
      BY <1>4, <2>2 DEF Sweep, TypeOK
    <2> QED
      BY <1>4, <2>3 DEF Sweep, TypeOK, personVars
  <1>5. DayPasses => TypeOK'
    BY DaysAssumption DEF DayPasses, TypeOK, personVars
  <1>6. LockExpires => TypeOK'
    BY DEF LockExpires, TypeOK, personVars
  <1>7. ASSUME Crash
        PROVE  TypeOK'
    <2>1. faults' \in 0..MaxFaults
      BY <1>7, FaultsAssumption DEF Crash, TypeOK
    <2> QED
      BY <1>7, <2>1 DEF Crash, TypeOK, personVars
  <1>8. UNCHANGED vars => TypeOK'
    BY DEF vars, TypeOK, personVars
  <1> QED
    BY <1>1, <1>2, <1>3, <1>4, <1>5, <1>6, <1>7, <1>8

LEMMA TypeIsInductive ==
  ASSUME TypeOK, ReportsAreKnown, [Next]_vars
  PROVE  TypeOK'
  BY RequestTypes, TransactionTypes, ProgressTypes, OtherTypes DEF Next

(***************************************************************************)
(* An execution on a report has one.                                       *)
(***************************************************************************)
OnReport == {"resolve", "hidden", "system", "appeal"}
Known(e) ==
    e.at # "idle" =>
        /\ e.at \in InTransaction \union
                {"load", "check", "update", "after", "undo", "delete", "file"}
           <=> e.op \in OnReport
        /\ e.op \in OnReport \/ e.at = "overturn" => e.report \in Reports
        /\ e.op = "system" =>
               ReasonOf[e.report] = SystemSpam /\ e.decision = "resolved"

LEMMA KnownIsPerExecution ==
  /\ ReportsAreKnown <=> \A h \in Handlers: Known(run[h])
  /\ ReportsAreKnown' <=> \A h \in Handlers: Known(run'[h])
  <1>1. ReportsAreKnown <=> \A h \in Handlers: Known(run[h])
    BY DEF ReportsAreKnown, Known, OnReport, IsIdle
  <1>2. ReportsAreKnown' <=> \A h \in Handlers: Known(run'[h])
    BY DEF ReportsAreKnown, Known, OnReport, IsIdle
  <1> QED
    BY <1>1, <1>2

LEMMA IdleIsKnown == Known(Idle)
  BY DEF Known, Idle

LEMMA OneIsChanged ==
  ASSUME TypeOK, ReportsAreKnown, NEW h \in Handlers, NEW e, Known(e),
         run' = [run EXCEPT ![h] = e]
  PROVE  ReportsAreKnown'
  BY KnownIsPerExecution DEF TypeOK

LEMMA SomeAreTold ==
  ASSUME TypeOK, ReportsAreKnown, NEW h \in Handlers, NEW docs, NEW e,
         Known(e), Writes(h, docs, e)
  PROVE  ReportsAreKnown'
  <1>1. ASSUME NEW g \in Handlers, run[g].at \in InTransaction
        PROVE  Known([run[g] EXCEPT
                   !.missed = @ \union (docs \intersect Documents(g))])
    <2>1. run[g] \in Execution
      BY <1>1, Busy DEF IsIdle, InTransaction
    <2> QED
      BY <2>1, KnownIsPerExecution DEF Known, Execution
  <1>2. \A g \in Handlers: Known(run'[g])
    BY <1>1, KnownIsPerExecution DEF Writes
  <1> QED
    BY <1>2, KnownIsPerExecution

LEMMA Leaving ==
  ASSUME TypeOK, ReportsAreKnown, NEW h \in Handlers
  PROVE  Returns(h) \/ Throws(h) => ReportsAreKnown'
  <1>1. Known(AfterException(h))
    <2>1. CASE run[h] = Idle
      BY <2>1, IdleIsKnown DEF AfterException, Idle
    <2>2. CASE run[h] \in Execution /\ AfterException(h) # Idle
      <3>1. run[h].op = "hidden" /\ ~IsIdle(h)
        BY <2>2 DEF AfterException, IsIdle, Execution, Stops
      <3>2. run[h].report \in Reports
        BY <3>1, KnownIsPerExecution DEF Known, OnReport, IsIdle
      <3> QED
        BY <2>2, <3>1, <3>2 DEF AfterException, Known, OnReport, Execution
    <2> QED
      BY <2>1, <2>2, IdleIsKnown DEF TypeOK
  <1>2. Throws(h) => ReportsAreKnown'
    BY <1>1, OneIsChanged DEF Throws
  <1>3. Returns(h) => ReportsAreKnown'
    BY IdleIsKnown, OneIsChanged DEF Returns
  <1> QED
    BY <1>2, <1>3

LEMMA RequestsKnow ==
  ASSUME TypeOK, ReportsAreKnown, NEW h \in Handlers, NEW r \in Reports,
         Request(h, r)
  PROVE  ReportsAreKnown'
  <1> USE DEF New, Known, OnReport, InTransaction
  <1>1. \A d, p: /\ Known(New("resolve", "update", r, d, p))
                 /\ Known(New("hidden", "load", r, d, p))
                 /\ Known(New("appeal", "file", r, d, p))
                 /\ ReasonOf[r] = SystemSpam =>
                        Known(New("system", "check", r, "resolved", p))
    OBVIOUS
  <1> HIDE DEF New, Known, OnReport, InTransaction
  <1>2. \A d, p: Resolve(h, r, d, p) => ReportsAreKnown'
    BY <1>1, OneIsChanged DEF Resolve
  <1>3. ASSUME NEW p, CreateHidden(h, r, p)
        PROVE  ReportsAreKnown'
    <2>1. run' = [run EXCEPT ![h] = New("hidden", "load", r, "resolved", p)]
      BY <1>3 DEF CreateHidden
    <2> QED
      BY <1>1, <2>1, OneIsChanged
  <1>4. AutoBan(h, r) => ReportsAreKnown'
    BY <1>1, OneIsChanged DEF AutoBan
  <1>5. Appeal(h, r) => ReportsAreKnown'
    BY <1>1, OneIsChanged DEF Appeal
  <1> QED
    BY <1>2, <1>3, <1>4, <1>5 DEF Request

LEMMA TransactionsKnow ==
  ASSUME TypeOK, ReportsAreKnown, NEW h \in Handlers, Transaction(h)
  PROVE  ReportsAreKnown'
  <1>1. run[h].at \in InTransaction \union {"update"}
    BY DEF Transaction, At, Update, AlreadyDecided, ReadPerson, CountStrikes,
           CannotReduce, RunAgain, CommitResolved, CommitUnpunished,
           CommitAppealSuccess, InTransaction
  <1>2. run[h] \in Execution /\ Known(run[h]) /\ run[h].report \in Reports
    <2>1. ~IsIdle(h)
      BY <1>1 DEF IsIdle, InTransaction
    <2> QED
      BY <1>1, <2>1, Busy, KnownIsPerExecution
         DEF Known, InTransaction, OnReport
  <1>3. Update(h) \/ ReadPerson(h) \/ CountStrikes(h) \/ RunAgain(h)
            => Known(run'[h])
    <2>1. run[h].op \in OnReport /\ (run[h].op = "system" =>
              ReasonOf[run[h].report] = SystemSpam /\ run[h].decision = "resolved")
      BY <1>1, <1>2 DEF Known, InTransaction
    <2>2. Update(h) \/ ReadPerson(h) \/ CountStrikes(h) \/ RunAgain(h)
            => /\ run'[h].at \in InTransaction \union {"update"}
               /\ run'[h].op = run[h].op
               /\ run'[h].report = run[h].report
               /\ run'[h].decision = run[h].decision
      <3>1. Update(h) => run'[h].at \in InTransaction
                /\ run'[h].op = run[h].op /\ run'[h].report = run[h].report
                /\ run'[h].decision = run[h].decision
        BY <1>2 DEF Update, TypeOK, Execution, InTransaction
      <3>2. ReadPerson(h) => run'[h].at \in InTransaction
                /\ run'[h].op = run[h].op /\ run'[h].report = run[h].report
                /\ run'[h].decision = run[h].decision
        BY <1>2 DEF ReadPerson, TypeOK, Execution, InTransaction
      <3>3. CountStrikes(h) => run'[h].at \in InTransaction
                /\ run'[h].op = run[h].op /\ run'[h].report = run[h].report
                /\ run'[h].decision = run[h].decision
        BY <1>2 DEF CountStrikes, TypeOK, Execution, InTransaction
      <3>4. RunAgain(h) => run'[h].at = "update"
                /\ run'[h].op = run[h].op /\ run'[h].report = run[h].report
                /\ run'[h].decision = run[h].decision
        BY <1>2 DEF RunAgain, New, TypeOK
      <3> QED
        BY <3>1, <3>2, <3>3, <3>4
    <2> QED
      BY <1>2, <2>1, <2>2 DEF Known
  <1>4. Update(h) \/ ReadPerson(h) \/ CountStrikes(h) \/ RunAgain(h)
            => ReportsAreKnown'
    <2>1. Update(h) \/ ReadPerson(h) \/ CountStrikes(h) \/ RunAgain(h)
              => \A g \in Handlers \ {h}: run'[g] = run[g]
      BY DEF Update, ReadPerson, CountStrikes, RunAgain, TypeOK
    <2> QED
      BY <1>3, <2>1, KnownIsPerExecution
  <1>5. AlreadyDecided(h) \/ CannotReduce(h) => ReportsAreKnown'
    BY Leaving DEF AlreadyDecided, CannotReduce
  <1>6. Known(Committed(h))
    <2>1. run[h].op = "hidden" =>
            Known(New("hidden", "after", run[h].report, "resolved", NoPenalty))
      BY <1>2 DEF New, Known, OnReport
    <2> QED
      BY <2>1, IdleIsKnown DEF Committed
  <1>7. CommitResolved(h) \/ CommitUnpunished(h) \/ CommitAppealSuccess(h)
            => ReportsAreKnown'
    BY <1>6, SomeAreTold
       DEF CommitResolved, CommitUnpunished, CommitAppealSuccess
  <1> QED
    BY <1>4, <1>5, <1>7 DEF Transaction

LEMMA ProgressKnows ==
  ASSUME TypeOK, ReportsAreKnown, NEW h \in Handlers, Progress(h)
  PROVE  ReportsAreKnown'
  <1>1. ~IsIdle(h) /\ run[h] \in Execution /\ Known(run[h])
    <2>1. ~IsIdle(h)
      BY DEF Progress, At, IsIdle, LoadHidden, CheckAutoBan, Afterwards, Undo,
             DeleteHidden, FileAppeal, Lift, FindLast, Overturn, DeleteOld
    <2> QED
      BY <2>1, Busy, KnownIsPerExecution
  <1>2. ASSUME NEW stop \in {"update", "delete"}, Goes(h, stop),
               run[h].at \in {"load", "check", "undo"}
        PROVE  ReportsAreKnown'
    <2>1. Known([run[h] EXCEPT !.at = stop])
      BY <1>1, <1>2 DEF Known, Execution, OnReport
    <2> QED
      BY <1>2, <2>1, OneIsChanged DEF Goes, TypeOK
  <1>3. LoadHidden(h) \/ CheckAutoBan(h) \/ Undo(h) \/ Afterwards(h)
            => ReportsAreKnown'
    BY <1>2, Leaving DEF LoadHidden, CheckAutoBan, Undo, Afterwards, At
  <1>4. DeleteHidden(h) \/ FileAppeal(h) \/ Overturn(h) \/ DeleteOld(h)
            => ReportsAreKnown'
    BY IdleIsKnown, SomeAreTold, Leaving
       DEF DeleteHidden, FileAppeal, Overturn, DeleteOld
  <1>5. Lift(h) => ReportsAreKnown'
    <2>1. Known(New("clear", "last", NoReport, "dismissed", NoPenalty))
      BY DEF New, Known, OnReport, InTransaction
    <2>2. \A docs: Writes(h, docs,
                          New("clear", "last", NoReport, "dismissed", NoPenalty))
                       => ReportsAreKnown'
      BY <2>1, SomeAreTold
    <2> QED
      BY <2>2 DEF Lift
  <1>6. ASSUME FindLast(h)
        PROVE  ReportsAreKnown'
    <2>1. ASSUME NEW r \in Reports,
                 run' = [run EXCEPT ![h].at = "overturn", ![h].report = r]
          PROVE  ReportsAreKnown'
      <3>1. run[h].op \notin OnReport
        BY <1>1, <1>6 DEF FindLast, At, Known, InTransaction
      <3>2. Known(run'[h])
        <4>1. /\ run'[h].at = "overturn" /\ run'[h].report = r
              /\ run'[h].op = run[h].op
          BY <1>1, <2>1 DEF Execution, TypeOK
        <4> QED
          BY <3>1, <4>1 DEF Known, InTransaction, OnReport
      <3>3. \A g \in Handlers \ {h}: run'[g] = run[g]
        BY <2>1 DEF TypeOK
      <3> QED
        BY <3>2, <3>3, KnownIsPerExecution
    <2> QED
      BY <1>6, <2>1, Leaving DEF FindLast
  <1> QED
    BY <1>3, <1>4, <1>5, <1>6 DEF Progress

LEMMA ReportsStayKnown ==
  ASSUME TypeOK, ReportsAreKnown, [Next]_vars
  PROVE  ReportsAreKnown'
  <1>1. ASSUME NEW h \in Handlers, NEW o \in {"unban", "unmute", "clear"},
               Clear(h, o)
        PROVE  ReportsAreKnown'
    <2>1. /\ Known(New(o, "last", NoReport, "dismissed", NoPenalty))
          /\ Known([New(o, "lift", NoReport, "dismissed", NoPenalty)
                      EXCEPT !.ban = ban, !.mute = mute])
      BY DEF New, Known, OnReport, InTransaction
    <2> QED
      BY <1>1, <2>1, OneIsChanged DEF Clear
  <1>2. ASSUME NEW h \in Handlers, NEW old \in SUBSET Reports, Sweep(h, old)
        PROVE  ReportsAreKnown'
    <2>1. Known([New("sweep", "sweep", NoReport, "dismissed", NoPenalty)
                   EXCEPT !.set = old])
      BY DEF New, Known, OnReport, InTransaction
    <2> QED
      BY <1>2, <2>1, OneIsChanged DEF Sweep
  <1>3. \A h \in Handlers: Fail(h) => ReportsAreKnown'
    BY Leaving DEF Fail
  <1>4. Crash => ReportsAreKnown'
    BY IdleIsKnown, KnownIsPerExecution DEF Crash
  <1>5. UNCHANGED run => ReportsAreKnown'
    BY KnownIsPerExecution
  <1>6. (\E r \in Reports: Create(r)) \/ DayPasses \/ LockExpires \/ UNCHANGED vars
            => UNCHANGED run
    BY DEF Create, DayPasses, LockExpires, vars
  <1> QED
    BY <1>1, <1>2, <1>3, <1>4, <1>5, <1>6, RequestsKnow, TransactionsKnow,
       ProgressKnows DEF Next

(***************************************************************************)
(* What the transactions read.  In most steps they go on, and are told what*)
(* was written of what they may write.                                     *)
(***************************************************************************)
Told(docs) ==
    \A g \in Handlers: run'[g].at \in InTransaction =>
        /\ run[g].at \in InTransaction
        /\ run'[g] = [run[g] EXCEPT
                        !.missed = @ \union (docs \intersect Documents(g))]

WritesOnly(docs) ==
    /\ \A q \in Reports \ docs: status'[q] = status[q] \/ status[q] = "unused"
    /\ Person \notin docs => ban' = ban /\ mute' = mute

NothingResolved == \A q \in Reports: status'[q] = "resolved" => status[q] = "resolved"

Transactions == SnapshotsHold /\ PersonIsKnown /\ RivalsMeet

LEMMA ToldFields ==
  ASSUME TypeOK, NEW docs, Told(docs), NEW g \in Handlers,
         run'[g].at \in InTransaction
  PROVE  /\ run[g] \in Execution
         /\ run[g].at \in InTransaction
         /\ run'[g].at = run[g].at
         /\ run'[g].op = run[g].op
         /\ run'[g].report = run[g].report
         /\ run'[g].decision = run[g].decision
         /\ run'[g].ban = run[g].ban
         /\ run'[g].mute = run[g].mute
         /\ run'[g].count = run[g].count
         /\ run'[g].set = run[g].set
         /\ run'[g].missed = run[g].missed \union (docs \intersect Documents(g))
  <1>1. run[g].at \in InTransaction
    BY DEF Told
  <1>2. run[g] \in Execution
    BY <1>1, Busy DEF IsIdle, InTransaction
  <1> QED
    BY <1>1, <1>2 DEF Told, Execution

LEMMA TransactionsGoOn ==
  ASSUME TypeOK, ReportsAreKnown, Transactions,
         NEW docs, Told(docs), WritesOnly(docs)
  PROVE  Transactions'
  <1>1. ASSUME NEW g \in Handlers, run'[g].at \in InTransaction,
               NEW q \in Reports, q \in Documents(g), q \notin run'[g].missed,
               status[q] # "unused"
        PROVE  status'[q] = status[q]
    <2>1. q \notin docs
      BY <1>1, ToldFields
    <2> QED
      BY <1>1, <2>1 DEF WritesOnly
  <1>2. SnapshotsHold'
    <2> SUFFICES ASSUME NEW g \in Handlers, run'[g].at \in InTransaction
                 PROVE  /\ run'[g].op # "system"
                           /\ run'[g].report \notin run'[g].missed
                           => status'[run'[g].report] = From(run'[g].decision)
                        /\ \A q \in run'[g].set \ run'[g].missed:
                               status'[q] = "pending"
      BY DEF SnapshotsHold, From
    <2>1. run[g] \in Execution /\ run[g].at \in InTransaction
      BY ToldFields
    <2>2. run[g].report \in Reports
      <3>1. ~IsIdle(g)
        BY <2>1 DEF IsIdle, InTransaction
      <3> QED
        BY <2>1, <3>1 DEF ReportsAreKnown
    <2>3. run[g].set \subseteq Reports
      BY <2>1 DEF Execution
    <2>4. ASSUME run'[g].op # "system", run'[g].report \notin run'[g].missed
          PROVE  status'[run'[g].report] = From(run'[g].decision)
      <3>1. status[run[g].report] = From(run[g].decision)
        BY <2>1, <2>4, ToldFields DEF Transactions, SnapshotsHold
      <3>2. status[run[g].report] # "unused"
        BY <3>1 DEF From
      <3> QED
        BY <1>1, <2>2, <2>4, <3>1, <3>2, ToldFields DEF Documents
    <2>5. ASSUME NEW q \in run'[g].set \ run'[g].missed
          PROVE  status'[q] = "pending"
      <3>1. status[q] = "pending" /\ q \in Documents(g) /\ q \in Reports
        BY <2>1, <2>3, <2>5, ToldFields
           DEF Transactions, SnapshotsHold, Documents
      <3> QED
        BY <1>1, <2>5, <3>1
    <2> QED
      BY <2>4, <2>5
  <1>3. PersonIsKnown'
    <2> SUFFICES ASSUME NEW g \in Handlers,
                        \/ run'[g].at = "count"
                        \/ run'[g].at = "commit" /\
                           run'[g].decision \in {"resolved", "appeal_success"},
                        Person \notin run'[g].missed
                 PROVE  run'[g].ban = ban' /\ run'[g].mute = mute'
      BY DEF PersonIsKnown, At
    <2>1. run'[g].at \in InTransaction
      BY DEF InTransaction
    <2>2. Person \notin docs /\ Person \notin run[g].missed
      BY <2>1, ToldFields DEF Documents
    <2>3. run[g].ban = ban /\ run[g].mute = mute
      BY <2>1, <2>2, ToldFields DEF Transactions, PersonIsKnown, At
    <2> QED
      BY <2>1, <2>2, <2>3, ToldFields DEF WritesOnly
  <1>4. RivalsMeet'
    <2> SUFFICES ASSUME NEW g \in Handlers, NEW h \in Handlers,
                        Resolving(g)', run'[g].op # "system",
                        Resolving(h)', run'[h].op # "system",
                        ReasonOf[run'[g].report] = ReasonOf[run'[h].report]
                 PROVE  Merges(g, h)' \/ Merges(h, g)'
      BY DEF RivalsMeet
    <2>1. Resolving(g) /\ Resolving(h)
      BY ToldFields DEF Resolving
    <2>2. Merges(g, h) \/ Merges(h, g)
      BY <2>1, ToldFields DEF Transactions, RivalsMeet, Resolving
    <2>3. run[g].missed \subseteq run'[g].missed /\ run[h].missed \subseteq run'[h].missed
      BY ToldFields DEF Resolving
    <2>4. /\ run'[g].report = run[g].report /\ run'[h].report = run[h].report
          /\ run'[g].set = run[g].set /\ run'[h].set = run[h].set
      BY ToldFields DEF Resolving
    <2> QED
      BY <2>2, <2>3, <2>4 DEF Merges
  <1> QED
    BY <1>2, <1>3, <1>4 DEF Transactions

\* Fewer strikes count less.
StrikesIn(st, r) == {q \in SameReason(r): st[q] = "resolved"}

LEMMA FewerStrikes ==
  ASSUME NothingResolved, NEW r
  PROVE  /\ Cardinality(StrikesIn(status', r)) <= Cardinality(StrikesIn(status, r))
         /\ Cardinality(StrikesIn(status', r)) \in Nat
         /\ Cardinality(StrikesIn(status, r)) \in Nat
  <1>1. /\ StrikesIn(status, r) \subseteq Reports
        /\ StrikesIn(status', r) \subseteq StrikesIn(status, r)
    BY DEF StrikesIn, SameReason, NothingResolved
  <1> QED
    BY <1>1, FiniteAssumption, FS_Subset, FS_CardinalityType

\* The transaction of g, as it stands after the step, knows all strikes.
LEMMA CountedAfterwards ==
  ASSUME \A g \in Handlers:
           /\ run'[g].at = "commit" /\ run'[g].decision = "resolved"
           /\ Rules[ReasonOf[run'[g].report]] # <<>>
           /\ run'[g].missed \intersect
                  ({run'[g].report} \union run'[g].set) = {}
           => run'[g].count >= Cardinality(StrikesIn(status', run'[g].report))
  PROVE  StrikesAreCounted'
  BY DEF StrikesAreCounted, At, Strikes, StrikesIn, SameReason

LEMMA StrikesStayCounted ==
  ASSUME TypeOK, StrikesAreCounted, NEW docs, Told(docs), NothingResolved
  PROVE  StrikesAreCounted'
  <1> SUFFICES ASSUME NEW g \in Handlers,
                      run'[g].at = "commit", run'[g].decision = "resolved",
                      Rules[ReasonOf[run'[g].report]] # <<>>,
                      run'[g].missed \intersect
                          ({run'[g].report} \union run'[g].set) = {}
               PROVE  run'[g].count >=
                          Cardinality(StrikesIn(status', run'[g].report))
    BY CountedAfterwards
  <1>1. run'[g].at \in InTransaction
    BY DEF InTransaction
  <1>2. /\ run[g].count \in Nat
        /\ run'[g].count = run[g].count
        /\ run'[g].report = run[g].report
    BY <1>1, ToldFields DEF Execution
  <1>3. run[g].count >= Cardinality(Strikes(run[g].report))
    BY <1>1, ToldFields DEF StrikesAreCounted, At
  <1>4. Strikes(run[g].report) = StrikesIn(status, run[g].report)
    BY DEF Strikes, StrikesIn
  <1>5. run[g].count >= Cardinality(StrikesIn(status, run[g].report))
    BY <1>3, <1>4
  <1> QED
    BY <1>2, <1>5, FewerStrikes

(***************************************************************************)
(* Steps that write nothing, and leave the transactions of others alone.   *)
(***************************************************************************)
Sound == CasesAreDue /\ Transactions /\ StrikesAreCounted

LEMMA NobodyIsTold ==
  ASSUME TypeOK, NEW h \in Handlers, NEW e, e.at \notin InTransaction,
         run' = [run EXCEPT ![h] = e]
  PROVE  Told({})
  <1> SUFFICES ASSUME NEW g \in Handlers, run'[g].at \in InTransaction
               PROVE  /\ run[g].at \in InTransaction
                      /\ run'[g] = [run[g] EXCEPT
                             !.missed = @ \union ({} \intersect Documents(g))]
    BY DEF Told
  <1>1. g # h /\ run'[g] = run[g]
    BY DEF TypeOK
  <1>2. run[g] \in Execution
    BY <1>1, Busy DEF IsIdle, InTransaction
  <1> QED
    BY <1>1, <1>2 DEF Execution

LEMMA OthersAreTold ==
  ASSUME TypeOK, NEW h \in Handlers, NEW docs, NEW e,
         e.at \notin InTransaction, Writes(h, docs, e)
  PROVE  Told(docs)
  BY DEF Told, Writes, TypeOK

LEMMA QuietSteps ==
  ASSUME TypeOK, ReportsAreKnown, Sound, Told({}),
         UNCHANGED <<status, ban, mute, due>>
  PROVE  Sound'
  <1>1. WritesOnly({}) /\ NothingResolved
    BY DEF WritesOnly, NothingResolved
  <1>2. Transactions' /\ StrikesAreCounted'
    BY <1>1, TransactionsGoOn, StrikesStayCounted DEF Sound
  <1>3. CasesAreDue'
    BY DEF Sound, CasesAreDue
  <1> QED
    BY <1>2, <1>3 DEF Sound

LEMMA LeavingIsQuiet ==
  ASSUME TypeOK, ReportsAreKnown, Sound, NEW h \in Handlers,
         Returns(h) \/ Throws(h),
         UNCHANGED <<status, ban, mute, due>>
  PROVE  Sound'
  <1>1. Idle.at \notin InTransaction
    BY DEF Idle, InTransaction
  <1>2. AfterException(h).at \notin InTransaction
    <2>1. CASE run[h] = Idle
      BY <1>1, <2>1 DEF AfterException, Idle
    <2>2. CASE run[h] \in Execution
      BY <1>1, <2>2 DEF AfterException, Execution, InTransaction
    <2> QED
      BY <2>1, <2>2 DEF TypeOK
  <1>3. Told({})
    BY <1>1, <1>2, NobodyIsTold DEF Returns, Throws
  <1> QED
    BY <1>3, QuietSteps

LEMMA GoingIsQuiet ==
  ASSUME TypeOK, ReportsAreKnown, Sound, NEW h \in Handlers, NEW e,
         e.at \notin InTransaction, run' = [run EXCEPT ![h] = e],
         UNCHANGED <<status, ban, mute, due>>
  PROVE  Sound'
  BY NobodyIsTold, QuietSteps

\* Steps that write, but resolve nothing.
LEMMA WritersAreSound ==
  ASSUME TypeOK, ReportsAreKnown, Sound, NEW docs, Told(docs),
         WritesOnly(docs), NothingResolved, CasesAreDue'
  PROVE  Sound'
  BY TransactionsGoOn, StrikesStayCounted DEF Sound

(***************************************************************************)
(* Requests.                                                               *)
(***************************************************************************)
LEMMA RequestsAreSound ==
  ASSUME TypeOK, ReportsAreKnown, Sound, NEW h \in Handlers, NEW r \in Reports,
         Request(h, r)
  PROVE  Sound'
  <1>1. \A o, d, p: \A stop \in {"update", "load", "check", "file"}:
            New(o, stop, r, d, p).at \notin InTransaction
    BY DEF New, InTransaction
  <1>2. ASSUME NEW d, NEW p, Resolve(h, r, d, p)
        PROVE  Sound'
    BY <1>1, <1>2, GoingIsQuiet DEF Resolve, personVars
  <1>3. ASSUME NEW p, CreateHidden(h, r, p)
        PROVE  Sound'
    <2>1. Told({})
      BY <1>1, <1>3, NobodyIsTold DEF CreateHidden
    <2>2. status[r] = "unused"
      BY <1>3 DEF CreateHidden, Unused, Used
    <2>3. WritesOnly({}) /\ NothingResolved
      BY <1>3, <2>2 DEF CreateHidden, WritesOnly, NothingResolved, personVars, TypeOK
    <2>4. CasesAreDue'
      BY <1>3 DEF CreateHidden, Sound, CasesAreDue, TypeOK
    <2> QED
      BY <2>1, <2>3, <2>4, WritersAreSound
  <1>4. ASSUME AutoBan(h, r)
        PROVE  Sound'
    BY <1>1, <1>4, GoingIsQuiet DEF AutoBan, personVars
  <1>5. ASSUME Appeal(h, r)
        PROVE  Sound'
    BY <1>1, <1>5, GoingIsQuiet DEF Appeal, personVars
  <1> QED
    BY <1>2, <1>3, <1>4, <1>5 DEF Request

(***************************************************************************)
(* The other operations.                                                   *)
(***************************************************************************)
LEMMA ProgressIsSound ==
  ASSUME TypeOK, ReportsAreKnown, Sound, NEW h \in Handlers, Progress(h)
  PROVE  Sound'
  <1>1. ~IsIdle(h) /\ run[h] \in Execution
    <2>1. ~IsIdle(h)
      BY DEF Progress, At, IsIdle, LoadHidden, CheckAutoBan, Afterwards, Undo,
             DeleteHidden, FileAppeal, Lift, FindLast, Overturn, DeleteOld
    <2> QED
      BY <2>1, Busy
  <1>2. Idle.at \notin InTransaction
    BY DEF Idle, InTransaction
  <1>3. ASSUME NEW stop \in {"update", "delete"}, Goes(h, stop),
               UNCHANGED <<status, ban, mute, due>>
        PROVE  Sound'
    <2>1. [run[h] EXCEPT !.at = stop].at \notin InTransaction
      BY <1>1 DEF Execution, InTransaction
    <2>2. run' = [run EXCEPT ![h] = [run[h] EXCEPT !.at = stop]]
      BY <1>3 DEF Goes
    <2> QED
      BY <1>3, <2>1, <2>2, GoingIsQuiet
  <1>4. LoadHidden(h) \/ CheckAutoBan(h) \/ Undo(h) \/ Afterwards(h) => Sound'
    BY <1>3, LeavingIsQuiet
       DEF LoadHidden, CheckAutoBan, Undo, Afterwards, personVars
  <1>5. ASSUME DeleteHidden(h)
        PROVE  Sound'
    <2>1. Told({run[h].report})
      BY <1>2, <1>5, OthersAreTold DEF DeleteHidden
    <2>2. WritesOnly({run[h].report}) /\ NothingResolved
      BY <1>5 DEF DeleteHidden, WritesOnly, NothingResolved, personVars, TypeOK
    <2>3. CasesAreDue'
      BY <1>5 DEF DeleteHidden, Sound, CasesAreDue, TypeOK
    <2> QED
      BY <2>1, <2>2, <2>3, WritersAreSound
  <1>6. ASSUME FileAppeal(h), status[run[h].report] # "deleted"
        PROVE  Sound'
    <2>1. Told({run[h].report})
      BY <1>2, <1>6, OthersAreTold DEF FileAppeal
    <2>2. WritesOnly({run[h].report}) /\ NothingResolved
      BY <1>6 DEF FileAppeal, WritesOnly, NothingResolved, personVars, TypeOK
    <2>3. CasesAreDue'
      BY <1>6 DEF FileAppeal, Sound, CasesAreDue, TypeOK
    <2> QED
      BY <2>1, <2>2, <2>3, WritersAreSound
  <1>7. FileAppeal(h) /\ status[run[h].report] = "deleted" => Sound'
    BY LeavingIsQuiet DEF FileAppeal, personVars
  <1>8. ASSUME Lift(h)
        PROVE  Sound'
    <2>1. New("clear", "last", NoReport, "dismissed", NoPenalty).at
              \notin InTransaction
      BY DEF New, InTransaction
    <2>2. PICK docs \in SUBSET {Person}:
            /\ Writes(h, docs, New("clear", "last", NoReport, "dismissed", NoPenalty))
            /\ Person \notin docs => ban' = ban /\ mute' = mute
      <3> DEFINE unban == run[h].op = "unban" /\ run[h].ban # 0
                 unmute == run[h].op = "unmute" /\ run[h].mute # 0
                 docs == IF unban \/ unmute THEN {Person} ELSE {}
      <3>1. docs \in SUBSET {Person}
        OBVIOUS
      <3>2. Writes(h, docs, New("clear", "last", NoReport, "dismissed", NoPenalty))
        BY <1>8 DEF Lift
      <3>3. Person \notin docs => ban' = ban /\ mute' = mute
        BY <1>8 DEF Lift
      <3> HIDE DEF docs
      <3> QED
        BY <3>1, <3>2, <3>3
    <2>3. Told(docs)
      BY <2>1, <2>2, OthersAreTold
    <2>4. WritesOnly(docs) /\ NothingResolved
      BY <1>8, <2>2 DEF Lift, WritesOnly, NothingResolved
    <2>5. CasesAreDue'
      BY <1>8 DEF Lift, Sound, CasesAreDue
    <2> QED
      BY <2>3, <2>4, <2>5, WritersAreSound
  <1>9. ASSUME FindLast(h)
        PROVE  Sound'
    <2>1. ASSUME NEW r \in Reports,
                 run' = [run EXCEPT ![h].at = "overturn", ![h].report = r]
          PROVE  Sound'
      <3>1. run' = [run EXCEPT
                      ![h] = [run[h] EXCEPT !.at = "overturn", !.report = r]]
        BY <2>1 DEF TypeOK
      <3>2. [run[h] EXCEPT !.at = "overturn", !.report = r].at \notin InTransaction
        BY <1>1 DEF Execution, InTransaction
      <3> QED
        BY <1>9, <3>1, <3>2, GoingIsQuiet DEF FindLast, personVars
    <2> QED
      BY <1>9, <2>1, LeavingIsQuiet DEF FindLast, personVars
  <1>10. ASSUME Overturn(h), status[run[h].report] # "deleted"
        PROVE  Sound'
    <2>1. Told({run[h].report})
      BY <1>2, <1>10, OthersAreTold DEF Overturn
    <2>2. WritesOnly({run[h].report}) /\ NothingResolved
      BY <1>10 DEF Overturn, WritesOnly, NothingResolved, personVars, TypeOK
    <2>3. CasesAreDue'
      BY <1>10 DEF Overturn, Sound, CasesAreDue, TypeOK
    <2> QED
      BY <2>1, <2>2, <2>3, WritersAreSound
  <1>11. Overturn(h) /\ status[run[h].report] = "deleted" => Sound'
    BY LeavingIsQuiet DEF Overturn, personVars
  <1>12. ASSUME DeleteOld(h)
        PROVE  Sound'
    <2>1. Told(run[h].set)
      BY <1>2, <1>12, OthersAreTold DEF DeleteOld
    <2>2. WritesOnly(run[h].set) /\ NothingResolved
      BY <1>12 DEF DeleteOld, WritesOnly, NothingResolved, personVars, TypeOK
    <2>3. CasesAreDue'
      BY <1>12 DEF DeleteOld, Sound, CasesAreDue, TypeOK
    <2> QED
      BY <2>1, <2>2, <2>3, WritersAreSound
  <1> QED
    BY <1>4, <1>5, <1>6, <1>7, <1>8, <1>9, <1>10, <1>11, <1>12 DEF Progress

(***************************************************************************)
(* The steps of a transaction.                                             *)
(***************************************************************************)
LEMMA InHand ==
  ASSUME TypeOK, ReportsAreKnown, NEW h \in Handlers,
         run[h].at \in InTransaction \union {"update"}
  PROVE  /\ run[h] \in Execution
         /\ run[h].report \in Reports
         /\ run[h].set \subseteq Reports
         /\ run[h].op = "system" => /\ run[h].decision = "resolved"
                                    /\ ReasonOf[run[h].report] = SystemSpam
  <1>1. ~IsIdle(h)
    BY DEF IsIdle, InTransaction
  <1>2. run[h] \in Execution
    BY <1>1, Busy
  <1>3. run[h].op \in OnReport
    BY <1>1 DEF ReportsAreKnown, OnReport
  <1> QED
    BY <1>1, <1>2, <1>3 DEF ReportsAreKnown, OnReport, Execution

\* Steps that only look: the others go on as they were.
Looks(h) ==
    /\ \A g \in Handlers \ {h}: run'[g] = run[g]
    /\ UNCHANGED <<status, ban, mute, due>>

LEMMA LookingIsSound ==
  ASSUME TypeOK, ReportsAreKnown, Sound, NEW h \in Handlers, Looks(h),
         run[h] \in Execution, run[h].report \in Reports,
         run'[h].at \in InTransaction,
         run'[h].op = run[h].op, run'[h].report = run[h].report,
         run'[h].decision = run[h].decision,
         \* the snapshot of h
         /\ run'[h].op # "system" /\ run'[h].report \notin run'[h].missed
            => status[run'[h].report] = From(run'[h].decision),
         \A q \in run'[h].set \ run'[h].missed: status[q] = "pending",
         \* the person as h read them
         /\ \/ run'[h].at = "count"
            \/ run'[h].at = "commit" /\
               run'[h].decision \in {"resolved", "appeal_success"}
         /\ Person \notin run'[h].missed
         => run'[h].ban = ban /\ run'[h].mute = mute,
         \* the others
         \A g \in Handlers \ {h}:
            /\ Resolving(g) /\ run[g].op # "system"
            /\ run'[h].decision = "resolved" /\ run'[h].op # "system"
            /\ ReasonOf[run[g].report] = ReasonOf[run'[h].report]
            => (Merges(g, h) \/ Merges(h, g))',
         \* the strikes as h counted them
         /\ run'[h].at = "commit" /\ run'[h].decision = "resolved"
         /\ Rules[ReasonOf[run'[h].report]] # <<>>
         /\ run'[h].missed \intersect ({run'[h].report} \union run'[h].set) = {}
         => run'[h].count >= Cardinality(StrikesIn(status, run'[h].report))
  PROVE  Sound'
  <1>1. CasesAreDue'
    BY DEF Looks, Sound, CasesAreDue
  <1>2. SnapshotsHold'
    <2> SUFFICES ASSUME NEW g \in Handlers, run'[g].at \in InTransaction
                 PROVE  /\ run'[g].op # "system"
                           /\ run'[g].report \notin run'[g].missed
                           => status'[run'[g].report] = From(run'[g].decision)
                        /\ \A q \in run'[g].set \ run'[g].missed:
                               status'[q] = "pending"
      BY DEF SnapshotsHold, From
    <2>1. CASE g = h
      BY <2>1 DEF Looks
    <2>2. CASE g # h
      BY <2>2 DEF Looks, Sound, Transactions, SnapshotsHold
    <2> QED
      BY <2>1, <2>2
  <1>3. PersonIsKnown'
    BY DEF Looks, Sound, Transactions, PersonIsKnown, At
  <1>4. RivalsMeet'
    <2> SUFFICES ASSUME NEW g \in Handlers, NEW k \in Handlers,
                        Resolving(g)', run'[g].op # "system",
                        Resolving(k)', run'[k].op # "system",
                        ReasonOf[run'[g].report] = ReasonOf[run'[k].report]
                 PROVE  Merges(g, k)' \/ Merges(k, g)'
      BY DEF RivalsMeet
    <2>1. CASE g = k
      BY <2>1 DEF Merges
    <2>2. CASE g # k /\ g # h /\ k # h
      BY <2>2 DEF Looks, Sound, Transactions, RivalsMeet, Resolving, Merges
    <2>3. CASE g # k /\ k = h
      BY <2>3 DEF Looks, Resolving
    <2>4. CASE g # k /\ g = h
      BY <2>4 DEF Looks, Resolving
    <2> QED
      BY <2>1, <2>2, <2>3, <2>4
  <1>5. StrikesAreCounted'
    <2> SUFFICES ASSUME NEW g \in Handlers,
                        run'[g].at = "commit", run'[g].decision = "resolved",
                        Rules[ReasonOf[run'[g].report]] # <<>>,
                        run'[g].missed \intersect
                            ({run'[g].report} \union run'[g].set) = {}
                 PROVE  run'[g].count >=
                            Cardinality(StrikesIn(status', run'[g].report))
      BY CountedAfterwards
    <2>1. CASE g = h
      BY <2>1 DEF Looks
    <2>2. CASE g # h
      <3>1. run[g].count >= Cardinality(Strikes(run[g].report))
        BY <2>2 DEF Looks, Sound, StrikesAreCounted, At
      <3> QED
        BY <2>2, <3>1 DEF Looks, Strikes, StrikesIn
    <2> QED
      BY <2>1, <2>2
  <1> QED
    BY <1>1, <1>2, <1>3, <1>4, <1>5 DEF Sound, Transactions

LEMMA UpdateIsSound ==
  ASSUME TypeOK, ReportsAreKnown, Sound, NEW h \in Handlers, Update(h)
  PROVE  Sound'
  <1>1. /\ run[h] \in Execution /\ run[h].report \in Reports
        /\ run[h].op = "system" => run[h].decision = "resolved"
    BY InHand DEF Update, At
  <1>2. /\ run'[h].at = IF run[h].decision \in {"resolved", "appeal_success"}
                        THEN "person" ELSE "commit"
        /\ run'[h].op = run[h].op /\ run'[h].report = run[h].report
        /\ run'[h].decision = run[h].decision
        /\ run'[h].set = IF run[h].decision = "resolved"
                         THEN Siblings(run[h].report) ELSE {}
        /\ run'[h].missed = {}
    BY <1>1 DEF Update, TypeOK, Execution
  <1>3. Looks(h)
    BY DEF Update, Looks, TypeOK, personVars
  <1>4. run'[h].at \in InTransaction
    BY <1>2 DEF InTransaction
  <1>5. run'[h].op # "system" => status[run'[h].report] = From(run'[h].decision)
    BY <1>2 DEF Update
  <1>6. \A q \in run'[h].set: status[q] = "pending"
    BY <1>2 DEF Siblings
  <1>7. ASSUME NEW g \in Handlers \ {h}, Resolving(g), run[g].op # "system",
               run'[h].decision = "resolved", run'[h].op # "system",
               ReasonOf[run[g].report] = ReasonOf[run'[h].report]
        PROVE  Merges(g, h)'
    <2>1. run[g].report \in Reports
      BY <1>7, InHand DEF Resolving
    <2>2. run[g].report \notin run[g].missed => status[run[g].report] = "pending"
      BY <1>7 DEF Sound, Transactions, SnapshotsHold, Resolving, From
    <2>3. run[g].report \in run[g].missed
          \/ run[g].report = run'[h].report \/ run[g].report \in run'[h].set
      BY <1>2, <1>7, <2>1, <2>2 DEF Siblings, SameReason
    <2> QED
      BY <1>3, <1>7, <2>3 DEF Looks, Merges
  <1>8. run'[h].at = "commit" =>
            run'[h].decision \notin {"resolved", "appeal_success"}
    BY <1>2
  <1>9. run'[h].at # "count"
    BY <1>2
  <1> QED
    BY <1>1, <1>2, <1>3, <1>4, <1>5, <1>6, <1>7, <1>8, <1>9, LookingIsSound

LEMMA ReadPersonIsSound ==
  ASSUME TypeOK, ReportsAreKnown, Sound, NEW h \in Handlers, ReadPerson(h)
  PROVE  Sound'
  <1>1. /\ run[h] \in Execution /\ run[h].report \in Reports
        /\ run[h].at \in InTransaction
    BY InHand DEF ReadPerson, At, InTransaction
  <1>2. /\ run'[h].at = IF run[h].decision = "resolved" THEN "count" ELSE "commit"
        /\ run'[h].op = run[h].op /\ run'[h].report = run[h].report
        /\ run'[h].decision = run[h].decision
        /\ run'[h].set = run[h].set /\ run'[h].missed = run[h].missed
        /\ run'[h].ban = ban /\ run'[h].mute = mute
    BY <1>1 DEF ReadPerson, TypeOK, Execution
  <1>3. Looks(h)
    BY DEF ReadPerson, Looks, TypeOK, personVars
  <1>4. run'[h].at \in InTransaction
    BY <1>2 DEF InTransaction
  <1>5. /\ run[h].op # "system" /\ run[h].report \notin run[h].missed
           => status[run[h].report] = From(run[h].decision)
        /\ \A q \in run[h].set \ run[h].missed: status[q] = "pending"
    BY <1>1 DEF Sound, Transactions, SnapshotsHold
  <1>6. ASSUME NEW g \in Handlers \ {h}, Resolving(g), run[g].op # "system",
               run'[h].decision = "resolved", run'[h].op # "system",
               ReasonOf[run[g].report] = ReasonOf[run'[h].report]
        PROVE  (Merges(g, h) \/ Merges(h, g))'
    BY <1>1, <1>2, <1>3, <1>6
       DEF Looks, Sound, Transactions, RivalsMeet, Resolving, Merges
  <1>7. run'[h].at = "commit" => run'[h].decision # "resolved"
    BY <1>2
  <1> QED
    BY <1>1, <1>2, <1>3, <1>4, <1>5, <1>6, <1>7, LookingIsSound

LEMMA CountIsSound ==
  ASSUME TypeOK, ReportsAreKnown, Sound, NEW h \in Handlers, CountStrikes(h)
  PROVE  Sound'
  <1>1. /\ run[h] \in Execution /\ run[h].report \in Reports
        /\ run[h].at = "count" /\ run[h].at \in InTransaction
    BY InHand DEF CountStrikes, At, InTransaction
  <1>2. /\ run'[h].at = "commit"
        /\ run'[h].op = run[h].op /\ run'[h].report = run[h].report
        /\ run'[h].decision = run[h].decision
        /\ run'[h].set = run[h].set /\ run'[h].missed = run[h].missed
        /\ run'[h].ban = run[h].ban /\ run'[h].mute = run[h].mute
        /\ run'[h].count = Cardinality(StrikesIn(status, run[h].report))
    BY <1>1 DEF CountStrikes, TypeOK, Execution, Strikes, StrikesIn
  <1>3. Looks(h)
    BY DEF CountStrikes, Looks, TypeOK, personVars
  <1>4. run'[h].at \in InTransaction
    BY <1>2 DEF InTransaction
  <1>5. /\ run[h].op # "system" /\ run[h].report \notin run[h].missed
           => status[run[h].report] = From(run[h].decision)
        /\ \A q \in run[h].set \ run[h].missed: status[q] = "pending"
    BY <1>1 DEF Sound, Transactions, SnapshotsHold
  <1>6. Person \notin run[h].missed => run[h].ban = ban /\ run[h].mute = mute
    BY <1>1 DEF Sound, Transactions, PersonIsKnown, At
  <1>7. ASSUME NEW g \in Handlers \ {h}, Resolving(g), run[g].op # "system",
               run'[h].decision = "resolved", run'[h].op # "system",
               ReasonOf[run[g].report] = ReasonOf[run'[h].report]
        PROVE  (Merges(g, h) \/ Merges(h, g))'
    BY <1>1, <1>2, <1>3, <1>7
       DEF Looks, Sound, Transactions, RivalsMeet, Resolving, Merges
  <1>8. run'[h].count >= Cardinality(StrikesIn(status, run'[h].report))
    <2>1. StrikesIn(status, run[h].report) \subseteq Reports
      BY DEF StrikesIn, SameReason
    <2>2. Cardinality(StrikesIn(status, run[h].report)) \in Nat
      BY <2>1, FiniteAssumption, FS_Subset, FS_CardinalityType
    <2> QED
      BY <1>2, <2>2
  <1> QED
    BY <1>1, <1>2, <1>3, <1>4, <1>5, <1>6, <1>7, <1>8, LookingIsSound

\* At a commit without a conflict, what the transaction read is still so.
LEMMA StillSo ==
  ASSUME TypeOK, ReportsAreKnown, Sound, NEW h \in Handlers,
         At(h, "commit"), ~Conflicts(h)
  PROVE  /\ run[h] \in Execution /\ run[h].report \in Reports
         /\ run[h].set \subseteq Reports
         /\ run[h].report \notin run[h].missed
         /\ run[h].op # "system" => status[run[h].report] = From(run[h].decision)
         /\ run[h].op = "system" => run[h].decision = "resolved"
         /\ \A q \in run[h].set: status[q] = "pending"
         /\ Committed(h).at \notin InTransaction
  <1>1. /\ run[h] \in Execution /\ run[h].report \in Reports
        /\ run[h].set \subseteq Reports /\ run[h].at \in InTransaction
        /\ run[h].op = "system" => run[h].decision = "resolved"
    BY InHand DEF At, InTransaction
  <1>2. run[h].missed \intersect ({run[h].report} \union run[h].set) = {}
    BY DEF Conflicts, WriteSet
  <1>3. Committed(h).at \notin InTransaction
    BY DEF Committed, New, Idle, InTransaction
  <1> QED
    BY <1>1, <1>2, <1>3 DEF Sound, Transactions, SnapshotsHold

LEMMA CommitUnpunishedIsSound ==
  ASSUME TypeOK, ReportsAreKnown, Sound, NEW h \in Handlers, CommitUnpunished(h)
  PROVE  Sound'
  <1>1. At(h, "commit") /\ ~Conflicts(h)
    BY DEF CommitUnpunished
  <1>2. Told(WriteSet(h))
    BY <1>1, StillSo, OthersAreTold DEF CommitUnpunished
  <1>3. WritesOnly(WriteSet(h)) /\ NothingResolved
    BY <1>1, StillSo
       DEF CommitUnpunished, WritesOnly, NothingResolved, WriteSet, personVars, TypeOK
  <1>4. CasesAreDue'
    <2>1. due[run[h].report] >= 1
      BY <1>1, StillSo DEF CommitUnpunished, From, Sound, CasesAreDue
    <2> QED
      BY <1>1, <2>1, StillSo DEF CommitUnpunished, Sound, CasesAreDue, TypeOK
  <1> QED
    BY <1>2, <1>3, <1>4, WritersAreSound

LEMMA CommitAppealIsSound ==
  ASSUME TypeOK, ReportsAreKnown, Sound, NEW h \in Handlers,
         CommitAppealSuccess(h)
  PROVE  Sound'
  <1>1. At(h, "commit") /\ ~Conflicts(h)
    BY DEF CommitAppealSuccess
  <1>2. Told(WriteSet(h))
    BY <1>1, StillSo, OthersAreTold DEF CommitAppealSuccess
  <1>3. WritesOnly(WriteSet(h)) /\ NothingResolved
    <2>1. Person \notin WriteSet(h) => ban' = ban /\ mute' = mute
      BY DEF CommitAppealSuccess, WriteSet, WritesPerson
    <2>2. /\ \A q \in Reports \ WriteSet(h): status'[q] = status[q]
          /\ NothingResolved
      BY <1>1, StillSo
         DEF CommitAppealSuccess, NothingResolved, WriteSet, TypeOK
    <2> QED
      BY <2>1, <2>2 DEF WritesOnly
  <1>4. CasesAreDue'
    <2>1. due[run[h].report] >= 1
      BY <1>1, StillSo DEF CommitAppealSuccess, From, Sound, CasesAreDue
    <2> QED
      BY <1>1, <2>1, StillSo DEF CommitAppealSuccess, Sound, CasesAreDue, TypeOK
  <1> QED
    BY <1>2, <1>3, <1>4, WritersAreSound

LEMMA CommitResolvedIsSound ==
  ASSUME TypeOK, ReportsAreKnown, Sound, NEW h \in Handlers, CommitResolved(h)
  PROVE  Sound'
  <1>1. /\ At(h, "commit") /\ ~Conflicts(h) /\ Resolving(h)
        /\ run[h].decision = "resolved" /\ From(run[h].decision) = "pending"
    BY DEF CommitResolved, Resolving, At, InTransaction, From
  <1>7. \A q \in Reports:
          /\ q = run[h].report => status'[q] = "resolved" /\
                due'[q] = IF run[h].op = "system" THEN due[q] ELSE due[q] - 1
          /\ q # run[h].report /\ q \in run[h].set =>
                status'[q] = "dismissed" /\ due'[q] = due[q] - 1
          /\ q # run[h].report /\ q \notin run[h].set =>
                status'[q] = status[q] /\ due'[q] = due[q]
    <2> SUFFICES ASSUME NEW q \in Reports
                 PROVE  /\ status'[q] = IF q = run[h].report THEN "resolved"
                                         ELSE IF q \in run[h].set THEN "dismissed"
                                         ELSE status[q]
                        /\ due'[q] = IF q = run[h].report
                                      THEN IF run[h].op = "system"
                                           THEN due[q] ELSE due[q] - 1
                                      ELSE IF q \in run[h].set
                                           THEN due[q] - 1 ELSE due[q]
      OBVIOUS
    <2>1. status' = [k \in Reports |-> CASE k = run[h].report -> "resolved"
                                          [] k # run[h].report /\ k \in run[h].set
                                               -> "dismissed"
                                          [] OTHER -> status[k]]
      BY DEF CommitResolved
    <2>2. due' = [k \in Reports |->
                    CASE k = run[h].report /\ run[h].op # "system" -> due[k] - 1
                      [] k # run[h].report /\ k \in run[h].set -> due[k] - 1
                      [] OTHER -> due[k]]
      BY DEF CommitResolved
    <2> QED
      BY <2>1, <2>2
  <1>2. Told(WriteSet(h))
    BY <1>1, StillSo, OthersAreTold DEF CommitResolved
  <1>3. WritesOnly(WriteSet(h))
    <2>1. Person \notin WriteSet(h) => ban' = ban /\ mute' = mute
      BY DEF CommitResolved, WriteSet, WritesPerson
    <2>2. \A q \in Reports \ WriteSet(h): status'[q] = status[q]
      BY DEF CommitResolved, WriteSet
    <2> QED
      BY <2>1, <2>2 DEF WritesOnly
  <1>4. CasesAreDue'
    <2> SUFFICES ASSUME NEW q \in Reports
                 PROVE  /\ due'[q] >= 0
                        /\ status'[q] \in {"pending", "appeal_pending"}
                           => due'[q] >= 1
      BY DEF CasesAreDue
    <2>1. /\ due[q] \in Int /\ due[q] >= 0
          /\ status[q] \in {"pending", "appeal_pending"} => due[q] >= 1
      BY DEF TypeOK, Sound, CasesAreDue
    <2>2. CASE q = run[h].report /\ run[h].op # "system"
      <3>1. status[q] = "pending" /\ status'[q] = "resolved" /\ due'[q] = due[q] - 1
        BY <1>1, <1>7, <2>2, StillSo
      <3> QED
        BY <2>1, <3>1
    <2>3. CASE q = run[h].report /\ run[h].op = "system"
      <3>1. status'[q] = "resolved" /\ due'[q] = due[q]
        BY <1>7, <2>3
      <3> QED
        BY <2>1, <3>1
    <2>4. CASE q # run[h].report /\ q \in run[h].set
      <3>1. status[q] = "pending" /\ status'[q] = "dismissed" /\ due'[q] = due[q] - 1
        BY <1>1, <1>7, <2>4, StillSo
      <3> QED
        BY <2>1, <3>1
    <2>5. CASE q # run[h].report /\ q \notin run[h].set
      BY <1>7, <2>1, <2>5
    <2> QED
      BY <2>2, <2>3, <2>4, <2>5
  <1>5. Transactions'
    BY <1>2, <1>3, TransactionsGoOn DEF Sound
  <1>6. StrikesAreCounted'
    <2> SUFFICES ASSUME NEW g \in Handlers,
                        run'[g].at = "commit", run'[g].decision = "resolved",
                        Rules[ReasonOf[run'[g].report]] # <<>>,
                        run'[g].missed \intersect
                            ({run'[g].report} \union run'[g].set) = {}
                 PROVE  run'[g].count >=
                            Cardinality(StrikesIn(status', run'[g].report))
      BY CountedAfterwards
    <2>1. run'[g].at \in InTransaction
      BY DEF InTransaction
    <2>2. /\ run[g] \in Execution /\ Resolving(g)
          /\ run'[g].count = run[g].count /\ run[g].count \in Nat
          /\ run'[g].report = run[g].report /\ run'[g].set = run[g].set
          /\ run'[g].missed = run[g].missed \union (WriteSet(h) \intersect Documents(g))
      BY <1>2, <2>1, ToldFields DEF Execution, Resolving
    <2>3. run[g].report \notin WriteSet(h) /\ run[g].set \intersect WriteSet(h) = {}
      BY <2>2 DEF Documents
    <2>4. run[g].missed \intersect ({run[g].report} \union run[g].set) = {}
      BY <2>2
    <2>5. run[g].op # "system"
      BY <2>2, InHand, NoRulesAssumption DEF Resolving
    <2>6. ReasonOf[run[g].report] # ReasonOf[run[h].report]
      <3> SUFFICES ASSUME ReasonOf[run[g].report] = ReasonOf[run[h].report]
                   PROVE  FALSE
        OBVIOUS
      <3>1. run[h].op # "system"
        BY <1>1, <2>2, InHand, NoRulesAssumption DEF Resolving
      <3>2. Merges(g, h) \/ Merges(h, g)
        BY <1>1, <2>2, <2>5, <3>1 DEF Sound, Transactions, RivalsMeet
      <3>3. run[h].report \in WriteSet(h) /\ run[h].set \subseteq WriteSet(h)
        BY DEF WriteSet
      <3>4. run[h].report \notin run[h].missed
        BY <1>1, StillSo
      <3> QED
        BY <2>3, <2>4, <3>2, <3>3, <3>4 DEF Merges
    <2>7. StrikesIn(status', run[g].report) \subseteq StrikesIn(status, run[g].report)
      <3>1. \A q \in Reports: status'[q] = "resolved" =>
                q = run[h].report \/ status[q] = "resolved"
        BY DEF CommitResolved
      <3> QED
        BY <2>6, <3>1 DEF StrikesIn, SameReason
    <2>8. run[g].count >= Cardinality(StrikesIn(status, run[g].report))
      <3>1. At(g, "commit") /\ run[g].decision = "resolved"
        BY <1>2, <2>1, ToldFields DEF At
      <3>2. run[g].count >= Cardinality(Strikes(run[g].report))
        BY <2>2, <2>4, <3>1 DEF Sound, StrikesAreCounted
      <3> QED
        BY <3>2 DEF Strikes, StrikesIn
    <2>9. StrikesIn(status, run[g].report) \subseteq Reports
      BY DEF StrikesIn, SameReason
    <2>10. /\ Cardinality(StrikesIn(status', run[g].report))
                <= Cardinality(StrikesIn(status, run[g].report))
           /\ Cardinality(StrikesIn(status', run[g].report)) \in Nat
           /\ Cardinality(StrikesIn(status, run[g].report)) \in Nat
      BY <2>7, <2>9, FiniteAssumption, FS_Subset, FS_CardinalityType
    <2> QED
      BY <2>2, <2>8, <2>10
  <1> QED
    BY <1>4, <1>5, <1>6 DEF Sound

LEMMA TransactionIsSound ==
  ASSUME TypeOK, ReportsAreKnown, Sound, NEW h \in Handlers, Transaction(h)
  PROVE  Sound'
  <1>1. AlreadyDecided(h) \/ CannotReduce(h) => Sound'
    BY LeavingIsQuiet DEF AlreadyDecided, CannotReduce, personVars
  <1>2. RunAgain(h) => Sound'
    <2>1. \A o, r, d, p: New(o, "update", r, d, p).at \notin InTransaction
      BY DEF New, InTransaction
    <2> QED
      BY <2>1, GoingIsQuiet DEF RunAgain, personVars
  <1> QED
    BY <1>1, <1>2, UpdateIsSound, ReadPersonIsSound, CountIsSound,
       CommitUnpunishedIsSound, CommitAppealIsSound, CommitResolvedIsSound
       DEF Transaction

(***************************************************************************)
(* The invariant, and what follows from it.                                *)
(***************************************************************************)
LEMMA SoundIsInductive ==
  ASSUME TypeOK, ReportsAreKnown, Sound, [Next]_vars
  PROVE  Sound'
  <1>1. ASSUME NEW r \in Reports, Create(r)
        PROVE  Sound'
    <2>1. Told({})
      BY <1>1, Busy
         DEF Create, Told, Execution, IsIdle, InTransaction
    <2>2. WritesOnly({}) /\ NothingResolved
      BY <1>1 DEF Create, Unused, Used, WritesOnly, NothingResolved, personVars, TypeOK
    <2>3. CasesAreDue'
      BY <1>1 DEF Create, Sound, CasesAreDue, TypeOK
    <2> QED
      BY <2>1, <2>2, <2>3, WritersAreSound
  <1>2. ASSUME NEW h \in Handlers, Fail(h)
        PROVE  Sound'
    BY <1>2, LeavingIsQuiet DEF Fail, personVars
  <1>3. ASSUME NEW h \in Handlers, NEW o, Clear(h, o)
        PROVE  Sound'
    <2>1. New(o, "last", NoReport, "dismissed", NoPenalty).at \notin InTransaction
      BY DEF New, InTransaction
    <2>2. [New(o, "lift", NoReport, "dismissed", NoPenalty)
             EXCEPT !.ban = ban, !.mute = mute].at \notin InTransaction
      BY DEF New, InTransaction
    <2> QED
      BY <1>3, <2>1, <2>2, GoingIsQuiet DEF Clear, personVars
  <1>4. ASSUME NEW h \in Handlers, NEW old \in SUBSET Reports, Sweep(h, old)
        PROVE  Sound'
    <2>1. [New("sweep", "sweep", NoReport, "dismissed", NoPenalty)
             EXCEPT !.set = old].at \notin InTransaction
      BY DEF New, InTransaction
    <2> QED
      BY <1>4, <2>1, GoingIsQuiet DEF Sweep, personVars
  <1>5. UNCHANGED <<status, ban, mute, due, run>> => Sound'
    <2>1. UNCHANGED run => Told({})
      BY Busy DEF Told, Execution, IsIdle, InTransaction
    <2> QED
      BY <2>1, QuietSteps
  <1>6. DayPasses \/ LockExpires \/ UNCHANGED vars => Sound'
    BY <1>5 DEF DayPasses, LockExpires, vars, personVars
  <1>7. Crash => Sound'
    <2>1. Crash => Told({})
      BY DEF Crash, Told, Idle, InTransaction
    <2> QED
      BY <2>1, QuietSteps DEF Crash, personVars
  <1> QED
    BY <1>1, <1>2, <1>3, <1>4, <1>6, <1>7, RequestsAreSound,
       TransactionIsSound, ProgressIsSound DEF Next

\* The inductive invariant holds: types, what executions have in hand, what is
\* due, what the transactions read and the strikes they counted.
THEOREM InvHolds == Spec => []Inv
  <1>1. Init => Inv
    <2>1. Init => TypeOK
      <3>1. Init => /\ now \in 1..LastDay /\ faults \in 0..MaxFaults
                    /\ ban \in Nat /\ mute \in Nat
        BY DaysAssumption, FaultsAssumption DEF Init
      <3>2. Init => run \in [Handlers -> Execution \union {Idle}]
        BY DEF Init
      <3>3. Init => /\ status \in [Reports -> Status]
                    /\ penalty \in [Reports -> Actions]
                    /\ due \in [Reports -> Int]
        BY DEF Init, Status, Actions
      <3>4. Init => banLock \in BOOLEAN
        BY DEF Init
      <3> QED
        BY <3>1, <3>2, <3>3, <3>4 DEF TypeOK
    <2>2. Init => \A h \in Handlers: run[h] = Idle
      BY DEF Init
    <2>3. (\A h \in Handlers: run[h] = Idle) =>
              ReportsAreKnown /\ SnapshotsHold /\ PersonIsKnown
      BY DEF Idle, ReportsAreKnown, SnapshotsHold, PersonIsKnown,
             IsIdle, At, InTransaction
    <2>4. (\A h \in Handlers: run[h] = Idle) => RivalsMeet /\ StrikesAreCounted
      BY DEF Idle, RivalsMeet, Resolving, StrikesAreCounted, At, InTransaction
    <2>5. Init => CasesAreDue
      BY DEF Init, CasesAreDue
    <2> QED
      BY <2>1, <2>2, <2>3, <2>4, <2>5 DEF Inv
  <1>2. Inv /\ [Next]_vars => Inv'
    BY TypeIsInductive, ReportsStayKnown, SoundIsInductive
       DEF Inv, Sound, Transactions
  <1> QED
    BY <1>1, <1>2, PTL DEF Spec

\* A report, or an appeal, is decided at most once each time it is put before
\* the administrators.
THEOREM DecidedOnce == Spec => []OneDecisionPerCase
  <1>1. Inv => OneDecisionPerCase
    BY DEF Inv, CasesAreDue, OneDecisionPerCase
  <1> QED
    BY <1>1, InvHolds, PTL

(***************************************************************************)
(* What a step may do to a penalty, and to the count of strikes.           *)
(***************************************************************************)
LEMMA PersonLeftAlone ==
  ASSUME TypeOK, ban' = ban, mute' = mute
  PROVE  NotShortened
  BY DEF NotShortened, TypeOK

LEMMA ResolvingDoesNotReduce ==
  ASSUME Inv, NEW h \in Handlers, CommitResolved(h)
  PROVE  NotShortened
  <1> DEFINE p == Chosen(h)
  <1>1. /\ At(h, "commit") /\ run[h].decision = "resolved"
        /\ ~Conflicts(h) /\ ~Reduces(h, p)
        /\ ban' = IF p.action = "ban" THEN now + p.days ELSE ban
        /\ mute' = IF p.action = "mute" THEN now + p.days ELSE mute
    BY DEF CommitResolved
  <1>2. ban \in Nat /\ mute \in Nat
    BY DEF Inv, TypeOK
  <1>3. CASE p.action \in {"ban", "mute"}
    <2>1. Person \in WriteSet(h)
      BY <1>1, <1>3 DEF WriteSet, WritesPerson
    <2>2. Person \notin run[h].missed
      BY <1>1, <2>1 DEF Conflicts
    <2>3. run[h].ban = ban /\ run[h].mute = mute
      BY <1>1, <2>2 DEF Inv, PersonIsKnown
    <2>4. /\ p.action = "ban" => ~(ban > now /\ now + p.days < ban)
          /\ p.action = "mute" => ~(mute > now /\ now + p.days < mute)
      BY <1>1, <2>3 DEF Reduces
    <2> HIDE DEF p
    <2> QED
      BY <1>1, <1>2, <2>4 DEF NotShortened
  <1>4. CASE p.action \notin {"ban", "mute"}
    BY <1>1, <1>2, <1>4 DEF NotShortened
  <1> QED
    BY <1>3, <1>4

LEMMA LiftingEndsAPenalty ==
  ASSUME TypeOK, NEW h \in Handlers, CommitAppealSuccess(h) \/ Lift(h)
  PROVE  NotShortened
  <1>1. (ban' = ban \/ ban' = 0) /\ (mute' = mute \/ mute' = 0)
    BY DEF CommitAppealSuccess, Lift
  <1> QED
    BY <1>1 DEF NotShortened, TypeOK

\* A ban or mute in force is never replaced by one that ends earlier.
THEOREM NeverReduced == Spec => PenaltiesAreNotReduced
  <1>1. Inv /\ [Next]_vars => [NotShortened]_vars
    <2> SUFFICES ASSUME Inv, Next
                 PROVE  NotShortened
      OBVIOUS
    <2> USE DEF Inv
    <2>1. ASSUME NEW h \in Handlers, Transaction(h)
          PROVE  NotShortened
      BY <2>1, PersonLeftAlone, ResolvingDoesNotReduce, LiftingEndsAPenalty
         DEF Transaction, Update, AlreadyDecided, ReadPerson, CountStrikes,
             CannotReduce, RunAgain, CommitUnpunished, personVars
    <2>2. ASSUME NEW h \in Handlers, Progress(h)
          PROVE  NotShortened
      BY <2>2, PersonLeftAlone, LiftingEndsAPenalty
         DEF Progress, LoadHidden, CheckAutoBan, Afterwards, Undo,
             DeleteHidden, FileAppeal, FindLast, Overturn, DeleteOld, personVars
    <2>3. ASSUME NEW h \in Handlers, NEW r \in Reports, Request(h, r)
          PROVE  NotShortened
      BY <2>3, PersonLeftAlone
         DEF Request, Resolve, CreateHidden, AutoBan, Appeal, personVars
    <2>4. ASSUME \/ \E r \in Reports: Create(r)
                 \/ \E h \in Handlers: Fail(h)
                 \/ \E h \in Handlers, o \in {"unban", "unmute", "clear"}: Clear(h, o)
                 \/ \E h \in Handlers, old \in SUBSET Reports: Sweep(h, old)
                 \/ DayPasses \/ LockExpires \/ Crash
          PROVE  NotShortened
      BY <2>4, PersonLeftAlone
         DEF Create, Fail, Clear, Sweep, DayPasses, LockExpires, Crash, personVars
    <2> QED
      BY <2>1, <2>2, <2>3, <2>4 DEF Next
  <1> QED
    BY <1>1, InvHolds, PTL DEF Spec, PenaltiesAreNotReduced

LEMMA ResolvingKnowsTheStrikes ==
  ASSUME Inv, NEW h \in Handlers, CommitResolved(h),
         Rules[ReasonOf[run[h].report]] # <<>>
  PROVE  run[h].count >= Cardinality(Strikes(run[h].report))
  <1>1. At(h, "commit") /\ run[h].decision = "resolved" /\ ~Conflicts(h)
    BY DEF CommitResolved
  <1>2. run[h].missed \intersect ({run[h].report} \union run[h].set) = {}
    BY <1>1 DEF Conflicts, WriteSet
  <1> QED
    BY <1>1, <1>2 DEF Inv, StrikesAreCounted

\* Whoever else writes, a transaction that is about to commit still is.
LEMMA OthersGoOn ==
  ASSUME TypeOK, NEW g \in Handlers, NEW h \in Handlers, g # h,
         At(h, "commit"), NEW docs, NEW e, Writes(g, docs, e)
  PROVE  At(h, "commit")'
  <1>1. run[h] \in Execution /\ run[h].at = "commit" /\ run[h].at \in InTransaction
    BY Busy DEF At, IsIdle, InTransaction
  <1>2. run'[h] = [run[h] EXCEPT !.missed = @ \union (docs \intersect Documents(h))]
    BY <1>1 DEF Writes
  <1> QED
    BY <1>1, <1>2 DEF Execution, At

\* An execution that leaves the commit of a resolution, while a status changes,
\* is the one that commits.
LEMMA OnlyACommitCounts ==
  ASSUME TypeOK, Next, NEW h \in Handlers,
         At(h, "commit"), ~At(h, "commit")', run[h].decision = "resolved",
         status' # status
  PROVE  CommitResolved(h)
  <1>1. ASSUME NEW g \in Handlers, Transaction(g)
        PROVE  CommitResolved(h)
    <2>1. CommitResolved(g) \/ CommitUnpunished(g) \/ CommitAppealSuccess(g)
      BY <1>1 DEF Transaction, Update, AlreadyDecided, ReadPerson, CountStrikes,
                  CannotReduce, RunAgain
    <2>2. Writes(g, WriteSet(g), Committed(g))
      BY <2>1 DEF CommitResolved, CommitUnpunished, CommitAppealSuccess
    <2>3. g = h
      BY <2>2, OthersGoOn
    <2>4. ~CommitUnpunished(h) /\ ~CommitAppealSuccess(h)
      BY DEF CommitUnpunished, CommitAppealSuccess
    <2> QED
      BY <2>1, <2>3, <2>4
  <1>2. ASSUME NEW g \in Handlers, Progress(g)
        PROVE  FALSE
    <2>1. DeleteHidden(g) \/ FileAppeal(g) \/ Overturn(g) \/ DeleteOld(g)
      BY <1>2 DEF Progress, LoadHidden, CheckAutoBan, Afterwards, Undo, Lift,
                  FindLast
    <2>2. g # h
      BY <2>1 DEF DeleteHidden, FileAppeal, Overturn, DeleteOld, At
    <2>3. \E docs, e: Writes(g, docs, e)
      BY <2>1 DEF DeleteHidden, FileAppeal, Overturn, DeleteOld
    <2> QED
      BY <2>2, <2>3, OthersGoOn
  <1>3. ASSUME NEW g \in Handlers, NEW r \in Reports, Request(g, r)
        PROVE  FALSE
    <2>1. PICK p: CreateHidden(g, r, p)
      BY <1>3 DEF Request, Resolve, AutoBan, Appeal
    <2>2. g # h
      BY <2>1 DEF CreateHidden, IsIdle, At
    <2>3. run'[h] = run[h]
      BY <2>1, <2>2 DEF CreateHidden, TypeOK
    <2> QED
      BY <2>3 DEF At
  <1>4. ASSUME NEW r \in Reports, Create(r)
        PROVE  FALSE
    BY <1>4 DEF Create, At
  <1>5. ASSUME \/ \E g \in Handlers: Fail(g)
               \/ \E g \in Handlers, o \in {"unban", "unmute", "clear"}: Clear(g, o)
               \/ \E g \in Handlers, old \in SUBSET Reports: Sweep(g, old)
               \/ DayPasses \/ LockExpires \/ Crash
        PROVE  FALSE
    BY <1>5 DEF Fail, Clear, Sweep, DayPasses, LockExpires, Crash
  <1> QED
    BY <1>1, <1>2, <1>3, <1>4, <1>5 DEF Next

\* No two reports are resolved as the same strike where penalties grow with the
\* strikes.
THEOREM NoneMissed == Spec => StrikesAddUp
  <1>1. Inv /\ [Next]_vars => [NoStrikeIsMissed]_vars
    <2> SUFFICES ASSUME Inv, Next, NEW h \in Handlers,
                        At(h, "commit"), run'[h].at # "commit",
                        run[h].decision = "resolved",
                        status'[run[h].report] # status[run[h].report],
                        Rules[ReasonOf[run[h].report]] # <<>>
                 PROVE  run[h].count >= Cardinality(Strikes(run[h].report))
      BY DEF NoStrikeIsMissed
    <2>1. status' # status /\ ~At(h, "commit")'
      BY DEF At
    <2>2. CommitResolved(h)
      BY <2>1, OnlyACommitCounts DEF Inv
    <2> QED
      BY <2>2, ResolvingKnowsTheStrikes
  <1> QED
    BY <1>1, InvHolds, PTL DEF Spec, StrikesAddUp

(***************************************************************************)
(* The picture of a user or a group, and the one a report keeps.           *)
(*                                                                         *)
(* A file has one request that knows of it until it is written as the      *)
(* picture in use; from then on what deletes it has to take it out of use  *)
(* first.  A report that did not come late is seen by who would replace    *)
(* its picture, and by the nightly job, because that asks for the other    *)
(* reports after it has chosen its own.                                    *)
(***************************************************************************)
\* Zero stands for no file.
LEMMA FilesAreNumbered ==
  /\ 0 \in MaybeFile /\ 0 \notin Files
  /\ Files \subseteq MaybeFile
  /\ \A f \in MaybeFile: f = 0 \/ f \in Files
  BY BoundsAssumption DEF Files, MaybeFile

\* A file that is uploaded within the bound has a number of its own.
LEMMA NextIsAFile ==
  ASSUME next \in 1..(MaxFiles + 1), next <= MaxFiles
  PROVE  next \in Files /\ next + 1 \in 1..(MaxFiles + 1)
  BY BoundsAssumption DEF Files

\* A request that is over has the type of one.
LEMMA NoneIsARequest == NoRequest \in State
  BY FilesAreNumbered DEF NoRequest, State

\* So has one that has only files to delete ...
LEMMA GoingOn ==
  ASSUME AvatarsTypeOK, NEW h \in Requests, 
         NEW stop \in {"rollback", "deleteOld", "deleteSwept"},
         NEW pictures \in SUBSET Files, GoesOnWith(h, stop, pictures)
  PROVE  request' \in [Requests -> State]
  <1>1. [NoRequest EXCEPT !.at = stop, !.pictures = pictures] \in State
    BY FilesAreNumbered DEF NoRequest, State
  <1> QED
    BY <1>1 DEF GoesOnWith, AvatarsTypeOK

\* ... and one that failed.
LEMMA RollingBack ==
  ASSUME AvatarsTypeOK, NEW h \in Requests, RollsBack(h)
  PROVE  request' \in [Requests -> State]
  <1>1. CASE request[h].file = 0
    BY <1>1, NoneIsARequest DEF RollsBack, IsDone, AvatarsTypeOK
  <1>2. CASE request[h].file # 0
    <2>1. {request[h].file} \in SUBSET Files
      BY <1>2, FilesAreNumbered DEF AvatarsTypeOK, State
    <2> QED
      BY <1>2, <2>1, GoingOn DEF RollsBack
  <1> QED
    BY <1>1, <1>2

\* Deleting files keeps the types, whether it works or is left to a job.
LEMMA Deleting ==
  ASSUME AvatarsTypeOK, NEW h \in Requests, DeletesFiles(h)
  PROVE  /\ request' \in [Requests -> State]
         /\ stored' \subseteq Files /\ jobs' \subseteq Files
  BY NoneIsARequest DEF DeletesFiles, IsDone, AvatarsTypeOK, State

\* So does writing the document of the user or group.
LEMMA Replacing ==
  ASSUME AvatarsTypeOK, KeptIsAPicture, NEW h \in Requests, Replaces(request[h])
  PROVE  avatar' \in MaybeFile /\ media' \subseteq Files /\ lost' \subseteq Files
  <1>1. request[h].file \in MaybeFile /\ request[h].old \in MaybeFile
    BY DEF AvatarsTypeOK, State
  <1>2. avatar' \in MaybeFile
    BY <1>1 DEF Replaces
  <1>3. media' \subseteq Files
    BY <1>1, FilesAreNumbered DEF Replaces, AvatarsTypeOK
  <1>4. lost' \subseteq Files
    <2>1. request[h].keep => request[h].old # 0
      BY DEF KeptIsAPicture
    <2>2. Misses(request[h]) \subseteq Files
      BY <1>1, <2>1, FilesAreNumbered DEF Misses, AvatarsTypeOK
    <2> QED
      BY <2>2 DEF Replaces, AvatarsTypeOK
  <1> QED
    BY <1>2, <1>3, <1>4

\* Every step keeps the types.
LEMMA AvatarsTypeStays ==
  ASSUME AvatarsTypeOK, KeptIsAPicture, AvatarsNext
  PROVE  AvatarsTypeOK'
  <1> DEFINE Goal == AvatarsTypeOK'
  <1> SUFFICES Goal
    OBVIOUS
  <1>own. owner' = owner
    BY DEF AvatarsNext
  <1> USE <1>own, NoneIsARequest DEF AvatarsTypeOK, IsAt, IsDone, fileVars, reportVars,
      faultVars
  <1>1. ASSUME NEW h \in Requests, UploadAvatar(h) PROVE Goal
    <2>1. [NoRequest EXCEPT !.at = "upload", !.old = avatar] \in State
      BY <1>1, FilesAreNumbered DEF NoRequest, State
    <2> QED
      BY <1>1, <2>1 DEF UploadAvatar, Begins
  <1>2. ASSUME NEW h \in Requests, UploadFileToCloudinary(h) PROVE Goal
    <2>1. next \in Files /\ next + 1 \in 1..(MaxFiles + 1)
      BY <1>2, NextIsAFile DEF UploadFileToCloudinary
    <2>2. [request[h] EXCEPT !.at = "find", !.file = next] \in State
      BY <2>1, FilesAreNumbered DEF State
    <2>3. request' = [request EXCEPT ![h] =
                         [request[h] EXCEPT !.at = "find", !.file = next]]
      BY <1>2 DEF UploadFileToCloudinary
    <2>4. request' \in [Requests -> State]
      BY <2>2, <2>3
    <2> QED
      BY <1>2, <2>1, <2>4 DEF UploadFileToCloudinary
  <1>3. ASSUME NEW h \in Requests, UploadFails(h) PROVE Goal
    BY <1>3 DEF UploadFails, IsAt, IsDone, NoRequest
  <1>4. ASSUME NEW h \in Requests, DeleteAvatar(h) PROVE Goal
    <2>1. [NoRequest EXCEPT !.at = "find", !.old = avatar] \in State
      BY <1>4, FilesAreNumbered DEF NoRequest, State
    <2> QED
      BY <1>4, <2>1 DEF DeleteAvatar, Begins
  <1>5. ASSUME NEW h \in Requests, FindOld(h) PROVE Goal
    <2> DEFINE old == IF request[h].old \in media THEN request[h].old ELSE 0
    <2>2. [request[h] EXCEPT !.at = "begin", !.old = old] \in State
      BY FilesAreNumbered DEF State
    <2>3. request' = [request EXCEPT ![h] = [request[h] EXCEPT !.at = "begin", !.old = old]]
      BY <1>5 DEF FindOld
    <2>4. request' \in [Requests -> State]
      BY <2>2, <2>3
    <2> QED
      BY <1>5, <2>4 DEF FindOld
  <1>6. ASSUME NEW h \in Requests, IsMediaInReport(h) PROVE Goal
    <2> DEFINE keep == request[h].old # 0 /\ Reported(request[h].old)
    <2>1. keep \in BOOLEAN
      OBVIOUS
    <2>2. [request[h] EXCEPT !.at = "commit", !.keep = keep] \in State
      <3> HIDE DEF keep
      <3> QED
        BY <2>1 DEF State
    <2>3. request' = [request EXCEPT ![h] =
                         [request[h] EXCEPT !.at = "commit", !.keep = keep]]
      BY <1>6, Zenon DEF IsMediaInReport
    <2>4. request' \in [Requests -> State]
      <3> HIDE DEF keep
      <3> QED
        BY <2>2, <2>3
    <2> QED
      BY <1>6, <2>4 DEF IsMediaInReport
  <1>7. ASSUME NEW h \in Requests, CommitAvatar(h) PROVE Goal
    <2>1. avatar' \in MaybeFile /\ media' \subseteq Files /\ lost' \subseteq Files
      BY <1>7, Replacing DEF CommitAvatar
    <2>2. request' \in [Requests -> State]
      <3>1. CASE request[h].old # 0 /\ ~request[h].keep
        <4>1. {request[h].old} \in SUBSET Files
          BY <3>1, FilesAreNumbered DEF State
        <4> QED
          BY <1>7, <3>1, <4>1, GoingOn DEF CommitAvatar
      <3>2. CASE ~(request[h].old # 0 /\ ~request[h].keep)
        BY <1>7, <3>2 DEF CommitAvatar
      <3> QED
        BY <3>1, <3>2
    <2> QED
      BY <1>7, <2>1, <2>2 DEF CommitAvatar
  <1>8. ASSUME NEW h \in Requests, AbortAvatar(h) PROVE Goal
    BY <1>8, RollingBack DEF AbortAvatar
  <1>9. ASSUME NEW h \in Requests, DeleteOldFile(h) PROVE Goal
    BY <1>9, Deleting DEF DeleteOldFile
  <1>10. ASSUME NEW h \in Requests, Rollback(h) PROVE Goal
    BY <1>10, Deleting DEF Rollback
  <1>11. ASSUME NEW h \in Requests, Fails(h) PROVE Goal
    <2>1. request' \in [Requests -> State]
      BY <1>11, RollingBack DEF Fails
    <2>2. aborts' \in 0..MaxAborts
      BY <1>11, BoundsAssumption DEF Fails
    <2> QED
      BY <1>11, <2>1, <2>2 DEF Fails
  <1>12. ASSUME NEW h \in Requests, CommitUnanswered(h) PROVE Goal
    <2>1. avatar' \in MaybeFile /\ media' \subseteq Files /\ lost' \subseteq Files
      BY <1>12, Replacing DEF CommitUnanswered
    <2>2. request' \in [Requests -> State]
      BY <1>12, RollingBack DEF CommitUnanswered
    <2>3. aborts' \in 0..MaxAborts
      BY <1>12, BoundsAssumption DEF CommitUnanswered
    <2>4. doubtful' \subseteq Files
      BY <1>12, FilesAreNumbered DEF CommitUnanswered, State
    <2> QED
      BY <1>12, <2>1, <2>2, <2>3, <2>4 DEF CommitUnanswered
  <1>13. ASSUME NEW h \in Requests, NEW r \in ReportIds, CreateReport(h, r) PROVE Goal
    <2>1. [NoRequest EXCEPT !.at = "report", !.reports = {r}, !.old = avatar] \in State
      BY <1>13, FilesAreNumbered DEF NoRequest, State
    <2> QED
      BY <1>13, <2>1 DEF CreateReport, Begins
  <1>14. ASSUME NEW h \in Requests, SaveReport(h) PROVE Goal
    <2>1. PICK r \in request[h].reports:
            /\ state' = [state EXCEPT ![r] = "open"]
            /\ snapshot' = [snapshot EXCEPT ![r] = request[h].old]
            /\ late' \in {late, late \union {r}}
      BY <1>14 DEF SaveReport
    <2>2. r \in ReportIds /\ request[h].old \in MaybeFile
      BY <2>1 DEF State
    <2>3. state' \in [ReportIds -> {"none", "open", "decided"}]
      BY <2>1, <2>2
    <2>4. snapshot' \in [ReportIds -> MaybeFile]
      BY <2>1, <2>2
    <2>5. late' \subseteq ReportIds
      BY <2>1, <2>2
    <2>6. request' \in [Requests -> State]
      BY <1>14 DEF SaveReport
    <2> QED
      BY <1>14, <2>3, <2>4, <2>5, <2>6 DEF SaveReport
  <1>15. ASSUME NEW h \in Requests, NEW found \in SUBSET ReportIds,
                SweepReports(h, found)
        PROVE  Goal
    <2> DEFINE pictures == {snapshot[r]: r \in found} \intersect media
    <2>1. pictures \in SUBSET Files
      OBVIOUS
    <2>2. [NoRequest EXCEPT !.at = "used", !.reports = found, !.pictures = pictures]
            \in State
      <3> HIDE DEF pictures
      <3> QED
        BY <2>1, FilesAreNumbered DEF NoRequest, State
    <2> QED
      BY <1>15, <2>2 DEF SweepReports, Begins
  <1>16. ASSUME NEW h \in Requests, IsStillUsing(h) PROVE Goal
    <2> DEFINE rest == request[h].pictures \ {avatar}
    <2>2. [request[h] EXCEPT !.at = "others", !.seen = avatar, !.pictures = rest] \in State
      BY FilesAreNumbered DEF State
    <2>3. request' = [request EXCEPT ![h] =
                [request[h] EXCEPT !.at = "others", !.seen = avatar, !.pictures = rest]]
      BY <1>16 DEF IsStillUsing
    <2>4. request' \in [Requests -> State]
      BY <2>2, <2>3
    <2> QED
      BY <1>16, <2>4 DEF IsStillUsing
  <1>17. ASSUME NEW h \in Requests, IsUsedByActiveReport(h) PROVE Goal
    <2> DEFINE others == {r \in ReportIds \ request[h].reports: state[r] # "none"}
               rest == request[h].pictures \ {snapshot[r]: r \in others}
    <2>1. rest \in SUBSET Files
      BY DEF State
    <2>2. [request[h] EXCEPT !.at = "sweep", !.pictures = rest] \in State
      <3> HIDE DEF rest
      <3> QED
        BY <2>1 DEF State
    <2>3. request' = [request EXCEPT ![h] =
                         [request[h] EXCEPT !.at = "sweep", !.pictures = rest]]
      BY <1>17, Zenon DEF IsUsedByActiveReport
    <2>4. request' \in [Requests -> State]
      <3> HIDE DEF rest
      <3> QED
        BY <2>2, <2>3
    <2> QED
      BY <1>17, <2>4 DEF IsUsedByActiveReport
  <1>18. ASSUME NEW h \in Requests, DeleteSwept(h) PROVE Goal
    BY <1>18, Deleting DEF DeleteSwept
  <1>19. ASSUME NEW h \in Requests, NEW deleted \in SUBSET ReportIds,
                CommitSweep(h, deleted)
        PROVE  Goal
    <2>1. request' \in [Requests -> State]
      <3>1. [NoRequest EXCEPT !.at = "deleteSwept", !.pictures = request[h].pictures]
              \in State
        BY FilesAreNumbered DEF NoRequest, State
      <3>2. ASSUME NEW g \in Requests
            PROVE  [request[g] EXCEPT !.at = "begin", !.keep = FALSE] \in State
        BY DEF State
      <3> QED
        BY <1>19, <3>1, <3>2 DEF CommitSweep
    <2>2. state' \in [ReportIds -> {"none", "open", "decided"}]
      BY <1>19 DEF CommitSweep
    <2>3. snapshot' \in [ReportIds -> MaybeFile]
      BY <1>19, FilesAreNumbered DEF CommitSweep
    <2>4. late' \subseteq ReportIds /\ media' \subseteq Files
      BY <1>19 DEF CommitSweep
    <2>5. lost' \subseteq Files
      <3>1. request[h].seen \in MaybeFile
        BY DEF State
      <3> QED
        BY <1>19, <3>1, FilesAreNumbered DEF CommitSweep
    <2> QED
      BY <1>19, <2>1, <2>2, <2>3, <2>4, <2>5 DEF CommitSweep
  <1>20. ASSUME NEW r \in ReportIds, NEW reset \in BOOLEAN, Decide(r, reset) PROVE Goal
    <2>1. avatar' \in MaybeFile /\ lost' \subseteq Files
      BY <1>20, FilesAreNumbered DEF Decide
    <2>2. state' \in [ReportIds -> {"none", "open", "decided"}]
      BY <1>20 DEF Decide
    <2> QED
      BY <1>20, <2>1, <2>2 DEF Decide
  <1>21. ASSUME NEW c \in Files, CleanUp(c) PROVE Goal
    BY <1>21 DEF CleanUp
  <1> HIDE DEF Goal, AvatarsTypeOK, IsAt, IsDone, fileVars, reportVars, faultVars
  <1> QED
    BY <1>1, <1>2, <1>3, <1>4, <1>5, <1>6, <1>7, <1>8, <1>9, <1>10, <1>11, <1>12,
       <1>13, <1>14, <1>15, <1>16, <1>17, <1>18, <1>19, <1>20, <1>21 DEF AvatarsNext,
       Avatar, Report

\* What a request is like when it is over, but for files it still deletes.
Over(h, stop, pictures) ==
    /\ request'[h].at = stop /\ request'[h].pictures = pictures
    /\ request'[h].file = 0 /\ request'[h].old = 0 /\ request'[h].keep = FALSE
    /\ request'[h].reports = {} /\ request'[h].seen = 0

Ended(h, stop, pictures) ==
    /\ Over(h, stop, pictures)
    /\ \A g \in Requests: g # h => request'[g] = request[g]

\* A request that returns is over ...
LEMMA DoneIsEnded ==
  ASSUME AvatarsTypeOK, NEW h \in Requests, IsDone(h)
  PROVE  Ended(h, "idle", {})
  BY DEF IsDone, NoRequest, AvatarsTypeOK, Ended, Over

\* ... and so is one that goes on to delete files.
LEMMA GoneOnIsEnded ==
  ASSUME AvatarsTypeOK, NEW h \in Requests, NEW stop, NEW pictures,
         GoesOnWith(h, stop, pictures)
  PROVE  Ended(h, stop, pictures)
  <1> DEFINE r == [NoRequest EXCEPT !.at = stop, !.pictures = pictures]
  <1>1. /\ r.at = stop /\ r.pictures = pictures
        /\ r.file = 0 /\ r.old = 0 /\ r.keep = FALSE /\ r.reports = {} /\ r.seen = 0
    BY DEF NoRequest
  <1>2. request' = [request EXCEPT ![h] = r]
    BY Zenon DEF GoesOnWith
  <1> HIDE DEF r
  <1>3. request'[h] = r /\ \A g \in Requests: g # h => request'[g] = request[g]
    BY <1>2 DEF AvatarsTypeOK
  <1> QED
    BY <1>1, <1>3 DEF Ended, Over

TakesBack(h) ==
    \/ request[h].file = 0 /\ Ended(h, "idle", {})
    \/ request[h].file # 0 /\ Ended(h, "rollback", {request[h].file})

GivesUpOld(h) ==
    LET old == request[h].old IN
    \/ (old = 0 \/ request[h].keep) /\ Ended(h, "idle", {})
    \/ old # 0 /\ ~request[h].keep /\ Ended(h, "deleteOld", {old})

\* A request that fails has nothing to delete but the file it uploaded.
LEMMA RolledBack ==
  ASSUME AvatarsTypeOK, NEW h \in Requests, RollsBack(h)
  PROVE  TakesBack(h)
  <1>1. CASE request[h].file = 0
    BY <1>1, DoneIsEnded DEF RollsBack, TakesBack
  <1>2. CASE request[h].file # 0
    BY <1>2, GoneOnIsEnded DEF RollsBack, TakesBack
  <1> QED
    BY <1>1, <1>2

\* One that is through deletes what it has replaced.
LEMMA CommittedAvatar ==
  ASSUME AvatarsTypeOK, NEW h \in Requests, CommitAvatar(h)
  PROVE  GivesUpOld(h)
  <1>1. CASE request[h].old # 0 /\ ~request[h].keep
    BY <1>1, GoneOnIsEnded DEF CommitAvatar, GivesUpOld
  <1>2. CASE ~(request[h].old # 0 /\ ~request[h].keep)
    BY <1>2, DoneIsEnded DEF CommitAvatar, GivesUpOld
  <1> QED
    BY <1>1, <1>2

\* The picture of one report is written, and nothing else about reports.
Saves(h, r) ==
    /\ r \in ReportIds
    /\ state'[r] = "open" /\ snapshot'[r] = request[h].old
    /\ late \subseteq late'
    /\ BeingReplaced(request[h].old) => r \in late'
    /\ \A q \in ReportIds: q # r => state'[q] = state[q] /\ snapshot'[q] = snapshot[q]

LEMMA Saved ==
  ASSUME AvatarsTypeOK, NEW h \in Requests, SaveReport(h)
  PROVE  /\ Ended(h, "idle", {})
         /\ \E r \in request[h].reports: Saves(h, r)
  <1>1. Ended(h, "idle", {})
    BY DoneIsEnded DEF SaveReport
  <1>2. PICK r \in request[h].reports:
          /\ state' = [state EXCEPT ![r] = "open"]
          /\ snapshot' = [snapshot EXCEPT ![r] = request[h].old]
          /\ late' = IF BeingReplaced(request[h].old) THEN late \union {r} ELSE late
    BY DEF SaveReport
  <1>3. r \in ReportIds
    BY <1>2 DEF AvatarsTypeOK, State
  <1>4. /\ state'[r] = "open" /\ snapshot'[r] = request[h].old
        /\ \A q \in ReportIds: q # r => state'[q] = state[q] /\ snapshot'[q] = snapshot[q]
    BY <1>2, <1>3 DEF AvatarsTypeOK
  <1>5. late \subseteq late' /\ (BeingReplaced(request[h].old) => r \in late')
    BY <1>2
  <1> QED
    BY <1>1, <1>2, <1>3, <1>4, <1>5 DEF Saves

\* What the transaction of the nightly job does to the other requests, and to a
\* report.
Restarted(g) ==
    /\ request'[g].file = request[g].file /\ request'[g].old = request[g].old
    /\ request'[g].reports = request[g].reports /\ request'[g].seen = request[g].seen
    /\ request'[g].pictures = request[g].pictures
    /\ \/ request'[g].at = request[g].at /\ request'[g].keep = request[g].keep
       \/ request[g].at = "commit" /\ request'[g].at = "begin" /\ request'[g].keep = FALSE

Strips(h, deleted) ==
    LET pictures == request[h].pictures
        stripped == {r \in request[h].reports: snapshot[r] \in pictures} IN
    /\ \/ pictures = {} /\ Over(h, "idle", {})
       \/ pictures # {} /\ Over(h, "deleteSwept", pictures)
    /\ \A g \in Requests: g # h => Restarted(g)
    /\ \A r \in deleted: state'[r] = "none" /\ snapshot'[r] = 0
    /\ \A r \in ReportIds \ deleted:
        /\ state'[r] = state[r]
        /\ \/ r \in stripped /\ snapshot'[r] = 0
           \/ r \notin stripped /\ snapshot'[r] = snapshot[r]

LEMMA Swept ==
  ASSUME AvatarsTypeOK, NEW h \in Requests, NEW deleted \in SUBSET ReportIds,
         CommitSweep(h, deleted)
  PROVE  Strips(h, deleted)
  <1> DEFINE pictures == request[h].pictures
             after == [NoRequest EXCEPT !.at = "deleteSwept", !.pictures = pictures]
  <1>1. \A g \in Requests:
          request'[g] = IF g = h THEN IF pictures = {} THEN NoRequest ELSE after
                        ELSE IF IsAt(g, "commit") /\ request[g].old \in pictures
                        THEN [request[g] EXCEPT !.at = "begin", !.keep = FALSE]
                        ELSE request[g]
    BY DEF CommitSweep
  <1>2. \/ pictures = {} /\ Over(h, "idle", {})
        \/ pictures # {} /\ Over(h, "deleteSwept", pictures)
    <2>1. /\ after.at = "deleteSwept" /\ after.pictures = pictures
          /\ after.file = 0 /\ after.old = 0 /\ after.keep = FALSE
          /\ after.reports = {} /\ after.seen = 0
      BY DEF NoRequest
    <2>2. /\ NoRequest.at = "idle" /\ NoRequest.pictures = {}
          /\ NoRequest.file = 0 /\ NoRequest.old = 0 /\ NoRequest.keep = FALSE
          /\ NoRequest.reports = {} /\ NoRequest.seen = 0
      BY DEF NoRequest
    <2> HIDE DEF pictures, after
    <2>3. request'[h] = IF pictures = {} THEN NoRequest ELSE after
      BY <1>1
    <2> QED
      BY <2>1, <2>2, <2>3 DEF Over
  <1>3. ASSUME NEW g \in Requests, g # h PROVE Restarted(g)
    <2>1. request[g] \in State
      BY DEF AvatarsTypeOK
    <2> HIDE DEF pictures, after
    <2> QED
      BY <1>1, <1>3, <2>1 DEF Restarted, State, IsAt
  <1>4. \A r \in ReportIds:
          /\ state'[r] = IF r \in deleted THEN "none" ELSE state[r]
          /\ snapshot'[r] =
               IF r \in deleted \/ (r \in request[h].reports /\ snapshot[r] \in pictures)
               THEN 0 ELSE snapshot[r]
    BY DEF CommitSweep
  <1> HIDE DEF pictures
  <1>5. /\ \A r \in deleted: state'[r] = "none" /\ snapshot'[r] = 0
        /\ \A r \in ReportIds \ deleted:
             /\ state'[r] = state[r]
             /\ \/ snapshot'[r] = snapshot[r]
                   /\ ~(r \in request[h].reports /\ snapshot[r] \in pictures)
                \/ snapshot'[r] = 0
                   /\ r \in request[h].reports /\ snapshot[r] \in pictures
    BY <1>4
  <1> QED
    BY <1>2, <1>3, <1>5 DEF pictures, Strips

\* Whether to keep the picture is decided anew for each try of a transaction.
LEMMA KeptStaysAPicture ==
  ASSUME AvatarsTypeOK, KeptIsAPicture, AvatarsNext
  PROVE  KeptIsAPicture'
  <1> DEFINE Goal == KeptIsAPicture'
  <1> SUFFICES Goal
    OBVIOUS
  <1> USE DEF AvatarsTypeOK, State, fileVars, reportVars, faultVars, KeptIsAPicture,
     IsAt
  <1>1. ASSUME NEW h \in Requests, UploadAvatar(h) PROVE Goal
    BY <1>1 DEF UploadAvatar, Begins, IsAt, NoRequest
  <1>2. ASSUME NEW h \in Requests, UploadFileToCloudinary(h) PROVE Goal
    BY <1>2 DEF UploadFileToCloudinary, IsAt
  <1>3. ASSUME NEW h \in Requests, UploadFails(h) PROVE Goal
    BY <1>3 DEF UploadFails, IsAt, IsDone, NoRequest
  <1>4. ASSUME NEW h \in Requests, DeleteAvatar(h) PROVE Goal
    BY <1>4 DEF DeleteAvatar, Begins, IsAt, NoRequest
  <1>5. ASSUME NEW h \in Requests, FindOld(h) PROVE Goal
    BY <1>5 DEF FindOld, IsAt
  <1>6. ASSUME NEW h \in Requests, IsMediaInReport(h) PROVE Goal
    BY <1>6 DEF IsMediaInReport, IsAt
  <1>7. ASSUME NEW h \in Requests, CommitAvatar(h) PROVE Goal
    <2>1. GivesUpOld(h)
      BY <1>7, CommittedAvatar
    <2> QED
      BY <1>7, <2>1 DEF CommitAvatar, Ended, Over, Replaces, GivesUpOld
  <1>8. ASSUME NEW h \in Requests, AbortAvatar(h) PROVE Goal
    <2>1. TakesBack(h)
      BY <1>8, RolledBack DEF AbortAvatar
    <2> QED
      BY <1>8, <2>1 DEF AbortAvatar, Ended, Over, TakesBack
  <1>9. ASSUME NEW h \in Requests, DeleteOldFile(h) PROVE Goal
    BY <1>9 DEF DeleteOldFile, IsAt, DeletesFiles, IsDone, NoRequest
  <1>10. ASSUME NEW h \in Requests, Rollback(h) PROVE Goal
    BY <1>10 DEF Rollback, IsAt, DeletesFiles, IsDone, NoRequest
  <1>11. ASSUME NEW h \in Requests, Fails(h) PROVE Goal
    <2>1. TakesBack(h)
      BY <1>11, RolledBack DEF Fails
    <2> QED
      BY <1>11, <2>1 DEF Fails, Ended, Over, TakesBack
  <1>12. ASSUME NEW h \in Requests, CommitUnanswered(h) PROVE Goal
    <2>1. TakesBack(h)
      BY <1>12, RolledBack DEF CommitUnanswered
    <2> QED
      BY <1>12, <2>1 DEF CommitUnanswered, Ended, Over, Replaces, TakesBack
  <1>13. ASSUME NEW h \in Requests, NEW r \in ReportIds, CreateReport(h, r) PROVE Goal
    BY <1>13 DEF CreateReport, Begins, IsAt, NoRequest
  <1>14. ASSUME NEW h \in Requests, SaveReport(h) PROVE Goal
    <2>1. Ended(h, "idle", {})
      BY <1>14, Saved
    <2>2. PICK r \in request[h].reports: Saves(h, r)
      BY <1>14, Saved
    <2>3. /\ request[h].at = "report"
          /\ UNCHANGED <<avatar, media, stored, jobs, next, doubtful>>
      BY <1>14 DEF SaveReport, IsAt
    <2> QED
      BY <2>1, <2>2, <2>3 DEF BeingReplaced, Ended, Over, Saves
  <1>15. ASSUME NEW h \in Requests, NEW found \in SUBSET ReportIds,
                SweepReports(h, found)
        PROVE  Goal
    BY <1>15 DEF SweepReports, Begins, IsAt, NoRequest
  <1>16. ASSUME NEW h \in Requests, IsStillUsing(h) PROVE Goal
    BY <1>16 DEF IsStillUsing, IsAt
  <1>17. ASSUME NEW h \in Requests, IsUsedByActiveReport(h) PROVE Goal
    BY <1>17 DEF IsUsedByActiveReport, IsAt
  <1>18. ASSUME NEW h \in Requests, DeleteSwept(h) PROVE Goal
    BY <1>18 DEF DeleteSwept, IsAt, DeletesFiles, IsDone, NoRequest
  <1>19. ASSUME NEW h \in Requests, NEW deleted \in SUBSET ReportIds,
                CommitSweep(h, deleted)
        PROVE  Goal
    <2>1. Strips(h, deleted)
      BY <1>19, Swept
    <2>2. /\ avatar' = avatar /\ stored' = stored /\ jobs' = jobs /\ next' = next
          /\ media' = media \ request[h].pictures /\ late' = late \ deleted
          /\ doubtful' = doubtful /\ deleted \subseteq request[h].reports
          /\ request[h].at = "sweep"
      BY <1>19 DEF CommitSweep, IsAt
    <2> QED
      BY <2>1, <2>2 DEF Over, Restarted, Strips
  <1>20. ASSUME NEW r \in ReportIds, NEW reset \in BOOLEAN, Decide(r, reset) PROVE Goal
    BY <1>20 DEF Decide, Locked
  <1>21. ASSUME NEW c \in Files, CleanUp(c) PROVE Goal
    BY <1>21 DEF CleanUp
  <1> HIDE DEF Goal, AvatarsTypeOK, State, fileVars, reportVars, faultVars,
      KeptIsAPicture, IsAt
  <1> QED
    BY <1>1, <1>2, <1>3, <1>4, <1>5, <1>6, <1>7, <1>8, <1>9, <1>10, <1>11, <1>12,
       <1>13, <1>14, <1>15, <1>16, <1>17, <1>18, <1>19, <1>20, <1>21 DEF AvatarsNext,
       Avatar, Report

\* Nothing knows a file before it is uploaded.
LEMMA FilesStayNew ==
  ASSUME AvatarsTypeOK, FilesAreNew, AvatarsNext
  PROVE  FilesAreNew'
  <1> DEFINE Goal == FilesAreNew'
  <1> SUFFICES Goal
    OBVIOUS
  <1> USE DEF AvatarsTypeOK, State, fileVars, reportVars, faultVars, FilesAreNew
  <1>1. ASSUME NEW h \in Requests, UploadAvatar(h) PROVE Goal
    BY <1>1 DEF UploadAvatar, Begins, IsAt, NoRequest
  <1>2. ASSUME NEW h \in Requests, UploadFileToCloudinary(h) PROVE Goal
    BY <1>2 DEF UploadFileToCloudinary, IsAt
  <1>3. ASSUME NEW h \in Requests, UploadFails(h) PROVE Goal
    BY <1>3 DEF UploadFails, IsAt, IsDone, NoRequest
  <1>4. ASSUME NEW h \in Requests, DeleteAvatar(h) PROVE Goal
    BY <1>4 DEF DeleteAvatar, Begins, IsAt, NoRequest
  <1>5. ASSUME NEW h \in Requests, FindOld(h) PROVE Goal
    BY <1>5 DEF FindOld, IsAt
  <1>6. ASSUME NEW h \in Requests, IsMediaInReport(h) PROVE Goal
    BY <1>6 DEF IsMediaInReport, IsAt
  <1>7. ASSUME NEW h \in Requests, CommitAvatar(h) PROVE Goal
    <2>1. GivesUpOld(h)
      BY <1>7, CommittedAvatar
    <2> QED
      BY <1>7, <2>1 DEF CommitAvatar, Ended, Over, Replaces, GivesUpOld
  <1>8. ASSUME NEW h \in Requests, AbortAvatar(h) PROVE Goal
    <2>1. TakesBack(h)
      BY <1>8, RolledBack DEF AbortAvatar
    <2> QED
      BY <1>8, <2>1 DEF AbortAvatar, Ended, Over, TakesBack
  <1>9. ASSUME NEW h \in Requests, DeleteOldFile(h) PROVE Goal
    BY <1>9 DEF DeleteOldFile, IsAt, DeletesFiles, IsDone, NoRequest
  <1>10. ASSUME NEW h \in Requests, Rollback(h) PROVE Goal
    BY <1>10 DEF Rollback, IsAt, DeletesFiles, IsDone, NoRequest
  <1>11. ASSUME NEW h \in Requests, Fails(h) PROVE Goal
    <2>1. TakesBack(h)
      BY <1>11, RolledBack DEF Fails
    <2> QED
      BY <1>11, <2>1 DEF Fails, Ended, Over, TakesBack
  <1>12. ASSUME NEW h \in Requests, CommitUnanswered(h) PROVE Goal
    <2>1. TakesBack(h)
      BY <1>12, RolledBack DEF CommitUnanswered
    <2> QED
      BY <1>12, <2>1 DEF CommitUnanswered, Ended, Over, Replaces, TakesBack
  <1>13. ASSUME NEW h \in Requests, NEW r \in ReportIds, CreateReport(h, r) PROVE Goal
    BY <1>13 DEF CreateReport, Begins, IsAt, NoRequest
  <1>14. ASSUME NEW h \in Requests, SaveReport(h) PROVE Goal
    <2>1. Ended(h, "idle", {})
      BY <1>14, Saved
    <2>2. PICK r \in request[h].reports: Saves(h, r)
      BY <1>14, Saved
    <2>3. /\ request[h].at = "report"
          /\ UNCHANGED <<avatar, media, stored, jobs, next, doubtful>>
      BY <1>14 DEF SaveReport, IsAt
    <2> QED
      BY <2>1, <2>2, <2>3 DEF BeingReplaced, Ended, Over, Saves
  <1>15. ASSUME NEW h \in Requests, NEW found \in SUBSET ReportIds,
                SweepReports(h, found)
        PROVE  Goal
    BY <1>15 DEF SweepReports, Begins, IsAt, NoRequest
  <1>16. ASSUME NEW h \in Requests, IsStillUsing(h) PROVE Goal
    BY <1>16 DEF IsStillUsing, IsAt
  <1>17. ASSUME NEW h \in Requests, IsUsedByActiveReport(h) PROVE Goal
    BY <1>17 DEF IsUsedByActiveReport, IsAt
  <1>18. ASSUME NEW h \in Requests, DeleteSwept(h) PROVE Goal
    BY <1>18 DEF DeleteSwept, IsAt, DeletesFiles, IsDone, NoRequest
  <1>19. ASSUME NEW h \in Requests, NEW deleted \in SUBSET ReportIds,
                CommitSweep(h, deleted)
        PROVE  Goal
    <2>1. Strips(h, deleted)
      BY <1>19, Swept
    <2>2. /\ avatar' = avatar /\ stored' = stored /\ jobs' = jobs /\ next' = next
          /\ media' = media \ request[h].pictures /\ late' = late \ deleted
          /\ doubtful' = doubtful /\ deleted \subseteq request[h].reports
          /\ request[h].at = "sweep"
      BY <1>19 DEF CommitSweep, IsAt
    <2> QED
      BY <2>1, <2>2 DEF Over, Restarted, Strips
  <1>20. ASSUME NEW r \in ReportIds, NEW reset \in BOOLEAN, Decide(r, reset) PROVE Goal
    BY <1>20 DEF Decide, Locked
  <1>21. ASSUME NEW c \in Files, CleanUp(c) PROVE Goal
    BY <1>21 DEF CleanUp
  <1> HIDE DEF Goal, AvatarsTypeOK, State, fileVars, reportVars, faultVars, FilesAreNew
  <1> QED
    BY <1>1, <1>2, <1>3, <1>4, <1>5, <1>6, <1>7, <1>8, <1>9, <1>10, <1>11, <1>12,
       <1>13, <1>14, <1>15, <1>16, <1>17, <1>18, <1>19, <1>20, <1>21 DEF AvatarsNext,
       Avatar, Report

\* Only the request that uploaded a file knows of it.
LEMMA UploadsStayOwn ==
  ASSUME AvatarsTypeOK, FilesAreNew, UploadsAreOwn, AvatarsNext
  PROVE  UploadsAreOwn'
  <1> DEFINE Goal == UploadsAreOwn'
  <1> SUFFICES Goal
    OBVIOUS
  <1> USE DEF AvatarsTypeOK, State, fileVars, reportVars, faultVars, UploadsAreOwn,
     FilesAreNew
  <1>1. ASSUME NEW h \in Requests, UploadAvatar(h) PROVE Goal
    BY <1>1 DEF UploadAvatar, Begins, IsAt, NoRequest
  <1>2. ASSUME NEW h \in Requests, UploadFileToCloudinary(h) PROVE Goal
    BY <1>2 DEF UploadFileToCloudinary, IsAt
  <1>3. ASSUME NEW h \in Requests, UploadFails(h) PROVE Goal
    BY <1>3 DEF UploadFails, IsAt, IsDone, NoRequest
  <1>4. ASSUME NEW h \in Requests, DeleteAvatar(h) PROVE Goal
    BY <1>4 DEF DeleteAvatar, Begins, IsAt, NoRequest
  <1>5. ASSUME NEW h \in Requests, FindOld(h) PROVE Goal
    BY <1>5 DEF FindOld, IsAt
  <1>6. ASSUME NEW h \in Requests, IsMediaInReport(h) PROVE Goal
    BY <1>6 DEF IsMediaInReport, IsAt
  <1>7. ASSUME NEW h \in Requests, CommitAvatar(h) PROVE Goal
    <2>1. GivesUpOld(h)
      BY <1>7, CommittedAvatar
    <2> QED
      BY <1>7, <2>1 DEF CommitAvatar, Ended, Over, Replaces, GivesUpOld
  <1>8. ASSUME NEW h \in Requests, AbortAvatar(h) PROVE Goal
    <2>1. TakesBack(h)
      BY <1>8, RolledBack DEF AbortAvatar
    <2>2. UNCHANGED <<avatar, stored, jobs, snapshot>>
      BY <1>8 DEF AbortAvatar
    <2>3. CASE request[h].file = 0 /\ Ended(h, "idle", {})
      BY <2>2, <2>3 DEF Ended, Over
    <2>4. CASE request[h].file # 0 /\ Ended(h, "rollback", {request[h].file})
      BY <2>2, <2>4 DEF Ended, Over
    <2> QED
      BY <2>1, <2>3, <2>4 DEF TakesBack
  <1>9. ASSUME NEW h \in Requests, DeleteOldFile(h) PROVE Goal
    BY <1>9 DEF DeleteOldFile, IsAt, DeletesFiles, IsDone, NoRequest
  <1>10. ASSUME NEW h \in Requests, Rollback(h) PROVE Goal
    BY <1>10 DEF Rollback, IsAt, DeletesFiles, IsDone, NoRequest
  <1>11. ASSUME NEW h \in Requests, Fails(h) PROVE Goal
    <2>1. TakesBack(h)
      BY <1>11, RolledBack DEF Fails
    <2>2. UNCHANGED <<avatar, stored, jobs, snapshot>>
      BY <1>11 DEF Fails
    <2>3. CASE request[h].file = 0 /\ Ended(h, "idle", {})
      BY <2>2, <2>3 DEF Ended, Over
    <2>4. CASE request[h].file # 0 /\ Ended(h, "rollback", {request[h].file})
      BY <2>2, <2>4 DEF Ended, Over
    <2> QED
      BY <2>1, <2>3, <2>4 DEF TakesBack
  <1>12. ASSUME NEW h \in Requests, CommitUnanswered(h) PROVE Goal
    <2>1. TakesBack(h)
      BY <1>12, RolledBack DEF CommitUnanswered
    <2>2. avatar' = request[h].file /\ UNCHANGED <<stored, jobs, snapshot>>
      BY <1>12 DEF CommitUnanswered, Replaces
    <2>3. CASE request[h].file = 0 /\ Ended(h, "idle", {})
      BY <2>2, <2>3 DEF Ended, Over
    <2>4. CASE request[h].file # 0 /\ Ended(h, "rollback", {request[h].file})
      BY <2>2, <2>4 DEF Ended, Over
    <2> QED
      BY <2>1, <2>3, <2>4 DEF TakesBack
  <1>13. ASSUME NEW h \in Requests, NEW r \in ReportIds, CreateReport(h, r) PROVE Goal
    BY <1>13 DEF CreateReport, Begins, IsAt, NoRequest
  <1>14. ASSUME NEW h \in Requests, SaveReport(h) PROVE Goal
    <2>1. Ended(h, "idle", {})
      BY <1>14, Saved
    <2>2. PICK r \in request[h].reports: Saves(h, r)
      BY <1>14, Saved
    <2>3. /\ request[h].at = "report"
          /\ UNCHANGED <<avatar, media, stored, jobs, next, doubtful>>
      BY <1>14 DEF SaveReport, IsAt
    <2> QED
      BY <2>1, <2>2, <2>3 DEF BeingReplaced, Ended, Over, Saves
  <1>15. ASSUME NEW h \in Requests, NEW found \in SUBSET ReportIds,
                SweepReports(h, found)
        PROVE  Goal
    BY <1>15 DEF SweepReports, Begins, IsAt, NoRequest
  <1>16. ASSUME NEW h \in Requests, IsStillUsing(h) PROVE Goal
    BY <1>16 DEF IsStillUsing, IsAt
  <1>17. ASSUME NEW h \in Requests, IsUsedByActiveReport(h) PROVE Goal
    BY <1>17 DEF IsUsedByActiveReport, IsAt
  <1>18. ASSUME NEW h \in Requests, DeleteSwept(h) PROVE Goal
    BY <1>18 DEF DeleteSwept, IsAt, DeletesFiles, IsDone, NoRequest
  <1>19. ASSUME NEW h \in Requests, NEW deleted \in SUBSET ReportIds,
                CommitSweep(h, deleted)
        PROVE  Goal
    <2>1. Strips(h, deleted)
      BY <1>19, Swept
    <2>2. /\ avatar' = avatar /\ stored' = stored /\ jobs' = jobs /\ next' = next
          /\ media' = media \ request[h].pictures /\ late' = late \ deleted
          /\ doubtful' = doubtful /\ deleted \subseteq request[h].reports
          /\ request[h].at = "sweep"
      BY <1>19 DEF CommitSweep, IsAt
    <2> QED
      BY <2>1, <2>2 DEF Over, Restarted, Strips
  <1>20. ASSUME NEW r \in ReportIds, NEW reset \in BOOLEAN, Decide(r, reset) PROVE Goal
    BY <1>20 DEF Decide, Locked
  <1>21. ASSUME NEW c \in Files, CleanUp(c) PROVE Goal
    BY <1>21 DEF CleanUp
  <1> HIDE DEF Goal, AvatarsTypeOK, State, fileVars, reportVars, faultVars,
      UploadsAreOwn, FilesAreNew
  <1> QED
    BY <1>1, <1>2, <1>3, <1>4, <1>5, <1>6, <1>7, <1>8, <1>9, <1>10, <1>11, <1>12,
       <1>13, <1>14, <1>15, <1>16, <1>17, <1>18, <1>19, <1>20, <1>21 DEF AvatarsNext,
       Avatar, Report

\* What becomes the picture in use was in no other hands, so nobody deletes it.
LEMMA AvatarStaysSpared ==
  ASSUME AvatarsTypeOK, FilesAreNew, UploadsAreOwn, AvatarIsSpared, AvatarsNext
  PROVE  AvatarIsSpared'
  <1> DEFINE Goal == AvatarIsSpared'
  <1> SUFFICES Goal
    OBVIOUS
  <1> USE FilesAreNumbered DEF AvatarsTypeOK, State, fileVars, reportVars, faultVars,
     AvatarIsSpared, FilesAreNew, UploadsAreOwn, Deletes, IsAt
  <1>1. ASSUME NEW h \in Requests, UploadAvatar(h) PROVE Goal
    BY <1>1 DEF UploadAvatar, Begins, IsAt, NoRequest
  <1>2. ASSUME NEW h \in Requests, UploadFileToCloudinary(h) PROVE Goal
    BY <1>2 DEF UploadFileToCloudinary, IsAt
  <1>3. ASSUME NEW h \in Requests, UploadFails(h) PROVE Goal
    BY <1>3 DEF UploadFails, IsAt, IsDone, NoRequest
  <1>4. ASSUME NEW h \in Requests, DeleteAvatar(h) PROVE Goal
    BY <1>4 DEF DeleteAvatar, Begins, IsAt, NoRequest
  <1>5. ASSUME NEW h \in Requests, FindOld(h) PROVE Goal
    BY <1>5 DEF FindOld, IsAt
  <1>6. ASSUME NEW h \in Requests, IsMediaInReport(h) PROVE Goal
    BY <1>6 DEF IsMediaInReport, IsAt
  <1>7. ASSUME NEW h \in Requests, CommitAvatar(h) PROVE Goal
    <2>1. GivesUpOld(h)
      BY <1>7, CommittedAvatar
    <2> QED
      BY <1>7, <2>1 DEF CommitAvatar, Ended, Over, Replaces, GivesUpOld
  <1>8. ASSUME NEW h \in Requests, AbortAvatar(h) PROVE Goal
    <2>1. TakesBack(h)
      BY <1>8, RolledBack DEF AbortAvatar
    <2> QED
      BY <1>8, <2>1 DEF AbortAvatar, Ended, Over, TakesBack
  <1>9. ASSUME NEW h \in Requests, DeleteOldFile(h) PROVE Goal
    BY <1>9 DEF DeleteOldFile, IsAt, DeletesFiles, IsDone, NoRequest
  <1>10. ASSUME NEW h \in Requests, Rollback(h) PROVE Goal
    BY <1>10 DEF Rollback, IsAt, DeletesFiles, IsDone, NoRequest
  <1>11. ASSUME NEW h \in Requests, Fails(h) PROVE Goal
    <2>1. TakesBack(h)
      BY <1>11, RolledBack DEF Fails
    <2> QED
      BY <1>11, <2>1 DEF Fails, Ended, Over, TakesBack
  <1>12. ASSUME NEW h \in Requests, CommitUnanswered(h) PROVE Goal
    <2>1. TakesBack(h)
      BY <1>12, RolledBack DEF CommitUnanswered
    <2> QED
      BY <1>12, <2>1 DEF CommitUnanswered, Ended, Over, Replaces, TakesBack
  <1>13. ASSUME NEW h \in Requests, NEW r \in ReportIds, CreateReport(h, r) PROVE Goal
    BY <1>13 DEF CreateReport, Begins, IsAt, NoRequest
  <1>14. ASSUME NEW h \in Requests, SaveReport(h) PROVE Goal
    <2>1. Ended(h, "idle", {})
      BY <1>14, Saved
    <2>2. PICK r \in request[h].reports: Saves(h, r)
      BY <1>14, Saved
    <2>3. /\ request[h].at = "report"
          /\ UNCHANGED <<avatar, media, stored, jobs, next, doubtful>>
      BY <1>14 DEF SaveReport, IsAt
    <2> QED
      BY <2>1, <2>2, <2>3 DEF BeingReplaced, Ended, Over, Saves
  <1>15. ASSUME NEW h \in Requests, NEW found \in SUBSET ReportIds,
                SweepReports(h, found)
        PROVE  Goal
    BY <1>15 DEF SweepReports, Begins, IsAt, NoRequest
  <1>16. ASSUME NEW h \in Requests, IsStillUsing(h) PROVE Goal
    BY <1>16 DEF IsStillUsing, IsAt
  <1>17. ASSUME NEW h \in Requests, IsUsedByActiveReport(h) PROVE Goal
    BY <1>17 DEF IsUsedByActiveReport, IsAt
  <1>18. ASSUME NEW h \in Requests, DeleteSwept(h) PROVE Goal
    BY <1>18 DEF DeleteSwept, IsAt, DeletesFiles, IsDone, NoRequest
  <1>19. ASSUME NEW h \in Requests, NEW deleted \in SUBSET ReportIds,
                CommitSweep(h, deleted)
        PROVE  Goal
    <2>1. Strips(h, deleted)
      BY <1>19, Swept
    <2>2. /\ avatar' = avatar /\ stored' = stored /\ jobs' = jobs /\ next' = next
          /\ media' = media \ request[h].pictures /\ late' = late \ deleted
          /\ doubtful' = doubtful /\ deleted \subseteq request[h].reports
          /\ request[h].at = "sweep"
      BY <1>19 DEF CommitSweep, IsAt
    <2> QED
      BY <2>1, <2>2 DEF Over, Restarted, Strips
  <1>20. ASSUME NEW r \in ReportIds, NEW reset \in BOOLEAN, Decide(r, reset) PROVE Goal
    BY <1>20 DEF Decide, Locked
  <1>21. ASSUME NEW c \in Files, CleanUp(c) PROVE Goal
    BY <1>21 DEF CleanUp
  <1> HIDE DEF Goal, AvatarsTypeOK, State, fileVars, reportVars, faultVars,
      AvatarIsSpared, FilesAreNew, UploadsAreOwn, Deletes, IsAt
  <1> QED
    BY <1>1, <1>2, <1>3, <1>4, <1>5, <1>6, <1>7, <1>8, <1>9, <1>10, <1>11, <1>12,
       <1>13, <1>14, <1>15, <1>16, <1>17, <1>18, <1>19, <1>20, <1>21 DEF AvatarsNext,
       Avatar, Report

\* There is one nightly job, and a report is saved by one request.
LEMMA ReportsStayHandledOnce ==
  ASSUME AvatarsTypeOK, ReportsAreHandledOnce, AvatarsNext
  PROVE  ReportsAreHandledOnce'
  <1> DEFINE Goal == ReportsAreHandledOnce'
  <1> SUFFICES Goal
    OBVIOUS
  <1> USE DEF AvatarsTypeOK, State, fileVars, reportVars, faultVars,
     ReportsAreHandledOnce, Sweeps, IsAt
  <1>1. ASSUME NEW h \in Requests, UploadAvatar(h) PROVE Goal
    BY <1>1 DEF UploadAvatar, Begins, IsAt, NoRequest
  <1>2. ASSUME NEW h \in Requests, UploadFileToCloudinary(h) PROVE Goal
    BY <1>2 DEF UploadFileToCloudinary, IsAt
  <1>3. ASSUME NEW h \in Requests, UploadFails(h) PROVE Goal
    BY <1>3 DEF UploadFails, IsAt, IsDone, NoRequest
  <1>4. ASSUME NEW h \in Requests, DeleteAvatar(h) PROVE Goal
    BY <1>4 DEF DeleteAvatar, Begins, IsAt, NoRequest
  <1>5. ASSUME NEW h \in Requests, FindOld(h) PROVE Goal
    BY <1>5 DEF FindOld, IsAt
  <1>6. ASSUME NEW h \in Requests, IsMediaInReport(h) PROVE Goal
    BY <1>6 DEF IsMediaInReport, IsAt
  <1>7. ASSUME NEW h \in Requests, CommitAvatar(h) PROVE Goal
    <2>1. GivesUpOld(h)
      BY <1>7, CommittedAvatar
    <2> QED
      BY <1>7, <2>1 DEF CommitAvatar, Ended, Over, Replaces, GivesUpOld
  <1>8. ASSUME NEW h \in Requests, AbortAvatar(h) PROVE Goal
    <2>1. TakesBack(h)
      BY <1>8, RolledBack DEF AbortAvatar
    <2> QED
      BY <1>8, <2>1 DEF AbortAvatar, Ended, Over, TakesBack
  <1>9. ASSUME NEW h \in Requests, DeleteOldFile(h) PROVE Goal
    BY <1>9 DEF DeleteOldFile, IsAt, DeletesFiles, IsDone, NoRequest
  <1>10. ASSUME NEW h \in Requests, Rollback(h) PROVE Goal
    BY <1>10 DEF Rollback, IsAt, DeletesFiles, IsDone, NoRequest
  <1>11. ASSUME NEW h \in Requests, Fails(h) PROVE Goal
    <2>1. TakesBack(h)
      BY <1>11, RolledBack DEF Fails
    <2> QED
      BY <1>11, <2>1 DEF Fails, Ended, Over, TakesBack
  <1>12. ASSUME NEW h \in Requests, CommitUnanswered(h) PROVE Goal
    <2>1. TakesBack(h)
      BY <1>12, RolledBack DEF CommitUnanswered
    <2> QED
      BY <1>12, <2>1 DEF CommitUnanswered, Ended, Over, Replaces, TakesBack
  <1>13. ASSUME NEW h \in Requests, NEW r \in ReportIds, CreateReport(h, r) PROVE Goal
    BY <1>13 DEF CreateReport, Begins, IsAt, NoRequest
  <1>14. ASSUME NEW h \in Requests, SaveReport(h) PROVE Goal
    BY <1>14 DEF SaveReport, IsAt, BeingReplaced, IsDone, NoRequest
  <1>15. ASSUME NEW h \in Requests, NEW found \in SUBSET ReportIds,
                SweepReports(h, found)
        PROVE  Goal
    BY <1>15 DEF SweepReports, Begins, IsAt, NoRequest
  <1>16. ASSUME NEW h \in Requests, IsStillUsing(h) PROVE Goal
    BY <1>16 DEF IsStillUsing, IsAt
  <1>17. ASSUME NEW h \in Requests, IsUsedByActiveReport(h) PROVE Goal
    BY <1>17 DEF IsUsedByActiveReport, IsAt
  <1>18. ASSUME NEW h \in Requests, DeleteSwept(h) PROVE Goal
    BY <1>18 DEF DeleteSwept, IsAt, DeletesFiles, IsDone, NoRequest
  <1>19. ASSUME NEW h \in Requests, NEW deleted \in SUBSET ReportIds,
                CommitSweep(h, deleted)
        PROVE  Goal
    <2>1. Strips(h, deleted)
      BY <1>19, Swept
    <2>2. /\ avatar' = avatar /\ stored' = stored /\ jobs' = jobs /\ next' = next
          /\ media' = media \ request[h].pictures /\ late' = late \ deleted
          /\ doubtful' = doubtful /\ deleted \subseteq request[h].reports
          /\ request[h].at = "sweep"
      BY <1>19 DEF CommitSweep, IsAt
    <2> QED
      BY <2>1, <2>2 DEF Over, Restarted, Strips
  <1>20. ASSUME NEW r \in ReportIds, NEW reset \in BOOLEAN, Decide(r, reset) PROVE Goal
    BY <1>20 DEF Decide, Locked
  <1>21. ASSUME NEW c \in Files, CleanUp(c) PROVE Goal
    BY <1>21 DEF CleanUp
  <1> HIDE DEF Goal, AvatarsTypeOK, State, fileVars, reportVars, faultVars,
      ReportsAreHandledOnce, Sweeps, IsAt
  <1> QED
    BY <1>1, <1>2, <1>3, <1>4, <1>5, <1>6, <1>7, <1>8, <1>9, <1>10, <1>11, <1>12,
       <1>13, <1>14, <1>15, <1>16, <1>17, <1>18, <1>19, <1>20, <1>21 DEF AvatarsNext,
       Avatar, Report

\* A report that did not come late keeps others from deleting its picture.
LEMMA EvidenceStaysSpared ==
  ASSUME AvatarsTypeOK, ReportsAreHandledOnce, KeptIsAPicture, AvatarIsSpared,
     EvidenceIsSpared, AvatarsNext
  PROVE  EvidenceIsSpared'
  <1> DEFINE Goal == EvidenceIsSpared'
  <1> SUFFICES Goal
    OBVIOUS
  <1> USE DEF AvatarsTypeOK, State, fileVars, reportVars, faultVars, EvidenceIsSpared,
     ReportsAreHandledOnce, KeptIsAPicture, AvatarIsSpared, IsAt, Sweeps, Deletes
  <1>1. ASSUME NEW h \in Requests, UploadAvatar(h) PROVE Goal
    BY <1>1 DEF UploadAvatar, Begins, IsAt, NoRequest
  <1>2. ASSUME NEW h \in Requests, UploadFileToCloudinary(h) PROVE Goal
    BY <1>2 DEF UploadFileToCloudinary, IsAt
  <1>3. ASSUME NEW h \in Requests, UploadFails(h) PROVE Goal
    BY <1>3 DEF UploadFails, IsAt, IsDone, NoRequest
  <1>4. ASSUME NEW h \in Requests, DeleteAvatar(h) PROVE Goal
    BY <1>4 DEF DeleteAvatar, Begins, IsAt, NoRequest
  <1>5. ASSUME NEW h \in Requests, FindOld(h) PROVE Goal
    BY <1>5 DEF FindOld, IsAt
  <1>6. ASSUME NEW h \in Requests, IsMediaInReport(h) PROVE Goal
    <2>1. /\ request'[h].at = "commit" /\ request'[h].old = request[h].old
          /\ request'[h].keep = (request[h].old # 0 /\ Reported(request[h].old))
          /\ \A g \in Requests: g # h => request'[g] = request[g]
      BY <1>6 DEF IsMediaInReport
    <2>2. ASSUME NEW r \in ReportIds, snapshot[r] # 0, request[h].old = snapshot[r]
          PROVE  request'[h].keep
      BY <2>1, <2>2 DEF Reported
    <2> QED
      BY <1>6, <2>1, <2>2 DEF IsMediaInReport
  <1>7. ASSUME NEW h \in Requests, CommitAvatar(h) PROVE Goal
    <2>1. GivesUpOld(h)
      BY <1>7, CommittedAvatar
    <2> QED
      BY <1>7, <2>1 DEF CommitAvatar, Ended, Over, Replaces, GivesUpOld
  <1>8. ASSUME NEW h \in Requests, AbortAvatar(h) PROVE Goal
    <2>1. TakesBack(h)
      BY <1>8, RolledBack DEF AbortAvatar
    <2> QED
      BY <1>8, <2>1 DEF AbortAvatar, Ended, Over, TakesBack
  <1>9. ASSUME NEW h \in Requests, DeleteOldFile(h) PROVE Goal
    BY <1>9 DEF DeleteOldFile, IsAt, DeletesFiles, IsDone, NoRequest
  <1>10. ASSUME NEW h \in Requests, Rollback(h) PROVE Goal
    BY <1>10 DEF Rollback, IsAt, DeletesFiles, IsDone, NoRequest
  <1>11. ASSUME NEW h \in Requests, Fails(h) PROVE Goal
    <2>1. TakesBack(h)
      BY <1>11, RolledBack DEF Fails
    <2> QED
      BY <1>11, <2>1 DEF Fails, Ended, Over, TakesBack
  <1>12. ASSUME NEW h \in Requests, CommitUnanswered(h) PROVE Goal
    <2>1. TakesBack(h)
      BY <1>12, RolledBack DEF CommitUnanswered
    <2> QED
      BY <1>12, <2>1 DEF CommitUnanswered, Ended, Over, Replaces, TakesBack
  <1>13. ASSUME NEW h \in Requests, NEW r \in ReportIds, CreateReport(h, r) PROVE Goal
    BY <1>13 DEF CreateReport, Begins, IsAt, NoRequest
  <1>14. ASSUME NEW h \in Requests, SaveReport(h) PROVE Goal
    <2>1. Ended(h, "idle", {})
      BY <1>14, Saved
    <2>2. PICK r \in request[h].reports: Saves(h, r)
      BY <1>14, Saved
    <2>3. /\ request[h].at = "report"
          /\ UNCHANGED <<avatar, media, stored, jobs, next, doubtful>>
      BY <1>14 DEF SaveReport, IsAt
    <2> QED
      BY <2>1, <2>2, <2>3 DEF BeingReplaced, Ended, Over, Saves
  <1>15. ASSUME NEW h \in Requests, NEW found \in SUBSET ReportIds,
                SweepReports(h, found)
        PROVE  Goal
    BY <1>15 DEF SweepReports, Begins, IsAt, NoRequest
  <1>16. ASSUME NEW h \in Requests, IsStillUsing(h) PROVE Goal
    BY <1>16 DEF IsStillUsing, IsAt
  <1>17. ASSUME NEW h \in Requests, IsUsedByActiveReport(h) PROVE Goal
    BY <1>17 DEF IsUsedByActiveReport, IsAt
  <1>18. ASSUME NEW h \in Requests, DeleteSwept(h) PROVE Goal
    BY <1>18 DEF DeleteSwept, IsAt, DeletesFiles, IsDone, NoRequest
  <1>19. ASSUME NEW h \in Requests, NEW deleted \in SUBSET ReportIds,
                CommitSweep(h, deleted)
        PROVE  Goal
    <2>1. Strips(h, deleted)
      BY <1>19, Swept
    <2>2. /\ avatar' = avatar /\ stored' = stored /\ jobs' = jobs /\ next' = next
          /\ media' = media \ request[h].pictures /\ late' = late \ deleted
          /\ doubtful' = doubtful /\ deleted \subseteq request[h].reports
          /\ request[h].at = "sweep"
      BY <1>19 DEF CommitSweep, IsAt
    <2> QED
      BY <2>1, <2>2 DEF Over, Restarted, Strips
  <1>20. ASSUME NEW r \in ReportIds, NEW reset \in BOOLEAN, Decide(r, reset) PROVE Goal
    BY <1>20 DEF Decide, Locked
  <1>21. ASSUME NEW c \in Files, CleanUp(c) PROVE Goal
    BY <1>21 DEF CleanUp
  <1> HIDE DEF Goal, AvatarsTypeOK, State, fileVars, reportVars, faultVars,
      EvidenceIsSpared, ReportsAreHandledOnce, KeptIsAPicture, AvatarIsSpared, IsAt,
      Sweeps, Deletes
  <1> QED
    BY <1>1, <1>2, <1>3, <1>4, <1>5, <1>6, <1>7, <1>8, <1>9, <1>10, <1>11, <1>12,
       <1>13, <1>14, <1>15, <1>16, <1>17, <1>18, <1>19, <1>20, <1>21 DEF AvatarsNext,
       Avatar, Report

\* What the nightly job leaves out it keeps leaving out for the same reason.
LEMMA SweepsStayComplete ==
  ASSUME AvatarsTypeOK, UploadsAreOwn, ReportsAreHandledOnce, SweepsAreComplete,
     AvatarsNext
  PROVE  SweepsAreComplete'
  <1> DEFINE Goal == SweepsAreComplete'
  <1> SUFFICES Goal
    OBVIOUS
  <1> USE FilesAreNumbered DEF AvatarsTypeOK, State, fileVars, reportVars, faultVars,
     SweepsAreComplete, UploadsAreOwn, ReportsAreHandledOnce, LeftOut, Sweeps, IsAt
  <1>1. ASSUME NEW h \in Requests, UploadAvatar(h) PROVE Goal
    BY <1>1 DEF UploadAvatar, Begins, IsAt, NoRequest
  <1>2. ASSUME NEW h \in Requests, UploadFileToCloudinary(h) PROVE Goal
    BY <1>2 DEF UploadFileToCloudinary, IsAt
  <1>3. ASSUME NEW h \in Requests, UploadFails(h) PROVE Goal
    BY <1>3 DEF UploadFails, IsAt, IsDone, NoRequest
  <1>4. ASSUME NEW h \in Requests, DeleteAvatar(h) PROVE Goal
    BY <1>4 DEF DeleteAvatar, Begins, IsAt, NoRequest
  <1>5. ASSUME NEW h \in Requests, FindOld(h) PROVE Goal
    BY <1>5 DEF FindOld, IsAt
  <1>6. ASSUME NEW h \in Requests, IsMediaInReport(h) PROVE Goal
    BY <1>6 DEF IsMediaInReport, IsAt
  <1>7. ASSUME NEW h \in Requests, CommitAvatar(h) PROVE Goal
    <2>1. GivesUpOld(h)
      BY <1>7, CommittedAvatar
    <2> QED
      BY <1>7, <2>1 DEF CommitAvatar, Ended, Over, Replaces, GivesUpOld
  <1>8. ASSUME NEW h \in Requests, AbortAvatar(h) PROVE Goal
    <2>1. TakesBack(h)
      BY <1>8, RolledBack DEF AbortAvatar
    <2> QED
      BY <1>8, <2>1 DEF AbortAvatar, Ended, Over, TakesBack
  <1>9. ASSUME NEW h \in Requests, DeleteOldFile(h) PROVE Goal
    BY <1>9 DEF DeleteOldFile, IsAt, DeletesFiles, IsDone, NoRequest
  <1>10. ASSUME NEW h \in Requests, Rollback(h) PROVE Goal
    BY <1>10 DEF Rollback, IsAt, DeletesFiles, IsDone, NoRequest
  <1>11. ASSUME NEW h \in Requests, Fails(h) PROVE Goal
    <2>1. TakesBack(h)
      BY <1>11, RolledBack DEF Fails
    <2> QED
      BY <1>11, <2>1 DEF Fails, Ended, Over, TakesBack
  <1>12. ASSUME NEW h \in Requests, CommitUnanswered(h) PROVE Goal
    <2>1. TakesBack(h)
      BY <1>12, RolledBack DEF CommitUnanswered
    <2> QED
      BY <1>12, <2>1 DEF CommitUnanswered, Ended, Over, Replaces, TakesBack
  <1>13. ASSUME NEW h \in Requests, NEW r \in ReportIds, CreateReport(h, r) PROVE Goal
    BY <1>13 DEF CreateReport, Begins, IsAt, NoRequest
  <1>14. ASSUME NEW h \in Requests, SaveReport(h) PROVE Goal
    <2>1. Ended(h, "idle", {})
      BY <1>14, Saved
    <2>2. PICK r \in request[h].reports: Saves(h, r)
      BY <1>14, Saved
    <2>3. /\ request[h].at = "report"
          /\ UNCHANGED <<avatar, media, stored, jobs, next, doubtful>>
      BY <1>14 DEF SaveReport, IsAt
    <2> QED
      BY <2>1, <2>2, <2>3 DEF BeingReplaced, Ended, Over, Saves
  <1>15. ASSUME NEW h \in Requests, NEW found \in SUBSET ReportIds,
                SweepReports(h, found)
        PROVE  Goal
    BY <1>15 DEF SweepReports, Begins, IsAt, NoRequest
  <1>16. ASSUME NEW h \in Requests, IsStillUsing(h) PROVE Goal
    BY <1>16 DEF IsStillUsing, IsAt
  <1>17. ASSUME NEW h \in Requests, IsUsedByActiveReport(h) PROVE Goal
    BY <1>17 DEF IsUsedByActiveReport, IsAt
  <1>18. ASSUME NEW h \in Requests, DeleteSwept(h) PROVE Goal
    BY <1>18 DEF DeleteSwept, IsAt, DeletesFiles, IsDone, NoRequest
  <1>19. ASSUME NEW h \in Requests, NEW deleted \in SUBSET ReportIds,
                CommitSweep(h, deleted)
        PROVE  Goal
    <2>1. Strips(h, deleted)
      BY <1>19, Swept
    <2>2. /\ avatar' = avatar /\ stored' = stored /\ jobs' = jobs /\ next' = next
          /\ media' = media \ request[h].pictures /\ late' = late \ deleted
          /\ doubtful' = doubtful /\ deleted \subseteq request[h].reports
          /\ request[h].at = "sweep"
      BY <1>19 DEF CommitSweep, IsAt
    <2> QED
      BY <2>1, <2>2 DEF Over, Restarted, Strips
  <1>20. ASSUME NEW r \in ReportIds, NEW reset \in BOOLEAN, Decide(r, reset) PROVE Goal
    BY <1>20 DEF Decide, Locked
  <1>21. ASSUME NEW c \in Files, CleanUp(c) PROVE Goal
    BY <1>21 DEF CleanUp
  <1> HIDE DEF Goal, AvatarsTypeOK, State, fileVars, reportVars, faultVars,
      SweepsAreComplete, UploadsAreOwn, ReportsAreHandledOnce, LeftOut, Sweeps, IsAt
  <1> QED
    BY <1>1, <1>2, <1>3, <1>4, <1>5, <1>6, <1>7, <1>8, <1>9, <1>10, <1>11, <1>12,
       <1>13, <1>14, <1>15, <1>16, <1>17, <1>18, <1>19, <1>20, <1>21 DEF AvatarsNext,
       Avatar, Report

\* The picture in use is there after every step.
LEMMA AvatarStaysServed ==
  ASSUME AvatarsTypeOK, UploadsAreOwn, AvatarIsSpared, AvatarIsServed, AvatarsNext
  PROVE  AvatarIsServed'
  <1> DEFINE Goal == AvatarIsServed'
  <1> SUFFICES Goal
    OBVIOUS
  <1> USE FilesAreNumbered DEF AvatarsTypeOK, State, fileVars, reportVars, faultVars,
     AvatarIsServed, UploadsAreOwn, AvatarIsSpared, Deletes, IsAt
  <1>1. ASSUME NEW h \in Requests, UploadAvatar(h) PROVE Goal
    BY <1>1 DEF UploadAvatar, Begins, IsAt, NoRequest
  <1>2. ASSUME NEW h \in Requests, UploadFileToCloudinary(h) PROVE Goal
    BY <1>2 DEF UploadFileToCloudinary, IsAt
  <1>3. ASSUME NEW h \in Requests, UploadFails(h) PROVE Goal
    BY <1>3 DEF UploadFails, IsAt, IsDone, NoRequest
  <1>4. ASSUME NEW h \in Requests, DeleteAvatar(h) PROVE Goal
    BY <1>4 DEF DeleteAvatar, Begins, IsAt, NoRequest
  <1>5. ASSUME NEW h \in Requests, FindOld(h) PROVE Goal
    BY <1>5 DEF FindOld, IsAt
  <1>6. ASSUME NEW h \in Requests, IsMediaInReport(h) PROVE Goal
    BY <1>6 DEF IsMediaInReport, IsAt
  <1>7. ASSUME NEW h \in Requests, CommitAvatar(h) PROVE Goal
    <2>1. GivesUpOld(h)
      BY <1>7, CommittedAvatar
    <2> QED
      BY <1>7, <2>1 DEF CommitAvatar, Ended, Over, Replaces, GivesUpOld
  <1>8. ASSUME NEW h \in Requests, AbortAvatar(h) PROVE Goal
    <2>1. TakesBack(h)
      BY <1>8, RolledBack DEF AbortAvatar
    <2> QED
      BY <1>8, <2>1 DEF AbortAvatar, Ended, Over, TakesBack
  <1>9. ASSUME NEW h \in Requests, DeleteOldFile(h) PROVE Goal
    BY <1>9 DEF DeleteOldFile, IsAt, DeletesFiles, IsDone, NoRequest
  <1>10. ASSUME NEW h \in Requests, Rollback(h) PROVE Goal
    BY <1>10 DEF Rollback, IsAt, DeletesFiles, IsDone, NoRequest
  <1>11. ASSUME NEW h \in Requests, Fails(h) PROVE Goal
    <2>1. TakesBack(h)
      BY <1>11, RolledBack DEF Fails
    <2> QED
      BY <1>11, <2>1 DEF Fails, Ended, Over, TakesBack
  <1>12. ASSUME NEW h \in Requests, CommitUnanswered(h) PROVE Goal
    <2>1. TakesBack(h)
      BY <1>12, RolledBack DEF CommitUnanswered
    <2> QED
      BY <1>12, <2>1 DEF CommitUnanswered, Ended, Over, Replaces, TakesBack
  <1>13. ASSUME NEW h \in Requests, NEW r \in ReportIds, CreateReport(h, r) PROVE Goal
    BY <1>13 DEF CreateReport, Begins, IsAt, NoRequest
  <1>14. ASSUME NEW h \in Requests, SaveReport(h) PROVE Goal
    <2>1. Ended(h, "idle", {})
      BY <1>14, Saved
    <2>2. PICK r \in request[h].reports: Saves(h, r)
      BY <1>14, Saved
    <2>3. /\ request[h].at = "report"
          /\ UNCHANGED <<avatar, media, stored, jobs, next, doubtful>>
      BY <1>14 DEF SaveReport, IsAt
    <2> QED
      BY <2>1, <2>2, <2>3 DEF BeingReplaced, Ended, Over, Saves
  <1>15. ASSUME NEW h \in Requests, NEW found \in SUBSET ReportIds,
                SweepReports(h, found)
        PROVE  Goal
    BY <1>15 DEF SweepReports, Begins, IsAt, NoRequest
  <1>16. ASSUME NEW h \in Requests, IsStillUsing(h) PROVE Goal
    BY <1>16 DEF IsStillUsing, IsAt
  <1>17. ASSUME NEW h \in Requests, IsUsedByActiveReport(h) PROVE Goal
    BY <1>17 DEF IsUsedByActiveReport, IsAt
  <1>18. ASSUME NEW h \in Requests, DeleteSwept(h) PROVE Goal
    BY <1>18 DEF DeleteSwept, IsAt, DeletesFiles, IsDone, NoRequest
  <1>19. ASSUME NEW h \in Requests, NEW deleted \in SUBSET ReportIds,
                CommitSweep(h, deleted)
        PROVE  Goal
    <2>1. Strips(h, deleted)
      BY <1>19, Swept
    <2>2. /\ avatar' = avatar /\ stored' = stored /\ jobs' = jobs /\ next' = next
          /\ media' = media \ request[h].pictures /\ late' = late \ deleted
          /\ doubtful' = doubtful /\ deleted \subseteq request[h].reports
          /\ request[h].at = "sweep"
      BY <1>19 DEF CommitSweep, IsAt
    <2> QED
      BY <2>1, <2>2 DEF Over, Restarted, Strips
  <1>20. ASSUME NEW r \in ReportIds, NEW reset \in BOOLEAN, Decide(r, reset) PROVE Goal
    BY <1>20 DEF Decide, Locked
  <1>21. ASSUME NEW c \in Files, CleanUp(c) PROVE Goal
    BY <1>21 DEF CleanUp
  <1> HIDE DEF Goal, AvatarsTypeOK, State, fileVars, reportVars, faultVars,
      AvatarIsServed, UploadsAreOwn, AvatarIsSpared, Deletes, IsAt
  <1> QED
    BY <1>1, <1>2, <1>3, <1>4, <1>5, <1>6, <1>7, <1>8, <1>9, <1>10, <1>11, <1>12,
       <1>13, <1>14, <1>15, <1>16, <1>17, <1>18, <1>19, <1>20, <1>21 DEF AvatarsNext,
       Avatar, Report

\* So is the picture a report keeps, unless the report came late.
LEMMA EvidenceStays ==
  ASSUME AvatarsTypeOK, AvatarIsServed, EvidenceIsSpared, ReportsAreHandledOnce,
     EvidenceIsKept, AvatarsNext
  PROVE  EvidenceIsKept'
  <1> DEFINE Goal == EvidenceIsKept'
  <1> SUFFICES Goal
    OBVIOUS
  <1> USE FilesAreNumbered DEF AvatarsTypeOK, State, fileVars, reportVars, faultVars,
     EvidenceIsKept, AvatarIsServed, EvidenceIsSpared, ReportsAreHandledOnce, IsAt
  <1>1. ASSUME NEW h \in Requests, UploadAvatar(h) PROVE Goal
    BY <1>1 DEF UploadAvatar, Begins, IsAt, NoRequest
  <1>2. ASSUME NEW h \in Requests, UploadFileToCloudinary(h) PROVE Goal
    BY <1>2 DEF UploadFileToCloudinary, IsAt
  <1>3. ASSUME NEW h \in Requests, UploadFails(h) PROVE Goal
    BY <1>3 DEF UploadFails, IsAt, IsDone, NoRequest
  <1>4. ASSUME NEW h \in Requests, DeleteAvatar(h) PROVE Goal
    BY <1>4 DEF DeleteAvatar, Begins, IsAt, NoRequest
  <1>5. ASSUME NEW h \in Requests, FindOld(h) PROVE Goal
    BY <1>5 DEF FindOld, IsAt
  <1>6. ASSUME NEW h \in Requests, IsMediaInReport(h) PROVE Goal
    BY <1>6 DEF IsMediaInReport, IsAt
  <1>7. ASSUME NEW h \in Requests, CommitAvatar(h) PROVE Goal
    <2>1. GivesUpOld(h)
      BY <1>7, CommittedAvatar
    <2> QED
      BY <1>7, <2>1 DEF CommitAvatar, Ended, Over, Replaces, GivesUpOld
  <1>8. ASSUME NEW h \in Requests, AbortAvatar(h) PROVE Goal
    <2>1. TakesBack(h)
      BY <1>8, RolledBack DEF AbortAvatar
    <2> QED
      BY <1>8, <2>1 DEF AbortAvatar, Ended, Over, TakesBack
  <1>9. ASSUME NEW h \in Requests, DeleteOldFile(h) PROVE Goal
    BY <1>9 DEF DeleteOldFile, IsAt, DeletesFiles, IsDone, NoRequest
  <1>10. ASSUME NEW h \in Requests, Rollback(h) PROVE Goal
    BY <1>10 DEF Rollback, IsAt, DeletesFiles, IsDone, NoRequest
  <1>11. ASSUME NEW h \in Requests, Fails(h) PROVE Goal
    <2>1. TakesBack(h)
      BY <1>11, RolledBack DEF Fails
    <2> QED
      BY <1>11, <2>1 DEF Fails, Ended, Over, TakesBack
  <1>12. ASSUME NEW h \in Requests, CommitUnanswered(h) PROVE Goal
    <2>1. TakesBack(h)
      BY <1>12, RolledBack DEF CommitUnanswered
    <2> QED
      BY <1>12, <2>1 DEF CommitUnanswered, Ended, Over, Replaces, TakesBack
  <1>13. ASSUME NEW h \in Requests, NEW r \in ReportIds, CreateReport(h, r) PROVE Goal
    BY <1>13 DEF CreateReport, Begins, IsAt, NoRequest
  <1>14. ASSUME NEW h \in Requests, SaveReport(h) PROVE Goal
    <2>1. Ended(h, "idle", {})
      BY <1>14, Saved
    <2>2. PICK r \in request[h].reports: Saves(h, r)
      BY <1>14, Saved
    <2>3. /\ request[h].at = "report"
          /\ UNCHANGED <<avatar, media, stored, jobs, next, doubtful>>
      BY <1>14 DEF SaveReport, IsAt
    <2> QED
      BY <2>1, <2>2, <2>3 DEF BeingReplaced, Ended, Over, Saves
  <1>15. ASSUME NEW h \in Requests, NEW found \in SUBSET ReportIds,
                SweepReports(h, found)
        PROVE  Goal
    BY <1>15 DEF SweepReports, Begins, IsAt, NoRequest
  <1>16. ASSUME NEW h \in Requests, IsStillUsing(h) PROVE Goal
    BY <1>16 DEF IsStillUsing, IsAt
  <1>17. ASSUME NEW h \in Requests, IsUsedByActiveReport(h) PROVE Goal
    BY <1>17 DEF IsUsedByActiveReport, IsAt
  <1>18. ASSUME NEW h \in Requests, DeleteSwept(h) PROVE Goal
    BY <1>18 DEF DeleteSwept, IsAt, DeletesFiles, IsDone, NoRequest
  <1>19. ASSUME NEW h \in Requests, NEW deleted \in SUBSET ReportIds,
                CommitSweep(h, deleted)
        PROVE  Goal
    <2>1. Strips(h, deleted)
      BY <1>19, Swept
    <2>2. /\ avatar' = avatar /\ stored' = stored /\ jobs' = jobs /\ next' = next
          /\ media' = media \ request[h].pictures /\ late' = late \ deleted
          /\ doubtful' = doubtful /\ deleted \subseteq request[h].reports
          /\ request[h].at = "sweep"
      BY <1>19 DEF CommitSweep, IsAt
    <2> QED
      BY <2>1, <2>2 DEF Over, Restarted, Strips
  <1>20. ASSUME NEW r \in ReportIds, NEW reset \in BOOLEAN, Decide(r, reset) PROVE Goal
    BY <1>20 DEF Decide, Locked
  <1>21. ASSUME NEW c \in Files, CleanUp(c) PROVE Goal
    BY <1>21 DEF CleanUp
  <1> HIDE DEF Goal, AvatarsTypeOK, State, fileVars, reportVars, faultVars,
      EvidenceIsKept, AvatarIsServed, EvidenceIsSpared, ReportsAreHandledOnce, IsAt
  <1> QED
    BY <1>1, <1>2, <1>3, <1>4, <1>5, <1>6, <1>7, <1>8, <1>9, <1>10, <1>11, <1>12,
       <1>13, <1>14, <1>15, <1>16, <1>17, <1>18, <1>19, <1>20, <1>21 DEF AvatarsNext,
       Avatar, Report

\* What a request holds it still holds after a step of another one.
LEMMA StillHeld ==
  ASSUME NEW h \in Requests, NEW f, IsHeld(f),
         \A g \in Requests: g # h => request'[g] = request[g]
  PROVE  IsHeld(f)' \/ Holds(h, f)
  BY DEF IsHeld, Holds, Deletes

\* Most steps let go of no file.
LEMMA NothingIsLetGo ==
  ASSUME AvatarsTypeOK, FilesAreNew, NEW h \in Requests,
         \/ UploadAvatar(h) \/ UploadFails(h) \/ DeleteAvatar(h) \/ FindOld(h)
         \/ IsMediaInReport(h) \/ SaveReport(h) \/ IsStillUsing(h)
         \/ IsUsedByActiveReport(h)
         \/ \E r \in ReportIds: CreateReport(h, r)
         \/ \E found \in SUBSET ReportIds: SweepReports(h, found)
  PROVE  /\ \A f \in Files: IsHeld(f) => IsHeld(f)'
         /\ UNCHANGED <<avatar, media, stored, jobs, lost, doubtful>>
  <1> DEFINE Goal == /\ \A g \in Requests: g # h => request'[g] = request[g]
                     /\ ~Deletes(h)
                     /\ request'[h].file = request[h].file
                     /\ UNCHANGED <<avatar, media, stored, jobs, lost, doubtful>>
  <1>0. Goal
    <2> USE DEF AvatarsTypeOK, State, FilesAreNew, IsAt, Deletes, fileVars, reportVars,
        faultVars
    <2>1. ASSUME UploadAvatar(h) PROVE Goal
      BY <2>1 DEF UploadAvatar, Begins, IsAt, NoRequest
    <2>2. ASSUME UploadFails(h) PROVE Goal
      BY <2>2 DEF UploadFails, IsAt, IsDone, NoRequest
    <2>3. ASSUME DeleteAvatar(h) PROVE Goal
      BY <2>3 DEF DeleteAvatar, Begins, IsAt, NoRequest
    <2>4. ASSUME FindOld(h) PROVE Goal
      BY <2>4 DEF FindOld, IsAt
    <2>5. ASSUME IsMediaInReport(h) PROVE Goal
      BY <2>5 DEF IsMediaInReport, IsAt
    <2>6. ASSUME NEW r \in ReportIds, CreateReport(h, r) PROVE Goal
      BY <2>6 DEF CreateReport, Begins, IsAt, NoRequest
    <2>7. ASSUME SaveReport(h) PROVE Goal
      BY <2>7 DEF SaveReport, IsAt, BeingReplaced, IsDone, NoRequest
    <2>8. ASSUME NEW found \in SUBSET ReportIds, SweepReports(h, found) PROVE Goal
      BY <2>8 DEF SweepReports, Begins, IsAt, NoRequest
    <2>9. ASSUME IsStillUsing(h) PROVE Goal
      BY <2>9 DEF IsStillUsing, IsAt
    <2>10. ASSUME IsUsedByActiveReport(h) PROVE Goal
      BY <2>10 DEF IsUsedByActiveReport, IsAt
    <2> HIDE DEF Goal
    <2> QED
      BY <2>1, <2>2, <2>3, <2>4, <2>5, <2>6, <2>7, <2>8, <2>9, <2>10
  <1>1. ASSUME NEW f \in Files, IsHeld(f)
        PROVE  IsHeld(f)'
    <2>1. IsHeld(f)' \/ Holds(h, f)
      BY <1>0, <1>1, StillHeld
    <2>2. Holds(h, f) => Holds(h, f)'
      BY <1>0 DEF Holds
    <2> QED
      BY <2>1, <2>2 DEF IsHeld
  <1> QED
    BY <1>0, <1>1

\* A file that a request or a job has is passed on, to a request, a job or the
\* owner, or goes.
LEMMA FilesArePassedOn ==
  ASSUME AvatarsTypeOK, FilesAreNew, UploadsAreOwn, AvatarsNext,
         NEW f \in stored \intersect stored', IsHeld(f) \/ f \in jobs
  PROVE  \/ IsHeld(f)' \/ f \in jobs' \/ f \in doubtful'
         \/ f = avatar' /\ f \in media'
  <1> DEFINE Goal == \/ IsHeld(f)' \/ f \in jobs' \/ f \in doubtful'
                     \/ f = avatar' /\ f \in media'
  <1> SUFFICES Goal
    OBVIOUS
  <1>f. f \in Files /\ f # 0
    BY FilesAreNumbered DEF AvatarsTypeOK
  <1> USE <1>f DEF AvatarsTypeOK, State, FilesAreNew, UploadsAreOwn, fileVars,
      reportVars, faultVars
  <1>1. ASSUME NEW h \in Requests, UploadAvatar(h) PROVE Goal
    <2>1. IsHeld(f) => IsHeld(f)'
      BY <1>1, NothingIsLetGo
    <2> QED
      BY <1>1, <2>1, NothingIsLetGo
  <1>2. ASSUME NEW h \in Requests, UploadFileToCloudinary(h) PROVE Goal
    <2>1. /\ \A g \in Requests: g # h => request'[g] = request[g]
          /\ request[h].at = "upload" /\ jobs' = jobs
      BY <1>2 DEF UploadFileToCloudinary, IsAt
    <2>2. ~Holds(h, f)
      BY <2>1 DEF Holds, Deletes
    <2> QED
      BY <2>1, <2>2, StillHeld
  <1>3. ASSUME NEW h \in Requests, UploadFails(h) PROVE Goal
    <2>1. IsHeld(f) => IsHeld(f)'
      BY <1>3, NothingIsLetGo
    <2> QED
      BY <1>3, <2>1, NothingIsLetGo
  <1>4. ASSUME NEW h \in Requests, DeleteAvatar(h) PROVE Goal
    <2>1. IsHeld(f) => IsHeld(f)'
      BY <1>4, NothingIsLetGo
    <2> QED
      BY <1>4, <2>1, NothingIsLetGo
  <1>5. ASSUME NEW h \in Requests, FindOld(h) PROVE Goal
    <2>1. IsHeld(f) => IsHeld(f)'
      BY <1>5, NothingIsLetGo
    <2> QED
      BY <1>5, <2>1, NothingIsLetGo
  <1>6. ASSUME NEW h \in Requests, IsMediaInReport(h) PROVE Goal
    <2>1. IsHeld(f) => IsHeld(f)'
      BY <1>6, NothingIsLetGo
    <2> QED
      BY <1>6, <2>1, NothingIsLetGo
  <1>7. ASSUME NEW h \in Requests, CommitAvatar(h) PROVE Goal
    <2>1. GivesUpOld(h)
      BY <1>7, CommittedAvatar
    <2>2. IsHeld(f) => IsHeld(f)' \/ Holds(h, f)
      BY <2>1, StillHeld DEF Ended, GivesUpOld
    <2>3. Holds(h, f) => request[h].file = f
      BY <1>7 DEF CommitAvatar, Holds, Deletes, IsAt
    <2>4. request[h].file = f => f = avatar' /\ f \in media'
      BY <1>7 DEF CommitAvatar, Replaces
    <2> QED
      BY <1>7, <2>1, <2>2, <2>3, <2>4 DEF CommitAvatar, GivesUpOld
  <1>8. ASSUME NEW h \in Requests, AbortAvatar(h) PROVE Goal
    <2>1. TakesBack(h)
      BY <1>8, RolledBack DEF AbortAvatar
    <2>2. IsHeld(f) => IsHeld(f)' \/ Holds(h, f)
      BY <2>1, StillHeld DEF Ended, TakesBack
    <2>3. Holds(h, f) => request[h].file = f
      BY <1>8 DEF AbortAvatar, Holds, Deletes, IsAt
    <2>4. Ended(h, "rollback", {f}) => Holds(h, f)'
      BY DEF Ended, Over, Holds, Deletes
    <2>5. Ended(h, "rollback", {f}) => IsHeld(f)'
      BY <2>4 DEF IsHeld
    <2> QED
      BY <1>8, <2>1, <2>2, <2>3, <2>5 DEF AbortAvatar, TakesBack
  <1>9. ASSUME NEW h \in Requests, DeleteOldFile(h) PROVE Goal
    <2>1. Ended(h, "idle", {})
      BY <1>9, DoneIsEnded DEF DeleteOldFile, DeletesFiles
    <2>2. IsHeld(f) => IsHeld(f)' \/ Holds(h, f)
      BY <2>1, StillHeld DEF Ended
    <2>3. Holds(h, f) => f \in request[h].pictures
      BY <1>9 DEF DeleteOldFile, Holds, IsAt
    <2>4. f \in request[h].pictures => f \in jobs'
      BY <1>9 DEF DeleteOldFile, DeletesFiles
    <2>5. f \in jobs => f \in jobs'
      BY <1>9 DEF DeleteOldFile, DeletesFiles
    <2> QED
      BY <2>2, <2>3, <2>4, <2>5
  <1>10. ASSUME NEW h \in Requests, Rollback(h) PROVE Goal
    <2>1. Ended(h, "idle", {})
      BY <1>10, DoneIsEnded DEF Rollback, DeletesFiles
    <2>2. IsHeld(f) => IsHeld(f)' \/ Holds(h, f)
      BY <2>1, StillHeld DEF Ended
    <2>3. Holds(h, f) => f \in request[h].pictures
      BY <1>10 DEF Rollback, Holds, IsAt
    <2>4. f \in request[h].pictures => f \in jobs'
      BY <1>10 DEF Rollback, DeletesFiles
    <2>5. f \in jobs => f \in jobs'
      BY <1>10 DEF Rollback, DeletesFiles
    <2> QED
      BY <2>2, <2>3, <2>4, <2>5
  <1>11. ASSUME NEW h \in Requests, Fails(h) PROVE Goal
    <2>1. TakesBack(h)
      BY <1>11, RolledBack DEF Fails
    <2>2. IsHeld(f) => IsHeld(f)' \/ Holds(h, f)
      BY <2>1, StillHeld DEF Ended, TakesBack
    <2>3. Holds(h, f) => request[h].file = f
      BY <1>11 DEF Fails, Holds, Deletes, IsAt
    <2>4. Ended(h, "rollback", {f}) => Holds(h, f)'
      BY DEF Ended, Over, Holds, Deletes
    <2>5. Ended(h, "rollback", {f}) => IsHeld(f)'
      BY <2>4 DEF IsHeld
    <2> QED
      BY <1>11, <2>1, <2>2, <2>3, <2>5 DEF Fails, TakesBack
  <1>12. ASSUME NEW h \in Requests, CommitUnanswered(h) PROVE Goal
    <2>1. TakesBack(h)
      BY <1>12, RolledBack DEF CommitUnanswered
    <2>2. IsHeld(f) => IsHeld(f)' \/ Holds(h, f)
      BY <2>1, StillHeld DEF Ended, TakesBack
    <2>3. Holds(h, f) => request[h].file = f
      BY <1>12 DEF CommitUnanswered, Holds, Deletes, IsAt
    <2> QED
      BY <1>12, <2>1, <2>2, <2>3 DEF CommitUnanswered, TakesBack
  <1>13. ASSUME NEW h \in Requests, NEW r \in ReportIds, CreateReport(h, r) PROVE Goal
    <2>1. IsHeld(f) => IsHeld(f)'
      BY <1>13, NothingIsLetGo
    <2> QED
      BY <1>13, <2>1, NothingIsLetGo
  <1>14. ASSUME NEW h \in Requests, SaveReport(h) PROVE Goal
    <2>1. IsHeld(f) => IsHeld(f)'
      BY <1>14, NothingIsLetGo
    <2> QED
      BY <1>14, <2>1, NothingIsLetGo
  <1>15. ASSUME NEW h \in Requests, NEW found \in SUBSET ReportIds,
                SweepReports(h, found)
        PROVE  Goal
    <2>1. IsHeld(f) => IsHeld(f)'
      BY <1>15, NothingIsLetGo
    <2> QED
      BY <1>15, <2>1, NothingIsLetGo
  <1>16. ASSUME NEW h \in Requests, IsStillUsing(h) PROVE Goal
    <2>1. IsHeld(f) => IsHeld(f)'
      BY <1>16, NothingIsLetGo
    <2> QED
      BY <1>16, <2>1, NothingIsLetGo
  <1>17. ASSUME NEW h \in Requests, IsUsedByActiveReport(h) PROVE Goal
    <2>1. IsHeld(f) => IsHeld(f)'
      BY <1>17, NothingIsLetGo
    <2> QED
      BY <1>17, <2>1, NothingIsLetGo
  <1>18. ASSUME NEW h \in Requests, DeleteSwept(h) PROVE Goal
    <2>1. Ended(h, "idle", {})
      BY <1>18, DoneIsEnded DEF DeleteSwept, DeletesFiles
    <2>2. IsHeld(f) => IsHeld(f)' \/ Holds(h, f)
      BY <2>1, StillHeld DEF Ended
    <2>3. Holds(h, f) => f \in request[h].pictures
      BY <1>18 DEF DeleteSwept, Holds, IsAt
    <2>4. f \in request[h].pictures => f \in jobs'
      BY <1>18 DEF DeleteSwept, DeletesFiles
    <2>5. f \in jobs => f \in jobs'
      BY <1>18 DEF DeleteSwept, DeletesFiles
    <2> QED
      BY <2>2, <2>3, <2>4, <2>5
  <1>19. ASSUME NEW h \in Requests, NEW deleted \in SUBSET ReportIds,
                CommitSweep(h, deleted)
        PROVE  Goal
    <2>1. Strips(h, deleted)
      BY <1>19, Swept
    <2>2. /\ avatar' = avatar /\ stored' = stored /\ jobs' = jobs /\ next' = next
          /\ media' = media \ request[h].pictures /\ late' = late \ deleted
          /\ doubtful' = doubtful /\ deleted \subseteq request[h].reports
          /\ request[h].at = "sweep"
      BY <1>19 DEF CommitSweep, IsAt
    <2>3. ASSUME NEW g \in Requests, Holds(g, f)
          PROVE  Holds(g, f)'
      <3>1. CASE g = h
        BY <2>2, <2>3, <3>1 DEF Holds, Deletes
      <3>2. CASE g # h
        <4>1. Restarted(g)
          BY <2>1, <3>2 DEF Strips
        <4> QED
          BY <2>3, <4>1 DEF Restarted, Holds, Deletes
      <3> QED
        BY <3>1, <3>2
    <2> QED
      BY <2>2, <2>3 DEF IsHeld
  <1>20. ASSUME NEW r \in ReportIds, NEW reset \in BOOLEAN, Decide(r, reset) PROVE Goal
    BY <1>20 DEF Decide, IsHeld, Holds, Deletes
  <1>21. ASSUME NEW c \in Files, CleanUp(c) PROVE Goal
    BY <1>21 DEF CleanUp, IsHeld, Holds, Deletes
  <1> HIDE DEF Goal, AvatarsTypeOK, State, FilesAreNew, UploadsAreOwn, fileVars,
      reportVars, faultVars
  <1> QED
    BY <1>1, <1>2, <1>3, <1>4, <1>5, <1>6, <1>7, <1>8, <1>9, <1>10, <1>11, <1>12,
       <1>13, <1>14, <1>15, <1>16, <1>17, <1>18, <1>19, <1>20, <1>21 DEF AvatarsNext,
       Avatar, Report

\* A file is new, or loses its document, in the hands of a request that will
\* write one or delete it.
LEMMA FilesComeAndGoInHand ==
  ASSUME AvatarsTypeOK, AvatarsNext, NEW f \in stored',
         f \notin stored \/ f \in media \ media'
  PROVE  IsHeld(f)' \/ f \in doubtful'
  <1> DEFINE Goal == IsHeld(f)' \/ f \in doubtful'
  <1> SUFFICES Goal
    OBVIOUS
  <1> USE FilesAreNumbered DEF AvatarsTypeOK, State, fileVars, reportVars, faultVars
  <1>1. ASSUME NEW h \in Requests, UploadAvatar(h) PROVE Goal
    BY <1>1 DEF UploadAvatar, Begins, IsAt, NoRequest
  <1>2. ASSUME NEW h \in Requests, UploadFileToCloudinary(h) PROVE Goal
    <2>1. f = next \/ f \in stored
      BY <1>2 DEF UploadFileToCloudinary
    <2>2. request'[h].file = next
      BY <1>2 DEF UploadFileToCloudinary
    <2>3. f = next => IsHeld(f)'
      BY <2>2 DEF IsHeld, Holds
    <2> QED
      BY <1>2, <2>1, <2>3 DEF UploadFileToCloudinary
  <1>3. ASSUME NEW h \in Requests, UploadFails(h) PROVE Goal
    BY <1>3 DEF UploadFails, IsAt, IsDone, NoRequest
  <1>4. ASSUME NEW h \in Requests, DeleteAvatar(h) PROVE Goal
    BY <1>4 DEF DeleteAvatar, Begins, IsAt, NoRequest
  <1>5. ASSUME NEW h \in Requests, FindOld(h) PROVE Goal
    BY <1>5 DEF FindOld, IsAt
  <1>6. ASSUME NEW h \in Requests, IsMediaInReport(h) PROVE Goal
    BY <1>6 DEF IsMediaInReport, IsAt
  <1>7. ASSUME NEW h \in Requests, CommitAvatar(h) PROVE Goal
    <2>1. GivesUpOld(h)
      BY <1>7, CommittedAvatar
    <2>2. f = request[h].old /\ ~request[h].keep /\ f # 0
      BY <1>7 DEF CommitAvatar, Replaces
    <2>3. Holds(h, f)'
      BY <2>1, <2>2 DEF Ended, Over, Holds, Deletes, GivesUpOld
    <2> QED
      BY <2>3 DEF IsHeld
  <1>8. ASSUME NEW h \in Requests, AbortAvatar(h) PROVE Goal
    BY <1>8 DEF AbortAvatar, IsAt, OldIsGone, RollsBack, GoesOnWith, IsDone, NoRequest
  <1>9. ASSUME NEW h \in Requests, DeleteOldFile(h) PROVE Goal
    BY <1>9 DEF DeleteOldFile, IsAt, DeletesFiles, IsDone, NoRequest
  <1>10. ASSUME NEW h \in Requests, Rollback(h) PROVE Goal
    BY <1>10 DEF Rollback, IsAt, DeletesFiles, IsDone, NoRequest
  <1>11. ASSUME NEW h \in Requests, Fails(h) PROVE Goal
    BY <1>11 DEF Fails, IsAt, RollsBack, GoesOnWith, IsDone, NoRequest
  <1>12. ASSUME NEW h \in Requests, CommitUnanswered(h) PROVE Goal
    <2>1. f = request[h].old /\ f # 0
      BY <1>12 DEF CommitUnanswered, Replaces
    <2> QED
      BY <1>12, <2>1 DEF CommitUnanswered
  <1>13. ASSUME NEW h \in Requests, NEW r \in ReportIds, CreateReport(h, r) PROVE Goal
    BY <1>13 DEF CreateReport, Begins, IsAt, NoRequest
  <1>14. ASSUME NEW h \in Requests, SaveReport(h) PROVE Goal
    BY <1>14 DEF SaveReport, IsAt, BeingReplaced, IsDone, NoRequest
  <1>15. ASSUME NEW h \in Requests, NEW found \in SUBSET ReportIds,
                SweepReports(h, found)
        PROVE  Goal
    BY <1>15 DEF SweepReports, Begins, IsAt, NoRequest
  <1>16. ASSUME NEW h \in Requests, IsStillUsing(h) PROVE Goal
    BY <1>16 DEF IsStillUsing, IsAt
  <1>17. ASSUME NEW h \in Requests, IsUsedByActiveReport(h) PROVE Goal
    BY <1>17 DEF IsUsedByActiveReport, IsAt
  <1>18. ASSUME NEW h \in Requests, DeleteSwept(h) PROVE Goal
    BY <1>18 DEF DeleteSwept, IsAt, DeletesFiles, IsDone, NoRequest
  <1>19. ASSUME NEW h \in Requests, NEW deleted \in SUBSET ReportIds,
                CommitSweep(h, deleted)
        PROVE  Goal
    <2>1. Strips(h, deleted)
      BY <1>19, Swept
    <2>2. /\ avatar' = avatar /\ stored' = stored /\ jobs' = jobs /\ next' = next
          /\ media' = media \ request[h].pictures /\ late' = late \ deleted
          /\ doubtful' = doubtful /\ deleted \subseteq request[h].reports
          /\ request[h].at = "sweep"
      BY <1>19 DEF CommitSweep, IsAt
    <2>3. f \in request[h].pictures
      BY <2>2
    <2>4. Holds(h, f)'
      BY <2>1, <2>3 DEF Over, Holds, Deletes, Strips
    <2> QED
      BY <2>4 DEF IsHeld
  <1>20. ASSUME NEW r \in ReportIds, NEW reset \in BOOLEAN, Decide(r, reset) PROVE Goal
    BY <1>20 DEF Decide, Locked
  <1>21. ASSUME NEW c \in Files, CleanUp(c) PROVE Goal
    BY <1>21 DEF CleanUp
  <1> HIDE DEF Goal, AvatarsTypeOK, State, fileVars, reportVars, faultVars
  <1> QED
    BY <1>1, <1>2, <1>3, <1>4, <1>5, <1>6, <1>7, <1>8, <1>9, <1>10, <1>11, <1>12,
       <1>13, <1>14, <1>15, <1>16, <1>17, <1>18, <1>19, <1>20, <1>21 DEF AvatarsNext,
       Avatar, Report

\* What was lost, or committed without an answer, is not forgotten.
LEMMA HistoryGrows ==
  ASSUME AvatarsNext
  PROVE  lost \subseteq lost' /\ doubtful \subseteq doubtful'
  <1> DEFINE Goal == lost \subseteq lost' /\ doubtful \subseteq doubtful'
  <1> SUFFICES Goal
    OBVIOUS
  <1> USE DEF fileVars, reportVars, faultVars
  <1>1. ASSUME NEW h \in Requests, UploadAvatar(h) PROVE Goal
    BY <1>1 DEF UploadAvatar
  <1>2. ASSUME NEW h \in Requests, UploadFileToCloudinary(h) PROVE Goal
    BY <1>2 DEF UploadFileToCloudinary
  <1>3. ASSUME NEW h \in Requests, UploadFails(h) PROVE Goal
    BY <1>3 DEF UploadFails
  <1>4. ASSUME NEW h \in Requests, DeleteAvatar(h) PROVE Goal
    BY <1>4 DEF DeleteAvatar
  <1>5. ASSUME NEW h \in Requests, FindOld(h) PROVE Goal
    BY <1>5 DEF FindOld
  <1>6. ASSUME NEW h \in Requests, IsMediaInReport(h) PROVE Goal
    BY <1>6 DEF IsMediaInReport
  <1>7. ASSUME NEW h \in Requests, CommitAvatar(h) PROVE Goal
    BY <1>7 DEF CommitAvatar, Replaces
  <1>8. ASSUME NEW h \in Requests, AbortAvatar(h) PROVE Goal
    BY <1>8 DEF AbortAvatar
  <1>9. ASSUME NEW h \in Requests, DeleteOldFile(h) PROVE Goal
    BY <1>9 DEF DeleteOldFile
  <1>10. ASSUME NEW h \in Requests, Rollback(h) PROVE Goal
    BY <1>10 DEF Rollback
  <1>11. ASSUME NEW h \in Requests, Fails(h) PROVE Goal
    BY <1>11 DEF Fails
  <1>12. ASSUME NEW h \in Requests, CommitUnanswered(h) PROVE Goal
    BY <1>12 DEF CommitUnanswered, Replaces
  <1>13. ASSUME NEW h \in Requests, NEW r \in ReportIds, CreateReport(h, r) PROVE Goal
    BY <1>13 DEF CreateReport
  <1>14. ASSUME NEW h \in Requests, SaveReport(h) PROVE Goal
    BY <1>14 DEF SaveReport
  <1>15. ASSUME NEW h \in Requests, NEW found \in SUBSET ReportIds,
                SweepReports(h, found)
        PROVE  Goal
    BY <1>15 DEF SweepReports
  <1>16. ASSUME NEW h \in Requests, IsStillUsing(h) PROVE Goal
    BY <1>16 DEF IsStillUsing
  <1>17. ASSUME NEW h \in Requests, IsUsedByActiveReport(h) PROVE Goal
    BY <1>17 DEF IsUsedByActiveReport
  <1>18. ASSUME NEW h \in Requests, DeleteSwept(h) PROVE Goal
    BY <1>18 DEF DeleteSwept
  <1>19. ASSUME NEW h \in Requests, NEW deleted \in SUBSET ReportIds,
                CommitSweep(h, deleted)
        PROVE  Goal
    BY <1>19 DEF CommitSweep
  <1>20. ASSUME NEW r \in ReportIds, NEW reset \in BOOLEAN, Decide(r, reset) PROVE Goal
    BY <1>20 DEF Decide
  <1>21. ASSUME NEW c \in Files, CleanUp(c) PROVE Goal
    BY <1>21 DEF CleanUp
  <1> HIDE DEF Goal, fileVars, reportVars, faultVars
  <1> QED
    BY <1>1, <1>2, <1>3, <1>4, <1>5, <1>6, <1>7, <1>8, <1>9, <1>10, <1>11, <1>12,
       <1>13, <1>14, <1>15, <1>16, <1>17, <1>18, <1>19, <1>20, <1>21 DEF AvatarsNext,
       Avatar, Report

\* A file without a document stays in hand, or has a job.
LEMMA FilesKeepDocuments ==
  ASSUME AvatarsTypeOK, FilesAreNew, UploadsAreOwn, FilesHaveDocuments, AvatarsNext
  PROVE  FilesHaveDocuments'
  <1> SUFFICES ASSUME NEW f \in stored', f \notin media'
               PROVE  f \in jobs' \/ f \in doubtful' \/ IsHeld(f)'
    BY DEF FilesHaveDocuments
  <1>1. CASE f \in stored /\ f \notin media
    <2>1. f \in jobs \/ f \in doubtful \/ IsHeld(f)
      BY <1>1 DEF FilesHaveDocuments
    <2> QED
      BY <1>1, <2>1, FilesArePassedOn, HistoryGrows
  <1>2. CASE ~(f \in stored /\ f \notin media)
    BY <1>2, FilesComeAndGoInHand
  <1> QED
    BY <1>1, <1>2

\* What the owner or a report stops to use is in hand, or known as lost.
LEMMA WhatIsLeftIsKnown ==
  ASSUME AvatarsTypeOK, FilesAreNew, UploadsAreOwn, ReportsAreHandledOnce,
         SweepsAreComplete, FilesHaveDocuments, AvatarsNext,
         NEW f \in stored \intersect stored',
         f = avatar \/ Reported(f)
  PROVE  InUse(f)' \/ f \in lost' \/ f \in doubtful'
  <1> DEFINE Goal == InUse(f)' \/ f \in lost' \/ f \in doubtful'
  <1> SUFFICES Goal
    OBVIOUS
  <1>f. f \in Files /\ f # 0
    BY FilesAreNumbered DEF AvatarsTypeOK
  <1>r. Reported(f)' \/ f = avatar' \/ IsHeld(f)' \/ f \in lost' \/ f \in doubtful' => Goal
    BY DEF InUse
  <1> USE <1>f DEF AvatarsTypeOK, State, InUse, fileVars, reportVars, faultVars
  <1>1. ASSUME NEW h \in Requests, UploadAvatar(h) PROVE Goal
    BY <1>1 DEF UploadAvatar, Reported
  <1>2. ASSUME NEW h \in Requests, UploadFileToCloudinary(h) PROVE Goal
    BY <1>2 DEF UploadFileToCloudinary, Reported
  <1>3. ASSUME NEW h \in Requests, UploadFails(h) PROVE Goal
    BY <1>3 DEF UploadFails, Reported
  <1>4. ASSUME NEW h \in Requests, DeleteAvatar(h) PROVE Goal
    BY <1>4 DEF DeleteAvatar, Reported
  <1>5. ASSUME NEW h \in Requests, FindOld(h) PROVE Goal
    BY <1>5 DEF FindOld, Reported
  <1>6. ASSUME NEW h \in Requests, IsMediaInReport(h) PROVE Goal
    BY <1>6 DEF IsMediaInReport, Reported
  <1>7. ASSUME NEW h \in Requests, CommitAvatar(h) PROVE Goal
    <2>1. GivesUpOld(h)
      BY <1>7, CommittedAvatar
    <2>2. Reported(f)' = Reported(f)
      BY <1>7 DEF CommitAvatar, Reported
    <2>3. CASE f = avatar /\ f # request[h].old
      BY <1>7, <2>3 DEF CommitAvatar, Replaces, Misses
    <2>4. CASE f = request[h].old /\ request[h].keep
      BY <1>7, <2>2, <2>4 DEF CommitAvatar, Replaces, Misses
    <2>5. CASE f = request[h].old /\ ~request[h].keep
      <3>1. Holds(h, f)'
        BY <2>1, <2>5 DEF Ended, Over, Holds, Deletes, GivesUpOld
      <3> QED
        BY <3>1 DEF IsHeld
    <2> QED
      BY <2>2, <2>3, <2>4, <2>5
  <1>8. ASSUME NEW h \in Requests, AbortAvatar(h) PROVE Goal
    BY <1>8 DEF AbortAvatar, Reported
  <1>9. ASSUME NEW h \in Requests, DeleteOldFile(h) PROVE Goal
    BY <1>9 DEF DeleteOldFile, Reported
  <1>10. ASSUME NEW h \in Requests, Rollback(h) PROVE Goal
    BY <1>10 DEF Rollback, Reported
  <1>11. ASSUME NEW h \in Requests, Fails(h) PROVE Goal
    BY <1>11 DEF Fails, Reported
  <1>12. ASSUME NEW h \in Requests, CommitUnanswered(h) PROVE Goal
    <2>2. Reported(f)' = Reported(f)
      BY <1>12 DEF CommitUnanswered, Reported
    <2>3. CASE f = avatar /\ f # request[h].old
      BY <1>12, <2>3 DEF CommitUnanswered, Replaces, Misses
    <2>4. CASE f = request[h].old /\ request[h].keep
      BY <1>12, <2>2, <2>4 DEF CommitUnanswered, Replaces, Misses
    <2>5. CASE f = request[h].old
      BY <1>12, <2>5 DEF CommitUnanswered
    <2> QED
      BY <2>2, <2>3, <2>4, <2>5
  <1>13. ASSUME NEW h \in Requests, NEW r \in ReportIds, CreateReport(h, r) PROVE Goal
    BY <1>13 DEF CreateReport, Reported
  <1>14. ASSUME NEW h \in Requests, SaveReport(h) PROVE Goal
    <2>1. Ended(h, "idle", {})
      BY <1>14, Saved
    <2>2. PICK r \in request[h].reports: Saves(h, r)
      BY <1>14, Saved
    <2>3. /\ request[h].at = "report"
          /\ UNCHANGED <<avatar, media, stored, jobs, next, doubtful>>
      BY <1>14 DEF SaveReport, IsAt
    <2>4. Reported(f) => Reported(f)'
      <3>1. state[r] = "none"
        BY <2>2, <2>3 DEF ReportsAreHandledOnce, IsAt, Saves
      <3> QED
        BY <2>2, <3>1 DEF Reported, Saves
    <2> QED
      BY <2>3, <2>4
  <1>15. ASSUME NEW h \in Requests, NEW found \in SUBSET ReportIds,
                SweepReports(h, found)
        PROVE  Goal
    BY <1>15 DEF SweepReports, Reported
  <1>16. ASSUME NEW h \in Requests, IsStillUsing(h) PROVE Goal
    BY <1>16 DEF IsStillUsing, Reported
  <1>17. ASSUME NEW h \in Requests, IsUsedByActiveReport(h) PROVE Goal
    BY <1>17 DEF IsUsedByActiveReport, Reported
  <1>18. ASSUME NEW h \in Requests, DeleteSwept(h) PROVE Goal
    BY <1>18 DEF DeleteSwept, Reported
  <1>19. ASSUME NEW h \in Requests, NEW deleted \in SUBSET ReportIds,
                CommitSweep(h, deleted)
        PROVE  Goal
    <2>1. Strips(h, deleted)
      BY <1>19, Swept
    <2>2. /\ avatar' = avatar /\ stored' = stored /\ jobs' = jobs /\ next' = next
          /\ media' = media \ request[h].pictures /\ late' = late \ deleted
          /\ doubtful' = doubtful /\ deleted \subseteq request[h].reports
          /\ request[h].at = "sweep"
      BY <1>19 DEF CommitSweep, IsAt
    <2>3. CASE f = avatar
      BY <2>2, <2>3
    <2>4. CASE f \in request[h].pictures
      <3>1. Holds(h, f)'
        BY <2>1, <2>4 DEF Over, Holds, Deletes, Strips
      <3> QED
        BY <3>1 DEF IsHeld
    <2>5. ASSUME f # avatar, f \notin request[h].pictures PROVE Goal
      <3>1. PICK r \in ReportIds: state[r] # "none" /\ snapshot[r] = f
        BY <2>5 DEF Reported
      <3>2. CASE r \notin deleted
        BY <2>1, <2>5, <3>1, <3>2 DEF Reported, Strips
      <3>3. CASE r \in deleted
        <4>1. LeftOut(h, f)
          BY <2>2, <2>5, <3>1, <3>3 DEF SweepsAreComplete
        <4>2. CASE f \notin media
          <5>1. f \in jobs \/ f \in doubtful \/ IsHeld(f)
            BY <4>2 DEF FilesHaveDocuments
          <5>2. \/ IsHeld(f)' \/ f \in jobs' \/ f \in doubtful'
                \/ f = avatar' /\ f \in media'
            BY <5>1, FilesArePassedOn, HistoryGrows
          <5> QED
            BY <5>2
        <4>3. CASE f = request[h].seen
          BY <1>19, <2>5, <3>1, <3>3, <4>3 DEF CommitSweep
        <4>4. CASE \E q \in ReportIds \ request[h].reports:
                     state[q] # "none" /\ snapshot[q] = f
          <5>1. PICK q \in ReportIds \ request[h].reports:
                       state[q] # "none" /\ snapshot[q] = f
            BY <4>4
          <5>2. state'[q] = state[q] /\ snapshot'[q] = snapshot[q]
            BY <2>1, <2>2, <5>1 DEF Strips
          <5> QED
            BY <5>1, <5>2 DEF Reported
        <4> QED
          BY <2>2, <4>1, <4>2, <4>3, <4>4 DEF LeftOut
      <3> QED
        BY <3>2, <3>3
    <2> QED
      BY <2>3, <2>4, <2>5
  <1>20. ASSUME NEW r \in ReportIds, NEW reset \in BOOLEAN, Decide(r, reset) PROVE Goal
    <2>1. Reported(f) => Reported(f)'
      BY <1>20 DEF Decide, Reported
    <2>2. CASE f = avatar /\ f # avatar' /\ ~Reported(f)
      BY <1>20, <2>2 DEF Decide
    <2> QED
      BY <2>1, <2>2
  <1>21. ASSUME NEW c \in Files, CleanUp(c) PROVE Goal
    BY <1>21 DEF CleanUp, Reported
  <1> HIDE DEF Goal, AvatarsTypeOK, State, InUse, fileVars, reportVars, faultVars
  <1> QED
    BY <1>1, <1>2, <1>3, <1>4, <1>5, <1>6, <1>7, <1>8, <1>9, <1>10, <1>11, <1>12,
       <1>13, <1>14, <1>15, <1>16, <1>17, <1>18, <1>19, <1>20, <1>21 DEF AvatarsNext,
       Avatar, Report

\* No step leaves a file that nothing will delete, but what is lost or doubtful.
LEMMA NoFileIsLeft ==
  ASSUME AvatarsTypeOK, FilesAreNew, UploadsAreOwn, ReportsAreHandledOnce,
         SweepsAreComplete, FilesHaveDocuments, NoFileIsLeftOver, AvatarsNext
  PROVE  NoFileIsLeftOver'
  <1> SUFFICES ASSUME NEW f \in stored'
               PROVE  InUse(f)' \/ f \in lost' \/ f \in doubtful'
    BY DEF NoFileIsLeftOver
  <1>1. CASE f \notin stored
    BY <1>1, FilesComeAndGoInHand DEF InUse
  <1>2. CASE f \in stored
    <2>1. InUse(f) \/ f \in lost \/ f \in doubtful
      BY <1>2 DEF NoFileIsLeftOver
    <2>2. CASE f \in lost \/ f \in doubtful
      BY <2>2, HistoryGrows
    <2>3. CASE IsHeld(f) \/ f \in jobs
      BY <1>2, <2>3, FilesArePassedOn DEF InUse
    <2>4. CASE f = avatar \/ Reported(f)
      BY <1>2, <2>4, WhatIsLeftIsKnown
    <2> QED
      BY <2>1, <2>2, <2>3, <2>4 DEF InUse
  <1> QED
    BY <1>1, <1>2

\* The picture in use has its file and its document, for any number of requests
\* that replace it, of reports and of nightly jobs after one another.
THEOREM PicturesHold == AvatarsSpec => []AvatarsInv
  <1>1. AvatarsInit => AvatarsInv
    <2> SUFFICES ASSUME AvatarsInit PROVE AvatarsInv
      OBVIOUS
    <2>1. /\ \A h \in Requests: request[h] = NoRequest
          /\ NoRequest.at = "idle" /\ NoRequest.file = 0 /\ NoRequest.old = 0
          /\ NoRequest.keep = FALSE /\ NoRequest.reports = {} /\ NoRequest.pictures = {}
      BY DEF AvatarsInit, NoRequest
    <2>2. AvatarsTypeOK
      BY FilesAreNumbered, NoneIsARequest, BoundsAssumption DEF AvatarsInit, AvatarsTypeOK
    <2>3. FilesAreNew /\ UploadsAreOwn
      BY <2>1 DEF AvatarsInit, FilesAreNew, UploadsAreOwn
    <2>4. AvatarIsSpared /\ ReportsAreHandledOnce /\ KeptIsAPicture
      BY <2>1 DEF AvatarsInit, AvatarIsSpared, ReportsAreHandledOnce, KeptIsAPicture,
                  Deletes, Sweeps, IsAt
    <2>5. EvidenceIsSpared /\ SweepsAreComplete /\ FilesHaveDocuments
      BY <2>1 DEF AvatarsInit, EvidenceIsSpared, SweepsAreComplete, FilesHaveDocuments, IsAt
    <2>6. AvatarIsServed /\ EvidenceIsKept /\ NoFileIsLeftOver
      BY DEF AvatarsInit, AvatarIsServed, EvidenceIsKept, NoFileIsLeftOver
    <2> QED
      BY <2>2, <2>3, <2>4, <2>5, <2>6 DEF AvatarsInv
  <1>2. AvatarsInv /\ [AvatarsNext]_avatarsVars => AvatarsInv'
    <2>1. ASSUME AvatarsInv, AvatarsNext PROVE AvatarsInv'
      BY <2>1, AvatarsTypeStays, KeptStaysAPicture, FilesStayNew, UploadsStayOwn,
         AvatarStaysSpared, ReportsStayHandledOnce, EvidenceStaysSpared, SweepsStayComplete,
         AvatarStaysServed, EvidenceStays, FilesKeepDocuments, NoFileIsLeft
         DEF AvatarsInv
    <2>2. ASSUME AvatarsInv, UNCHANGED avatarsVars PROVE AvatarsInv'
      <3> USE <2>2 DEF AvatarsInv, avatarsVars, fileVars, reportVars, faultVars
      <3>1. AvatarsTypeOK' /\ FilesAreNew' /\ UploadsAreOwn' /\ KeptIsAPicture'
        BY DEF AvatarsTypeOK, FilesAreNew, UploadsAreOwn, KeptIsAPicture, IsAt
      <3>2. AvatarIsSpared' /\ ReportsAreHandledOnce' /\ EvidenceIsSpared'
        BY DEF AvatarIsSpared, ReportsAreHandledOnce, EvidenceIsSpared, Deletes, Sweeps,
            IsAt
      <3>3. SweepsAreComplete'
        BY DEF SweepsAreComplete, LeftOut, IsAt
      <3>4. FilesHaveDocuments' /\ NoFileIsLeftOver'
        BY DEF FilesHaveDocuments, NoFileIsLeftOver, InUse, Reported, IsHeld, Holds, Deletes
      <3>5. AvatarIsServed' /\ EvidenceIsKept'
        BY DEF AvatarIsServed, EvidenceIsKept
      <3> QED
        BY <3>1, <3>2, <3>3, <3>4, <3>5
    <2> QED
      BY <2>1, <2>2
  <1> QED
    BY <1>1, <1>2, PTL DEF AvatarsSpec

\* A report keeps the picture it was made about, unless that was being replaced
\* when the report came.
THEOREM Evidence == AvatarsSpec => []EvidenceIsKept
  <1>1. AvatarsInv => EvidenceIsKept
    BY DEF AvatarsInv
  <1> QED
    BY <1>1, PicturesHold, PTL

\* Every file is in use or about to be deleted, but for the races that are named.
THEOREM NoFileIsForgotten == AvatarsSpec => []NoFileIsLeftOver
  <1>1. AvatarsInv => NoFileIsLeftOver
    BY DEF AvatarsInv
  <1> QED
    BY <1>1, PicturesHold, PTL
=============================================================================
