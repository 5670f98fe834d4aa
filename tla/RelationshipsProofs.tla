------------------------- MODULE RelationshipsProofs -------------------------
(***************************************************************************)
(* For any number of requests in flight, relationships and conversations   *)
(* of the pair: a block is not undone by what was on its way, and nobody   *)
(* reaches the other person by a request during which the two were blocked *)
(* all along.                                                              *)
(*                                                                         *)
(* The second part needs that a request at a stop from which it reaches    *)
(* the other has seen a moment without a block (RequestsKnow): the moment  *)
(* of its own check.                                                       *)
(***************************************************************************)
EXTENDS Relationships, TLAPS

(***************************************************************************)
(* Type correctness.  What a request writes to it found at an earlier stop.*)
(***************************************************************************)
RunOK == run \in [Handlers -> State]

LEMMA GoesTyped ==
  ASSUME RunOK, NEW h \in Handlers, NEW stop \in Stops, Goes(h, stop)
  PROVE  RunOK'
  BY DEF RunOK, Goes, State

LEMMA ReturnsTyped ==
  ASSUME RunOK, NEW h \in Handlers, Returns(h)
  PROVE  RunOK'
  BY DEF RunOK, Returns, State, Idle, Operations

LEMMA EndsTyped ==
  ASSUME RunOK, NEW h \in Handlers, Ends(h)
  PROVE  RunOK'
  <1>1. CASE run[h].op = "blockAndDelete"
    BY <1>1 DEF RunOK, Ends, State, Stops
  <1>2. CASE run[h].op # "blockAndDelete"
    BY <1>2, ReturnsTyped DEF Ends
  <1> QED
    BY <1>1, <1>2

LEMMA FailsOrEndsTyped ==
  ASSUME RunOK, NEW h \in Handlers, FailsOrEnds(h)
  PROVE  RunOK'
  BY ReturnsTyped, EndsTyped DEF FailsOrEnds

LEMMA HasConversationTyped ==
  ASSUME RunOK, NEW h \in Handlers, NEW c \in Convs, HasConversation(h, c)
  PROVE  RunOK'
  <1>1. CASE run[h].op = "talk"
    BY <1>1, ReturnsTyped DEF HasConversation
  <1>2. CASE run[h].op # "talk"
    BY <1>2 DEF RunOK, HasConversation, State, Stops, Reaching
  <1> QED
    BY <1>1, <1>2

LEMMA StoredAreDocs == Stored \subseteq Docs
  BY DEF Stored

LEMMA RunIsTyped ==
  ASSUME TypeOK, RequestsKnow, [Next]_vars
  PROVE  RunOK'
  <2> USE DEF Throws
  <2>0. RunOK
    BY DEF RunOK, TypeOK
  <2>1. ASSUME NEW h \in Handlers, NEW p \in People, Create(h, p)
       PROVE  RunOK'
    BY <2>0, <2>1, RequestsAssumption
       DEF Create, Begins, RunOK, State, Stops, Reaching
  <2>2. ASSUME NEW h \in Handlers, NEW p \in People, CreateConversation(h, p)
       PROVE  RunOK'
    BY <2>0, <2>2, RequestsAssumption
       DEF CreateConversation, Begins, RunOK, State, Stops, Reaching
  <2>3. ASSUME NEW h \in Handlers, NEW p \in People, BlockUser(h, p)
       PROVE  RunOK'
    BY <2>0, <2>3, RequestsAssumption
       DEF BlockUser, Begins, RunOK, State, Stops, Reaching
  <2>4. ASSUME NEW h \in Handlers, NEW p \in People, NEW d \in Docs,
                Accept(h, p, d)
       PROVE  RunOK'
    BY <2>0, <2>4, RequestsAssumption
       DEF Accept, Begins, RunOK, State, Stops, Reaching
  <2>5. ASSUME NEW h \in Handlers, NEW p \in People, NEW c \in Convs,
                BlockAndDelete(h, p, c)
       PROVE  RunOK'
    BY <2>0, <2>5, RequestsAssumption
       DEF BlockAndDelete, Begins, RunOK, State, Stops, Reaching
  <2>6. ASSUME NEW h \in Handlers, NEW p \in People, NEW c \in Convs,
                HideHistory(h, p, c)
       PROVE  RunOK'
    BY <2>0, <2>6, RequestsAssumption
       DEF HideHistory, Begins, RunOK, State, Stops, Reaching
  <2>7. ASSUME NEW h \in Handlers, NEW p \in People, NEW c \in Convs,
                CreateMessage(h, p, c)
       PROVE  RunOK'
    BY <2>0, <2>7, RequestsAssumption
       DEF CreateMessage, Begins, RunOK, State, Stops, Reaching
  <2>8. ASSUME NEW h \in Handlers, GetPendingRelationshipOrNull(h)
       PROVE  RunOK'
    <3>1. CASE Goes(h, "insert")
      BY <2>0, <3>1, GoesTyped DEF Stops
    <3>2. CASE Returns(h)
      BY <2>0, <3>2, ReturnsTyped
    <3>3. ASSUME NEW d \in Docs,
                 run' = [run EXCEPT ![h].at = "seek", ![h].doc = d]
         PROVE  RunOK'
      <4> DEFINE r == [run[h] EXCEPT !.at = "seek", !.doc = d]
      <4>r1. run' = [run EXCEPT ![h] = r]
        BY <2>0, <3>3 DEF RunOK, State
      <4>r2. r \in State
        BY <2>0, <3>3, ZenonT(40) DEF RunOK, State, Stops
      <4> HIDE DEF r
      <4> QED
        BY <2>0, <4>r1, <4>r2 DEF RunOK
    <3>4. ASSUME NEW d \in Docs,
                 IF status[d] = "pending" /\ requester[d] # run[h].user
                 THEN run' = [run EXCEPT ![h].at = "seek", ![h].doc = d]
                 ELSE Returns(h)
         PROVE  RunOK'
      BY <3>2, <3>3, <3>4
    <3> QED
      BY <2>8, <3>1, <3>4, StoredAreDocs DEF GetPendingRelationshipOrNull
  <2>9. ASSUME NEW h \in Handlers, Insert(h)
       PROVE  RunOK'
    BY <2>0, <2>9, GoesTyped, ReturnsTyped, EndsTyped, FailsOrEndsTyped,
       HasConversationTyped
       DEF Insert, Stops, Reaching
  <2>10. ASSUME NEW h \in Handlers, SeekPending(h)
       PROVE  RunOK'
    BY <2>0, <2>10, GoesTyped, ReturnsTyped, EndsTyped, FailsOrEndsTyped,
       HasConversationTyped
       DEF SeekPending, Stops, Reaching
  <2>11. ASSUME NEW h \in Handlers, SetAccepted(h)
       PROVE  RunOK'
    <3>1. CASE run' = [run EXCEPT ![h].at = "filter", ![h].doc = NoDoc]
      <4> DEFINE r == [run[h] EXCEPT !.at = "filter", !.doc = NoDoc]
      <4>r1. run' = [run EXCEPT ![h] = r]
        BY <2>0, <3>1 DEF RunOK, State
      <4>r2. r \in State
        BY <2>0, <3>1, ZenonT(40) DEF RunOK, State, Stops
      <4> HIDE DEF r
      <4> QED
        BY <2>0, <4>r1, <4>r2 DEF RunOK
    <3> QED
      BY <2>0, <2>11, <3>1, ReturnsTyped DEF SetAccepted
  <2>12. ASSUME NEW h \in Handlers, Welcome(h)
       PROVE  RunOK'
    BY <2>0, <2>12, GoesTyped, ReturnsTyped, EndsTyped, FailsOrEndsTyped,
       HasConversationTyped
       DEF Welcome, Stops, Reaching
  <2>13. ASSUME NEW h \in Handlers, FilterBlocked(h)
       PROVE  RunOK'
    BY <2>0, <2>13, GoesTyped, ReturnsTyped, EndsTyped, FailsOrEndsTyped,
       HasConversationTyped
       DEF FilterBlocked, Stops, Reaching
  <2>14. ASSUME NEW h \in Handlers, FindExisting(h)
       PROVE  RunOK'
    <3>1. ASSUME NEW c \in Convs,
                 run' = [run EXCEPT ![h].at = "unhide", ![h].conv = c]
         PROVE  RunOK'
      <4> DEFINE r == [run[h] EXCEPT !.at = "unhide", !.conv = c]
      <4>r1. run' = [run EXCEPT ![h] = r]
        BY <2>0, <3>1 DEF RunOK, State
      <4>r2. r \in State
        BY <2>0, <3>1, ZenonT(40) DEF RunOK, State, Stops, Reaching
      <4> HIDE DEF r
      <4> QED
        BY <2>0, <4>r1, <4>r2 DEF RunOK
    <3> QED
      BY <2>0, <2>14, <3>1, GoesTyped, HasConversationTyped
         DEF FindExisting, Stops, Reaching, TypeOK
  <2>15. ASSUME NEW h \in Handlers, Unhide(h)
       PROVE  RunOK'
    BY <2>0, <2>15, HasConversationTyped
       DEF Unhide, RequestsKnow, Knows, IsAt, TypeOK
  <2>16. ASSUME NEW h \in Handlers, Open(h)
       PROVE  RunOK'
    BY <2>0, <2>16, GoesTyped, ReturnsTyped, EndsTyped, FailsOrEndsTyped,
       HasConversationTyped
       DEF Open, Stops, Reaching
  <2>17. ASSUME NEW h \in Handlers, CheckIsBlocked(h)
       PROVE  RunOK'
    BY <2>0, <2>17, GoesTyped, ReturnsTyped, EndsTyped, FailsOrEndsTyped,
       HasConversationTyped
       DEF CheckIsBlocked, Stops, Reaching
  <2>18. ASSUME NEW h \in Handlers, Send(h)
       PROVE  RunOK'
    BY <2>0, <2>18, GoesTyped, ReturnsTyped, EndsTyped, FailsOrEndsTyped,
       HasConversationTyped
       DEF Send, Stops, Reaching
  <2>19. ASSUME NEW h \in Handlers, FindRelationship(h)
       PROVE  RunOK'
    <3>1. ASSUME NEW d \in Docs, NEW s \in {"update", "hideRead"},
                 status[d] \in {"pending", "accepted"},
                 run' = [run EXCEPT ![h].at = s, ![h].doc = d,
                                    ![h].read = status[d]]
         PROVE  RunOK'
      <4> DEFINE r == [run[h] EXCEPT !.at = s, !.doc = d, !.read = status[d]]
      <4>r1. run' = [run EXCEPT ![h] = r]
        BY <2>0, <3>1 DEF RunOK, State
      <4>r2. r \in State
        BY <2>0, <3>1, ZenonT(40) DEF RunOK, State, Stops
      <4> HIDE DEF r
      <4> QED
        BY <2>0, <4>r1, <4>r2 DEF RunOK
    <3>2. CASE Goes(h, "check") \/ Returns(h)
      BY <2>0, <3>2, GoesTyped, ReturnsTyped DEF Stops
    <3>3. ASSUME NEW d \in Stored, status[d] # "blocked",
                 run' = [run EXCEPT
                    ![h].at = IF run[h].op = "blockAndDelete" THEN "hideRead"
                              ELSE "update",
                    ![h].doc = d, ![h].read = status[d]]
         PROVE  RunOK'
      <4>1. CASE run[h].op = "blockAndDelete"
        BY <3>1, <3>3, <4>1 DEF Stored
      <4>2. CASE run[h].op # "blockAndDelete"
        BY <3>1, <3>3, <4>2 DEF Stored
      <4> QED
        BY <4>1, <4>2
    <3> QED
      BY <2>19, <3>2, <3>3 DEF FindRelationship
  <2>20. ASSUME NEW h \in Handlers, UpdateBlocked(h)
       PROVE  RunOK'
    BY <2>0, <2>20, GoesTyped, ReturnsTyped, EndsTyped, FailsOrEndsTyped,
       HasConversationTyped
       DEF UpdateBlocked, Stops, Reaching
  <2>21. ASSUME NEW h \in Handlers, ReadHistory(h)
       PROVE  RunOK'
    <3>1. history[run[h].conv][run[h].user] \in {"none", "shown", "hidden"}
      BY <2>21 DEF ReadHistory, RequestsKnow, Knows, IsAt, TypeOK
    <3>2. ASSUME NEW s \in {"hideWrite", "commit"}, NEW e \in {"none", "shown"},
                 run' = [run EXCEPT ![h].at = s, ![h].entry = e]
         PROVE  RunOK'
      <4> DEFINE r == [run[h] EXCEPT !.at = s, !.entry = e]
      <4>r1. run' = [run EXCEPT ![h] = r]
        BY <2>0, <3>2 DEF RunOK, State
      <4>r2. r \in State
        BY <2>0, <3>2, ZenonT(40) DEF RunOK, State, Stops
      <4> HIDE DEF r
      <4> QED
        BY <2>0, <4>r1, <4>r2 DEF RunOK
    <3> DEFINE entry == history[run[h].conv][run[h].user]
    <3>3. CASE entry = "hidden"
      BY <2>0, <2>21, <3>3, ReturnsTyped DEF ReadHistory
    <3>4. CASE entry # "hidden" /\ run[h].op = "blockAndDelete"
      BY <2>21, <3>1, <3>2, <3>4 DEF ReadHistory
    <3>5. CASE entry # "hidden" /\ run[h].op # "blockAndDelete"
      BY <2>21, <3>1, <3>2, <3>5 DEF ReadHistory
    <3> QED
      BY <3>3, <3>4, <3>5
  <2>22. ASSUME NEW h \in Handlers, WriteHistory(h)
       PROVE  RunOK'
    BY <2>0, <2>22, GoesTyped, ReturnsTyped, EndsTyped, FailsOrEndsTyped,
       HasConversationTyped
       DEF WriteHistory, Stops, Reaching
  <2>23. ASSUME NEW h \in Handlers, Commit(h)
       PROVE  RunOK'
    <3>1. CASE run' = [run EXCEPT ![h].at = "find", ![h].doc = NoDoc]
      <4> DEFINE r == [run[h] EXCEPT !.at = "find", !.doc = NoDoc]
      <4>r1. run' = [run EXCEPT ![h] = r]
        BY <2>0, <3>1 DEF RunOK, State
      <4>r2. r \in State
        BY <2>0, <3>1, ZenonT(40) DEF RunOK, State, Stops
      <4> HIDE DEF r
      <4> QED
        BY <2>0, <4>r1, <4>r2 DEF RunOK
    <3> QED
      BY <2>0, <2>23, <3>1, ReturnsTyped DEF Commit
  <2>24. ASSUME NEW h \in Handlers, Fails(h)
       PROVE  RunOK'
    BY <2>0, <2>24, GoesTyped, ReturnsTyped, EndsTyped, FailsOrEndsTyped,
       HasConversationTyped
       DEF Fails, Stops, Reaching
  <2>25. ASSUME NEW d \in Docs, RejectOrRemove(d)
       PROVE  RunOK'
    BY <2>0, <2>25 DEF RejectOrRemove, DeleteOne, RunOK
  <2>26. ASSUME NEW d \in Docs, Unfriend(d)
       PROVE  RunOK'
    BY <2>0, <2>26 DEF Unfriend, DeleteOne, RunOK
  <2>27. ASSUME NEW p \in People, NEW d \in Docs, UnblockUser(p, d)
       PROVE  RunOK'
    BY <2>0, <2>27 DEF UnblockUser, RunOK
  <2>28. CASE UNCHANGED vars
    BY <2>0, <2>28 DEF vars, RunOK
  <2> QED
    BY <2>1, <2>2, <2>3, <2>4, <2>5, <2>6, <2>7, <2>8, <2>9, <2>10,
       <2>11, <2>12, <2>13, <2>14, <2>15, <2>16, <2>17, <2>18,
       <2>19, <2>20, <2>21, <2>22, <2>23, <2>24, <2>25, <2>26,
       <2>27, <2>28
       DEF Next, Act, Request, Progress

LEMMA TypeIsInductive ==
  ASSUME TypeOK, RequestsKnow, [Next]_vars
  PROVE  TypeOK'
  <1> DEFINE Docs_ == /\ status \in
                          [Docs -> {"free", "pending", "accepted", "blocked",
                                    "gone"}]
                     /\ requester \in [Docs -> People \union {Nobody}]
                     /\ blockedBy \in [Docs -> People \union {Nobody}]
             Convs_ == /\ open \subseteq Convs
                      /\ history \in
                           [Convs -> [People -> {"none", "shown", "hidden"}]]
  <1>1. clear' \in [Handlers -> BOOLEAN]
    BY DEF Next, Remembers, TypeOK, vars
  <1>2. Docs_ /\ Convs_ /\ RequestsKnow
    BY DEF TypeOK
  <1>3. Docs_' /\ Convs_'
  <2> USE DEF RequestsKnow, Knows, docVars, convVars
  <2>1. ASSUME NEW h \in Handlers, NEW p \in People, Create(h, p)
       PROVE  Docs_' /\ Convs_'
    BY <1>2, <2>1 DEF Create, Begins
  <2>2. ASSUME NEW h \in Handlers, NEW p \in People, CreateConversation(h, p)
       PROVE  Docs_' /\ Convs_'
    BY <1>2, <2>2 DEF CreateConversation, Begins
  <2>3. ASSUME NEW h \in Handlers, NEW p \in People, BlockUser(h, p)
       PROVE  Docs_' /\ Convs_'
    BY <1>2, <2>3 DEF BlockUser, Begins
  <2>4. ASSUME NEW h \in Handlers, NEW p \in People, NEW d \in Docs,
                Accept(h, p, d)
       PROVE  Docs_' /\ Convs_'
    BY <1>2, <2>4 DEF Accept, Begins
  <2>5. ASSUME NEW h \in Handlers, NEW p \in People, NEW c \in Convs,
                BlockAndDelete(h, p, c)
       PROVE  Docs_' /\ Convs_'
    BY <1>2, <2>5 DEF BlockAndDelete, Begins
  <2>6. ASSUME NEW h \in Handlers, NEW p \in People, NEW c \in Convs,
                HideHistory(h, p, c)
       PROVE  Docs_' /\ Convs_'
    BY <1>2, <2>6 DEF HideHistory, Begins
  <2>7. ASSUME NEW h \in Handlers, NEW p \in People, NEW c \in Convs,
                CreateMessage(h, p, c)
       PROVE  Docs_' /\ Convs_'
    BY <1>2, <2>7 DEF CreateMessage, Begins
  <2>8. ASSUME NEW h \in Handlers, GetPendingRelationshipOrNull(h)
       PROVE  Docs_' /\ Convs_'
    BY <1>2, <2>8 DEF GetPendingRelationshipOrNull
  <2>9. ASSUME NEW h \in Handlers, Insert(h)
       PROVE  Docs_' /\ Convs_'
    BY <1>2, <2>9 DEF Insert, Throws, IsAt
  <2>10. ASSUME NEW h \in Handlers, SeekPending(h)
       PROVE  Docs_' /\ Convs_'
    BY <1>2, <2>10 DEF SeekPending
  <2>11. ASSUME NEW h \in Handlers, SetAccepted(h)
       PROVE  Docs_' /\ Convs_'
    BY <1>2, <2>11 DEF SetAccepted, Set, Throws, IsAt
  <2>12. ASSUME NEW h \in Handlers, Welcome(h)
       PROVE  Docs_' /\ Convs_'
    BY <1>2, <2>12 DEF Welcome, Restored, IsAt
  <2>13. ASSUME NEW h \in Handlers, FilterBlocked(h)
       PROVE  Docs_' /\ Convs_'
    BY <1>2, <2>13 DEF FilterBlocked
  <2>14. ASSUME NEW h \in Handlers, FindExisting(h)
       PROVE  Docs_' /\ Convs_'
    BY <1>2, <2>14 DEF FindExisting
  <2>15. ASSUME NEW h \in Handlers, Unhide(h)
       PROVE  Docs_' /\ Convs_'
    BY <1>2, <2>15 DEF Unhide, IsAt
  <2>16. ASSUME NEW h \in Handlers, Open(h)
       PROVE  Docs_' /\ Convs_'
    BY <1>2, <2>16 DEF Open, IsAt
  <2>17. ASSUME NEW h \in Handlers, CheckIsBlocked(h)
       PROVE  Docs_' /\ Convs_'
    BY <1>2, <2>17 DEF CheckIsBlocked
  <2>18. ASSUME NEW h \in Handlers, Send(h)
       PROVE  Docs_' /\ Convs_'
    BY <1>2, <2>18 DEF Send, Restored, IsAt
  <2>19. ASSUME NEW h \in Handlers, FindRelationship(h)
       PROVE  Docs_' /\ Convs_'
    BY <1>2, <2>19 DEF FindRelationship
  <2>20. ASSUME NEW h \in Handlers, UpdateBlocked(h)
       PROVE  Docs_' /\ Convs_'
    BY <1>2, <2>20 DEF UpdateBlocked, Set, IsAt, Stored
  <2>21. ASSUME NEW h \in Handlers, ReadHistory(h)
       PROVE  Docs_' /\ Convs_'
    BY <1>2, <2>21 DEF ReadHistory
  <2>22. ASSUME NEW h \in Handlers, WriteHistory(h)
       PROVE  Docs_' /\ Convs_'
    BY <1>2, <2>22 DEF WriteHistory, Hides, IsAt
  <2>23. ASSUME NEW h \in Handlers, Commit(h)
       PROVE  Docs_' /\ Convs_'
    <3>1. run[h].user \in People /\ run[h].conv \in open
      BY <1>2, <2>23 DEF Commit, IsAt
    <3>2. Convs_'
      BY <1>2, <3>1, <2>23 DEF Commit, Throws, Hides
    <3>3. Docs_'
      BY <1>2, <3>1, <2>23 DEF Commit, Throws
    <3> QED
      BY <3>2, <3>3
  <2>24. ASSUME NEW h \in Handlers, Fails(h)
       PROVE  Docs_' /\ Convs_'
    BY <1>2, <2>24 DEF Fails
  <2>25. ASSUME NEW d \in Docs, RejectOrRemove(d)
       PROVE  Docs_' /\ Convs_'
    BY <1>2, <2>25 DEF RejectOrRemove, DeleteOne, Set
  <2>26. ASSUME NEW d \in Docs, Unfriend(d)
       PROVE  Docs_' /\ Convs_'
    BY <1>2, <2>26 DEF Unfriend, DeleteOne, Set
  <2>27. ASSUME NEW p \in People, NEW d \in Docs, UnblockUser(p, d)
       PROVE  Docs_' /\ Convs_'
    BY <1>2, <2>27 DEF UnblockUser, Set
  <2>28. CASE UNCHANGED vars
    BY <1>2, <2>28 DEF vars, docVars, convVars
  <2> QED
    BY <2>1, <2>2, <2>3, <2>4, <2>5, <2>6, <2>7, <2>8, <2>9, <2>10,
       <2>11, <2>12, <2>13, <2>14, <2>15, <2>16, <2>17, <2>18,
       <2>19, <2>20, <2>21, <2>22, <2>23, <2>24, <2>25, <2>26,
       <2>27, <2>28
       DEF Next, Act, Request, Progress
  <1> QED
    BY <1>1, <1>3, RunIsTyped DEF TypeOK, RunOK

(***************************************************************************)
(* The documents: who blocked is known, and each requester has one.        *)
(***************************************************************************)
LEMMA DocumentsStayWell ==
  ASSUME TypeOK, BlockedBySomebody, OnePerRequester, RequestsKnow,
         [Next]_vars
  PROVE  BlockedBySomebody' /\ OnePerRequester'
  <2> USE NamesAssumption
      DEF TypeOK, BlockedBySomebody, OnePerRequester, Stored, docVars, convVars
  <2>1. ASSUME NEW h \in Handlers, NEW p \in People, Create(h, p)
       PROVE  BlockedBySomebody' /\ OnePerRequester'
    BY <2>1 DEF Create, Begins
  <2>2. ASSUME NEW h \in Handlers, NEW p \in People, CreateConversation(h, p)
       PROVE  BlockedBySomebody' /\ OnePerRequester'
    BY <2>2 DEF CreateConversation, Begins
  <2>3. ASSUME NEW h \in Handlers, NEW p \in People, BlockUser(h, p)
       PROVE  BlockedBySomebody' /\ OnePerRequester'
    BY <2>3 DEF BlockUser, Begins
  <2>4. ASSUME NEW h \in Handlers, NEW p \in People, NEW d \in Docs,
                Accept(h, p, d)
       PROVE  BlockedBySomebody' /\ OnePerRequester'
    BY <2>4 DEF Accept, Begins
  <2>5. ASSUME NEW h \in Handlers, NEW p \in People, NEW c \in Convs,
                BlockAndDelete(h, p, c)
       PROVE  BlockedBySomebody' /\ OnePerRequester'
    BY <2>5 DEF BlockAndDelete, Begins
  <2>6. ASSUME NEW h \in Handlers, NEW p \in People, NEW c \in Convs,
                HideHistory(h, p, c)
       PROVE  BlockedBySomebody' /\ OnePerRequester'
    BY <2>6 DEF HideHistory, Begins
  <2>7. ASSUME NEW h \in Handlers, NEW p \in People, NEW c \in Convs,
                CreateMessage(h, p, c)
       PROVE  BlockedBySomebody' /\ OnePerRequester'
    BY <2>7 DEF CreateMessage, Begins
  <2>8. ASSUME NEW h \in Handlers, GetPendingRelationshipOrNull(h)
       PROVE  BlockedBySomebody' /\ OnePerRequester'
    BY <2>8 DEF GetPendingRelationshipOrNull
  <2>9. ASSUME NEW h \in Handlers, Insert(h)
       PROVE  BlockedBySomebody' /\ OnePerRequester'
    BY <2>9 DEF Insert, Throws, IsAt, RequestsKnow, Knows
  <2>10. ASSUME NEW h \in Handlers, SeekPending(h)
       PROVE  BlockedBySomebody' /\ OnePerRequester'
    BY <2>10 DEF SeekPending
  <2>11. ASSUME NEW h \in Handlers, SetAccepted(h)
       PROVE  BlockedBySomebody' /\ OnePerRequester'
    BY <2>11 DEF SetAccepted, Throws, IsAt, Set, RequestsKnow, Knows
  <2>12. ASSUME NEW h \in Handlers, Welcome(h)
       PROVE  BlockedBySomebody' /\ OnePerRequester'
    BY <2>12 DEF Welcome, Restored, IsAt
  <2>13. ASSUME NEW h \in Handlers, FilterBlocked(h)
       PROVE  BlockedBySomebody' /\ OnePerRequester'
    BY <2>13 DEF FilterBlocked
  <2>14. ASSUME NEW h \in Handlers, FindExisting(h)
       PROVE  BlockedBySomebody' /\ OnePerRequester'
    BY <2>14 DEF FindExisting
  <2>15. ASSUME NEW h \in Handlers, Unhide(h)
       PROVE  BlockedBySomebody' /\ OnePerRequester'
    BY <2>15 DEF Unhide, IsAt
  <2>16. ASSUME NEW h \in Handlers, Open(h)
       PROVE  BlockedBySomebody' /\ OnePerRequester'
    BY <2>16 DEF Open, IsAt
  <2>17. ASSUME NEW h \in Handlers, CheckIsBlocked(h)
       PROVE  BlockedBySomebody' /\ OnePerRequester'
    BY <2>17 DEF CheckIsBlocked
  <2>18. ASSUME NEW h \in Handlers, Send(h)
       PROVE  BlockedBySomebody' /\ OnePerRequester'
    BY <2>18 DEF Send, Restored, IsAt
  <2>19. ASSUME NEW h \in Handlers, FindRelationship(h)
       PROVE  BlockedBySomebody' /\ OnePerRequester'
    BY <2>19 DEF FindRelationship
  <2>20. ASSUME NEW h \in Handlers, UpdateBlocked(h)
       PROVE  BlockedBySomebody' /\ OnePerRequester'
    BY <2>20 DEF UpdateBlocked, IsAt, Set, RequestsKnow, Knows
  <2>21. ASSUME NEW h \in Handlers, ReadHistory(h)
       PROVE  BlockedBySomebody' /\ OnePerRequester'
    BY <2>21 DEF ReadHistory
  <2>22. ASSUME NEW h \in Handlers, WriteHistory(h)
       PROVE  BlockedBySomebody' /\ OnePerRequester'
    BY <2>22 DEF WriteHistory, Hides, IsAt
  <2>23. ASSUME NEW h \in Handlers, Commit(h)
       PROVE  BlockedBySomebody' /\ OnePerRequester'
    <3>1. run[h].user \in People
      BY <2>23 DEF Commit, IsAt, RequestsKnow, Knows
    <3>2. CASE UNCHANGED docVars
      BY <3>2
    <3>3. ASSUME run[h].doc \in Docs,
                 status' = [status EXCEPT ![run[h].doc] = "blocked"],
                 blockedBy' = [blockedBy EXCEPT ![run[h].doc] = run[h].user],
                 status[run[h].doc] \in {"pending", "accepted"},
                 UNCHANGED requester
         PROVE  BlockedBySomebody' /\ OnePerRequester'
      BY <3>1, <3>3
    <3>4. run[h].doc \in Docs /\ status[run[h].doc] = run[h].read
            => status[run[h].doc] \in {"pending", "accepted"}
      BY DEF State
    <3> QED
      BY <2>23, <3>2, <3>3, <3>4 DEF Commit, Throws, State
  <2>24. ASSUME NEW h \in Handlers, Fails(h)
       PROVE  BlockedBySomebody' /\ OnePerRequester'
    BY <2>24 DEF Fails
  <2>25. ASSUME NEW d \in Docs, RejectOrRemove(d)
       PROVE  BlockedBySomebody' /\ OnePerRequester'
    BY <2>25 DEF RejectOrRemove, DeleteOne, Set
  <2>26. ASSUME NEW d \in Docs, Unfriend(d)
       PROVE  BlockedBySomebody' /\ OnePerRequester'
    BY <2>26 DEF Unfriend, DeleteOne, Set
  <2>27. ASSUME NEW p \in People, NEW d \in Docs, UnblockUser(p, d)
       PROVE  BlockedBySomebody' /\ OnePerRequester'
    BY <2>27 DEF UnblockUser, Set
  <2>28. CASE UNCHANGED vars
    BY <2>28 DEF vars, docVars, convVars
  <2> QED
    BY <2>1, <2>2, <2>3, <2>4, <2>5, <2>6, <2>7, <2>8, <2>9, <2>10,
       <2>11, <2>12, <2>13, <2>14, <2>15, <2>16, <2>17, <2>18,
       <2>19, <2>20, <2>21, <2>22, <2>23, <2>24, <2>25, <2>26,
       <2>27, <2>28
       DEF Next, Act, Request, Progress

(***************************************************************************)
(* A request knows what its stop needs.  Relationships and conversations   *)
(* do not go back to not being there, and a request that saw a moment      *)
(* without a block has seen it for good.                                   *)
(***************************************************************************)
LEMMA NothingBecomesFresh ==
  ASSUME TypeOK, RequestsKnow, [Next]_vars
  PROVE  /\ \A d \in Docs: status[d] # "free" => status'[d] # "free"
         /\ open \subseteq open'
  <2> DEFINE Goal == /\ \A d \in Docs: status[d] # "free" => status'[d] # "free"
                     /\ open \subseteq open'
  <2> USE DEF TypeOK, docVars, convVars
  <2>1. ASSUME NEW h \in Handlers, NEW p \in People, Create(h, p)
       PROVE  Goal
    BY <2>1 DEF Create, Begins
  <2>2. ASSUME NEW h \in Handlers, NEW p \in People, CreateConversation(h, p)
       PROVE  Goal
    BY <2>2 DEF CreateConversation, Begins
  <2>3. ASSUME NEW h \in Handlers, NEW p \in People, BlockUser(h, p)
       PROVE  Goal
    BY <2>3 DEF BlockUser, Begins
  <2>4. ASSUME NEW h \in Handlers, NEW p \in People, NEW d \in Docs,
                Accept(h, p, d)
       PROVE  Goal
    BY <2>4 DEF Accept, Begins
  <2>5. ASSUME NEW h \in Handlers, NEW p \in People, NEW c \in Convs,
                BlockAndDelete(h, p, c)
       PROVE  Goal
    BY <2>5 DEF BlockAndDelete, Begins
  <2>6. ASSUME NEW h \in Handlers, NEW p \in People, NEW c \in Convs,
                HideHistory(h, p, c)
       PROVE  Goal
    BY <2>6 DEF HideHistory, Begins
  <2>7. ASSUME NEW h \in Handlers, NEW p \in People, NEW c \in Convs,
                CreateMessage(h, p, c)
       PROVE  Goal
    BY <2>7 DEF CreateMessage, Begins
  <2>8. ASSUME NEW h \in Handlers, GetPendingRelationshipOrNull(h)
       PROVE  Goal
    BY <2>8 DEF GetPendingRelationshipOrNull
  <2>9. ASSUME NEW h \in Handlers, Insert(h)
       PROVE  Goal
    BY <2>9 DEF Insert, Throws, IsAt
  <2>10. ASSUME NEW h \in Handlers, SeekPending(h)
       PROVE  Goal
    BY <2>10 DEF SeekPending
  <2>11. ASSUME NEW h \in Handlers, SetAccepted(h)
       PROVE  Goal
    BY <2>11 DEF SetAccepted, Set, Throws, IsAt
  <2>12. ASSUME NEW h \in Handlers, Welcome(h)
       PROVE  Goal
    BY <2>12 DEF Welcome, Restored, IsAt
  <2>13. ASSUME NEW h \in Handlers, FilterBlocked(h)
       PROVE  Goal
    BY <2>13 DEF FilterBlocked
  <2>14. ASSUME NEW h \in Handlers, FindExisting(h)
       PROVE  Goal
    BY <2>14 DEF FindExisting
  <2>15. ASSUME NEW h \in Handlers, Unhide(h)
       PROVE  Goal
    BY <2>15 DEF Unhide, IsAt
  <2>16. ASSUME NEW h \in Handlers, Open(h)
       PROVE  Goal
    BY <2>16 DEF Open, IsAt
  <2>17. ASSUME NEW h \in Handlers, CheckIsBlocked(h)
       PROVE  Goal
    BY <2>17 DEF CheckIsBlocked
  <2>18. ASSUME NEW h \in Handlers, Send(h)
       PROVE  Goal
    BY <2>18 DEF Send, Restored, IsAt
  <2>19. ASSUME NEW h \in Handlers, FindRelationship(h)
       PROVE  Goal
    BY <2>19 DEF FindRelationship
  <2>20. ASSUME NEW h \in Handlers, UpdateBlocked(h)
       PROVE  Goal
    BY <2>20 DEF UpdateBlocked, Set, IsAt, Stored
  <2>21. ASSUME NEW h \in Handlers, ReadHistory(h)
       PROVE  Goal
    BY <2>21 DEF ReadHistory
  <2>22. ASSUME NEW h \in Handlers, WriteHistory(h)
       PROVE  Goal
    BY <2>22 DEF WriteHistory, Hides, IsAt
  <2>23. ASSUME NEW h \in Handlers, Commit(h)
       PROVE  Goal
    BY <2>23 DEF Commit, Throws, Hides, IsAt
  <2>24. ASSUME NEW h \in Handlers, Fails(h)
       PROVE  Goal
    BY <2>24 DEF Fails
  <2>25. ASSUME NEW d \in Docs, RejectOrRemove(d)
       PROVE  Goal
    BY <2>25 DEF RejectOrRemove, DeleteOne, Set
  <2>26. ASSUME NEW d \in Docs, Unfriend(d)
       PROVE  Goal
    BY <2>26 DEF Unfriend, DeleteOne, Set
  <2>27. ASSUME NEW p \in People, NEW d \in Docs, UnblockUser(p, d)
       PROVE  Goal
    BY <2>27 DEF UnblockUser, Set
  <2>28. CASE UNCHANGED vars
    BY <2>28 DEF vars, docVars, convVars
  <2> QED
    BY <2>1, <2>2, <2>3, <2>4, <2>5, <2>6, <2>7, <2>8, <2>9, <2>10,
       <2>11, <2>12, <2>13, <2>14, <2>15, <2>16, <2>17, <2>18,
       <2>19, <2>20, <2>21, <2>22, <2>23, <2>24, <2>25, <2>26,
       <2>27, <2>28
       DEF Next, Act, Request, Progress

LEMMA OthersGoOnKnowing ==
  ASSUME TypeOK, Remembers, NEW k \in Handlers, Knows(k), run'[k] = run[k],
         \A d \in Docs: status[d] # "free" => status'[d] # "free",
         open \subseteq open'
  PROVE  Knows(k)'
  <1>1. run[k].at \in Reaching => run[k].at # "idle"
    BY DEF Reaching
  <1> QED
    BY <1>1 DEF Knows, IsAt, Remembers

LEMMA ActKeepsKnowing ==
  ASSUME TypeOK, RequestsKnow, Act, Remembers
  PROVE  RequestsKnow'
  <2>f. /\ \A d \in Docs: status[d] # "free" => status'[d] # "free"
        /\ open \subseteq open'
    BY NothingBecomesFresh DEF Next
  <2>o. ASSUME NEW k \in Handlers, run'[k] = run[k]
        PROVE  Knows(k)'
    BY <2>f, <2>o, OthersGoOnKnowing DEF RequestsKnow
  <2>p. ASSUME UNCHANGED run
        PROVE  RequestsKnow'
    BY <2>o, <2>p DEF RequestsKnow
  <2> USE DEF TypeOK, docVars, convVars
  <2>1. ASSUME NEW h \in Handlers, NEW p \in People, Create(h, p)
       PROVE  RequestsKnow'
    <3>1. \A k \in Handlers \ {h}: run'[k] = run[k]
      BY <2>1 DEF Create, Begins, Goes, Returns, Throws, Ends, FailsOrEnds,
         HasConversation
    <3>2. Knows(h)'
      BY <2>1, <2>f DEF Create, Begins, Knows, Goes, Returns, Throws, Ends,
         FailsOrEnds, HasConversation, Idle, IsAt,
         Reaching, State, Stored, Remembers, RequestsKnow
    <3> QED
      BY <3>1, <3>2, <2>o DEF RequestsKnow
  <2>2. ASSUME NEW h \in Handlers, NEW p \in People, CreateConversation(h, p)
       PROVE  RequestsKnow'
    <3>1. \A k \in Handlers \ {h}: run'[k] = run[k]
      BY <2>2 DEF CreateConversation, Begins, Goes, Returns, Throws, Ends,
         FailsOrEnds, HasConversation
    <3>2. Knows(h)'
      BY <2>2, <2>f DEF CreateConversation, Begins, Knows, Goes, Returns,
         Throws, Ends, FailsOrEnds, HasConversation, Idle, IsAt,
         Reaching, State, Stored, Remembers, RequestsKnow
    <3> QED
      BY <3>1, <3>2, <2>o DEF RequestsKnow
  <2>3. ASSUME NEW h \in Handlers, NEW p \in People, BlockUser(h, p)
       PROVE  RequestsKnow'
    <3>1. \A k \in Handlers \ {h}: run'[k] = run[k]
      BY <2>3 DEF BlockUser, Begins, Goes, Returns, Throws, Ends, FailsOrEnds,
         HasConversation
    <3>2. Knows(h)'
      BY <2>3, <2>f DEF BlockUser, Begins, Knows, Goes, Returns, Throws, Ends,
         FailsOrEnds, HasConversation, Idle, IsAt,
         Reaching, State, Stored, Remembers, RequestsKnow
    <3> QED
      BY <3>1, <3>2, <2>o DEF RequestsKnow
  <2>4. ASSUME NEW h \in Handlers, NEW p \in People, NEW d \in Docs,
                Accept(h, p, d)
       PROVE  RequestsKnow'
    <3>1. \A k \in Handlers \ {h}: run'[k] = run[k]
      BY <2>4 DEF Accept, Begins, Goes, Returns, Throws, Ends, FailsOrEnds,
         HasConversation
    <3>2. Knows(h)'
      BY <2>4, <2>f DEF Accept, Begins, Knows, Goes, Returns, Throws, Ends,
         FailsOrEnds, HasConversation, Idle, IsAt,
         Reaching, State, Stored, Remembers, RequestsKnow
    <3> QED
      BY <3>1, <3>2, <2>o DEF RequestsKnow
  <2>5. ASSUME NEW h \in Handlers, NEW p \in People, NEW c \in Convs,
                BlockAndDelete(h, p, c)
       PROVE  RequestsKnow'
    <3>1. \A k \in Handlers \ {h}: run'[k] = run[k]
      BY <2>5 DEF BlockAndDelete, Begins, Goes, Returns, Throws, Ends,
         FailsOrEnds, HasConversation
    <3>2. Knows(h)'
      BY <2>5, <2>f DEF BlockAndDelete, Begins, Knows, Goes, Returns, Throws,
         Ends, FailsOrEnds, HasConversation, Idle, IsAt,
         Reaching, State, Stored, Remembers, RequestsKnow
    <3> QED
      BY <3>1, <3>2, <2>o DEF RequestsKnow
  <2>6. ASSUME NEW h \in Handlers, NEW p \in People, NEW c \in Convs,
                HideHistory(h, p, c)
       PROVE  RequestsKnow'
    <3>1. \A k \in Handlers \ {h}: run'[k] = run[k]
      BY <2>6 DEF HideHistory, Begins, Goes, Returns, Throws, Ends,
         FailsOrEnds, HasConversation
    <3>2. Knows(h)'
      BY <2>6, <2>f DEF HideHistory, Begins, Knows, Goes, Returns, Throws,
         Ends, FailsOrEnds, HasConversation, Idle, IsAt,
         Reaching, State, Stored, Remembers, RequestsKnow
    <3> QED
      BY <3>1, <3>2, <2>o DEF RequestsKnow
  <2>7. ASSUME NEW h \in Handlers, NEW p \in People, NEW c \in Convs,
                CreateMessage(h, p, c)
       PROVE  RequestsKnow'
    <3>1. \A k \in Handlers \ {h}: run'[k] = run[k]
      BY <2>7 DEF CreateMessage, Begins, Goes, Returns, Throws, Ends,
         FailsOrEnds, HasConversation
    <3>2. Knows(h)'
      BY <2>7, <2>f DEF CreateMessage, Begins, Knows, Goes, Returns, Throws,
         Ends, FailsOrEnds, HasConversation, Idle, IsAt,
         Reaching, State, Stored, Remembers, RequestsKnow
    <3> QED
      BY <3>1, <3>2, <2>o DEF RequestsKnow
  <2>8. ASSUME NEW h \in Handlers, GetPendingRelationshipOrNull(h)
       PROVE  RequestsKnow'
    <3>1. \A k \in Handlers \ {h}: run'[k] = run[k]
      BY <2>8 DEF GetPendingRelationshipOrNull, Goes, Returns, Throws, Ends,
         FailsOrEnds, HasConversation
    <3>2. Knows(h)'
      BY <2>8, <2>f DEF GetPendingRelationshipOrNull, Knows, Goes, Returns,
         Throws, Ends, FailsOrEnds, HasConversation, Idle, IsAt,
         Reaching, State, Stored, Remembers, RequestsKnow
    <3> QED
      BY <3>1, <3>2, <2>o DEF RequestsKnow
  <2>9. ASSUME NEW h \in Handlers, Insert(h)
       PROVE  RequestsKnow'
    <3>1. \A k \in Handlers \ {h}: run'[k] = run[k]
      BY <2>9 DEF Insert, Goes, Returns, Throws, Ends, FailsOrEnds,
         HasConversation
    <3>2. Knows(h)'
      BY <2>9, <2>f DEF Insert, Knows, Goes, Returns, Throws, Ends,
         FailsOrEnds, HasConversation, Idle, IsAt,
         Reaching, State, Stored, Remembers, RequestsKnow
    <3> QED
      BY <3>1, <3>2, <2>o DEF RequestsKnow
  <2>10. ASSUME NEW h \in Handlers, SeekPending(h)
       PROVE  RequestsKnow'
    <3>1. \A k \in Handlers \ {h}: run'[k] = run[k]
      BY <2>10 DEF SeekPending, Goes, Returns, Throws, Ends, FailsOrEnds,
         HasConversation
    <3>2. Knows(h)'
      <4>1. CASE Goes(h, "accept")
        BY <2>10, <2>f, <4>1 DEF SeekPending, Knows, Goes, IsAt, Reaching,
           RequestsKnow
      <4>2. CASE Returns(h)
        BY <4>2 DEF Knows, Returns, Idle, IsAt, Reaching
      <4> QED
        BY <2>10, <4>1, <4>2 DEF SeekPending
    <3> QED
      BY <3>1, <3>2, <2>o DEF RequestsKnow
  <2>11. ASSUME NEW h \in Handlers, SetAccepted(h)
       PROVE  RequestsKnow'
    <3>1. \A k \in Handlers \ {h}: run'[k] = run[k]
      BY <2>11 DEF SetAccepted, Goes, Returns, Throws, Ends, FailsOrEnds,
         HasConversation
    <3>2. Knows(h)'
      BY <2>11, <2>f DEF SetAccepted, Knows, Goes, Returns, Throws, Ends,
         FailsOrEnds, HasConversation, Idle, IsAt,
         Reaching, State, Stored, Remembers, RequestsKnow
    <3> QED
      BY <3>1, <3>2, <2>o DEF RequestsKnow
  <2>12. ASSUME NEW h \in Handlers, Welcome(h)
       PROVE  RequestsKnow'
    <3>1. \A k \in Handlers \ {h}: run'[k] = run[k]
      BY <2>12 DEF Welcome, Goes, Returns, Throws, Ends, FailsOrEnds,
         HasConversation
    <3>2. Knows(h)'
      BY <2>12, <2>f, SMTT(30) DEF Welcome, Knows, Goes, Returns, Throws, Ends,
         FailsOrEnds, HasConversation, Idle, IsAt,
         Reaching, State, Stored, Remembers, RequestsKnow
    <3> QED
      BY <3>1, <3>2, <2>o DEF RequestsKnow
  <2>13. ASSUME NEW h \in Handlers, FilterBlocked(h)
       PROVE  RequestsKnow'
    <3>1. \A k \in Handlers \ {h}: run'[k] = run[k]
      BY <2>13 DEF FilterBlocked, Goes, Returns, Throws, Ends, FailsOrEnds,
         HasConversation
    <3>2. Knows(h)'
      <4>1. CASE Blocked
        BY <2>13, <4>1, SMTT(30) DEF FilterBlocked, Knows, Goes, Returns, Throws, Ends,
           FailsOrEnds, HasConversation, Idle, IsAt,
           State, Reaching, RequestsKnow
      <4>2. CASE ~Blocked
        <5>1. ~Blocked'
          BY <2>13, <4>2 DEF FilterBlocked, Blocked
        <5>2. Goes(h, "existing")
          BY <2>13, <4>2 DEF FilterBlocked
        <5>3. clear'[h]
          BY <5>1, <5>2 DEF Goes, Remembers, State
        <5> QED
          BY <2>13, <5>2, <5>3 DEF FilterBlocked, Knows, Goes, IsAt,
             RequestsKnow
      <4> QED
        BY <4>1, <4>2
    <3> QED
      BY <3>1, <3>2, <2>o DEF RequestsKnow
  <2>14. ASSUME NEW h \in Handlers, FindExisting(h)
       PROVE  RequestsKnow'
    <3>1. \A k \in Handlers \ {h}: run'[k] = run[k]
      BY <2>14 DEF FindExisting, Goes, Returns, Throws, Ends, FailsOrEnds,
         HasConversation
    <3>2. Knows(h)'
      BY <2>14, <2>f DEF FindExisting, Knows, Goes, Returns, Throws, Ends,
         FailsOrEnds, HasConversation, Idle, IsAt,
         Reaching, State, Stored, Remembers, RequestsKnow
    <3> QED
      BY <3>1, <3>2, <2>o DEF RequestsKnow
  <2>15. ASSUME NEW h \in Handlers, Unhide(h)
       PROVE  RequestsKnow'
    <3>1. \A k \in Handlers \ {h}: run'[k] = run[k]
      BY <2>15 DEF Unhide, Goes, Returns, Throws, Ends, FailsOrEnds,
         HasConversation
    <3>2. Knows(h)'
      BY <2>15, <2>f DEF Unhide, Knows, Goes, Returns, Throws, Ends,
         FailsOrEnds, HasConversation, Idle, IsAt,
         Reaching, State, Stored, Remembers, RequestsKnow
    <3> QED
      BY <3>1, <3>2, <2>o DEF RequestsKnow
  <2>16. ASSUME NEW h \in Handlers, Open(h)
       PROVE  RequestsKnow'
    <3>1. \A k \in Handlers \ {h}: run'[k] = run[k]
      BY <2>16 DEF Open, Goes, Returns, Throws, Ends, FailsOrEnds,
         HasConversation
    <3>2. Knows(h)'
      BY <2>16, <2>f DEF Open, Knows, Goes, Returns, Throws, Ends, FailsOrEnds,
         HasConversation, Idle, IsAt,
         Reaching, State, Stored, Remembers, RequestsKnow
    <3> QED
      BY <3>1, <3>2, <2>o DEF RequestsKnow
  <2>17. ASSUME NEW h \in Handlers, CheckIsBlocked(h)
       PROVE  RequestsKnow'
    <3>1. \A k \in Handlers \ {h}: run'[k] = run[k]
      BY <2>17 DEF CheckIsBlocked, Goes, Returns, Throws, Ends, FailsOrEnds,
         HasConversation
    <3>2. Knows(h)'
      <4>1. CASE Blocked
        BY <2>17, <4>1 DEF CheckIsBlocked, Knows, Goes, Returns, Throws, Ends,
           FailsOrEnds, HasConversation, Idle, IsAt,
           State, Reaching, RequestsKnow
      <4>2. CASE ~Blocked
        <5>1. ~Blocked'
          BY <2>17, <4>2 DEF CheckIsBlocked, Blocked
        <5>2. Goes(h, "send")
          BY <2>17, <4>2 DEF CheckIsBlocked
        <5>3. clear'[h]
          BY <5>1, <5>2 DEF Goes, Remembers, State
        <5> QED
          BY <2>17, <5>2, <5>3 DEF CheckIsBlocked, Knows, Goes, IsAt,
             RequestsKnow
      <4> QED
        BY <4>1, <4>2
    <3> QED
      BY <3>1, <3>2, <2>o DEF RequestsKnow
  <2>18. ASSUME NEW h \in Handlers, Send(h)
       PROVE  RequestsKnow'
    <3>1. \A k \in Handlers \ {h}: run'[k] = run[k]
      BY <2>18 DEF Send, Goes, Returns, Throws, Ends, FailsOrEnds,
         HasConversation
    <3>2. Knows(h)'
      BY <2>18, <2>f DEF Send, Knows, Goes, Returns, Throws, Ends, FailsOrEnds,
         HasConversation, Idle, IsAt,
         Reaching, State, Stored, Remembers, RequestsKnow
    <3> QED
      BY <3>1, <3>2, <2>o DEF RequestsKnow
  <2>19. ASSUME NEW h \in Handlers, FindRelationship(h)
       PROVE  RequestsKnow'
    <3>1. \A k \in Handlers \ {h}: run'[k] = run[k]
      BY <2>19 DEF FindRelationship, Goes, Returns, Throws, Ends, FailsOrEnds,
         HasConversation
    <3>3. /\ run[h] \in State
          /\ run[h].user \in People
          /\ run[h].op = "blockAndDelete" => run[h].conv \in open'
          /\ UNCHANGED docVars
      BY <2>19 DEF FindRelationship, RequestsKnow, Knows, IsAt
    <3>2. Knows(h)'
      <4> DEFINE r == run'[h]
      <4>1. CASE Goes(h, "check")
        <5>1. /\ r.at = "check" /\ r.user = run[h].user
              /\ r.op = run[h].op /\ r.conv = run[h].conv
          BY <4>1, <3>3 DEF Goes, State
        <5> QED
          BY <3>3, <5>1 DEF Knows, IsAt, Reaching
      <4>2. CASE Returns(h)
        BY <4>2 DEF Knows, Returns, Idle, IsAt, Reaching
      <4>3. ASSUME NEW d \in Stored, NEW s \in {"update", "hideRead"},
                   s = "hideRead" => run[h].op = "blockAndDelete",
                   run' = [run EXCEPT ![h].at = s,
                              ![h].doc = d, ![h].read = status[d]]
            PROVE  Knows(h)'
        <5>1. /\ r.at = s /\ r.user = run[h].user /\ r.doc = d
              /\ r.op = run[h].op /\ r.conv = run[h].conv
          BY <4>3, <3>3 DEF State
        <5> QED
          BY <3>3, <4>3, <5>1 DEF Knows, IsAt, Reaching, Stored
      <4>4. ASSUME NEW d \in Stored,
                   run' = [run EXCEPT
                      ![h].at = IF run[h].op = "blockAndDelete" THEN "hideRead"
                                ELSE "update",
                      ![h].doc = d, ![h].read = status[d]]
            PROVE  Knows(h)'
        <5>1. CASE run[h].op = "blockAndDelete"
          BY <4>3, <4>4, <5>1
        <5>2. CASE run[h].op # "blockAndDelete"
          BY <4>3, <4>4, <5>2
        <5> QED
          BY <5>1, <5>2
      <4> QED
        BY <2>19, <4>1, <4>2, <4>4 DEF FindRelationship
    <3> QED
      BY <3>1, <3>2, <2>o DEF RequestsKnow
  <2>20. ASSUME NEW h \in Handlers, UpdateBlocked(h)
       PROVE  RequestsKnow'
    <3>1. \A k \in Handlers \ {h}: run'[k] = run[k]
      BY <2>20 DEF UpdateBlocked, Goes, Returns, Throws, Ends, FailsOrEnds,
         HasConversation
    <3>2. Knows(h)'
      BY <2>20, <2>f DEF UpdateBlocked, Knows, Goes, Returns, Throws, Ends,
         FailsOrEnds, HasConversation, Idle, IsAt,
         Reaching, State, Stored, Remembers, RequestsKnow
    <3> QED
      BY <3>1, <3>2, <2>o DEF RequestsKnow
  <2>21. ASSUME NEW h \in Handlers, ReadHistory(h)
       PROVE  RequestsKnow'
    <3>1. \A k \in Handlers \ {h}: run'[k] = run[k]
      BY <2>21 DEF ReadHistory, Goes, Returns, Throws, Ends, FailsOrEnds,
         HasConversation
    <3>2. Knows(h)'
      BY <2>21, <2>f DEF ReadHistory, Knows, Goes, Returns, Throws, Ends,
         FailsOrEnds, HasConversation, Idle, IsAt,
         Reaching, State, Stored, Remembers, RequestsKnow
    <3> QED
      BY <3>1, <3>2, <2>o DEF RequestsKnow
  <2>22. ASSUME NEW h \in Handlers, WriteHistory(h)
       PROVE  RequestsKnow'
    <3>1. \A k \in Handlers \ {h}: run'[k] = run[k]
      BY <2>22 DEF WriteHistory, Goes, Returns, Throws, Ends, FailsOrEnds,
         HasConversation
    <3>2. Knows(h)'
      BY <2>22, <2>f DEF WriteHistory, Knows, Goes, Returns, Throws, Ends,
         FailsOrEnds, HasConversation, Idle, IsAt,
         Reaching, State, Stored, Remembers, RequestsKnow
    <3> QED
      BY <3>1, <3>2, <2>o DEF RequestsKnow
  <2>23. ASSUME NEW h \in Handlers, Commit(h)
       PROVE  RequestsKnow'
    <3>1. \A k \in Handlers \ {h}: run'[k] = run[k]
      BY <2>23 DEF Commit, Goes, Returns, Throws, Ends, FailsOrEnds,
         HasConversation
    <3>2. Knows(h)'
      BY <2>23, <2>f DEF Commit, Knows, Goes, Returns, Throws, Ends,
         FailsOrEnds, HasConversation, Idle, IsAt,
         Reaching, State, Stored, Remembers, RequestsKnow
    <3> QED
      BY <3>1, <3>2, <2>o DEF RequestsKnow
  <2>24. ASSUME NEW h \in Handlers, Fails(h)
       PROVE  RequestsKnow'
    <3>1. \A k \in Handlers \ {h}: run'[k] = run[k]
      BY <2>24 DEF Fails, Goes, Returns, Throws, Ends, FailsOrEnds,
         HasConversation
    <3>2. Knows(h)'
      BY <2>24, <2>f, SMTT(30) DEF Fails, Knows, Goes, Returns, Throws, Ends,
         FailsOrEnds, HasConversation, Idle, IsAt,
         Reaching, State, Stored, Remembers, RequestsKnow
    <3> QED
      BY <3>1, <3>2, <2>o DEF RequestsKnow
  <2>25. ASSUME NEW d \in Docs, RejectOrRemove(d)
       PROVE  RequestsKnow'
    <3>1. UNCHANGED run
      BY <2>25 DEF RejectOrRemove, DeleteOne
    <3> QED
      BY <3>1, <2>p
  <2>26. ASSUME NEW d \in Docs, Unfriend(d)
       PROVE  RequestsKnow'
    <3>1. UNCHANGED run
      BY <2>26 DEF Unfriend, DeleteOne
    <3> QED
      BY <3>1, <2>p
  <2>27. ASSUME NEW p \in People, NEW d \in Docs, UnblockUser(p, d)
       PROVE  RequestsKnow'
    <3>1. UNCHANGED run
      BY <2>27 DEF UnblockUser
    <3> QED
      BY <3>1, <2>p
  <2> QED
    BY <2>1, <2>2, <2>3, <2>4, <2>5, <2>6, <2>7, <2>8, <2>9, <2>10,
       <2>11, <2>12, <2>13, <2>14, <2>15, <2>16, <2>17, <2>18,
       <2>19, <2>20, <2>21, <2>22, <2>23, <2>24, <2>25, <2>26,
       <2>27
       DEF Act, Request, Progress

LEMMA RequestsGoOnKnowing ==
  ASSUME TypeOK, RequestsKnow, [Next]_vars
  PROVE  RequestsKnow'
  <1>1. CASE UNCHANGED vars
    BY <1>1 DEF vars, docVars, convVars, RequestsKnow, Knows, IsAt
  <1>2. CASE Act /\ Remembers
    BY <1>2, ActKeepsKnowing
  <1> QED
    BY <1>1, <1>2 DEF Next

(***************************************************************************)
(* The inductive invariant.                                                *)
(***************************************************************************)
LEMMA InvIsInductive ==
  ASSUME Inv, [Next]_vars
  PROVE  Inv'
  BY TypeIsInductive, DocumentsStayWell, RequestsGoOnKnowing DEF Inv

\* What a request in flight writes to, it found: types, the one relationship
\* per requester, and the check of its own before it reaches the other person.
THEOREM InvHolds == Spec => []Inv
  <1>1. Init => Inv
    BY NamesAssumption
       DEF Init, Inv, TypeOK, BlockedBySomebody, OnePerRequester, RequestsKnow,
           Knows, Stored, Idle, State, Operations, IsAt, Reaching
  <1> QED
    BY <1>1, InvIsInductive, PTL DEF Spec

(***************************************************************************)
(* The action properties.                                                  *)
(***************************************************************************)
LEMMA BlocksStay ==
  ASSUME Inv, [Next]_vars
  PROVE  StaysBlocked
  <2> USE NamesAssumption
      DEF Inv, TypeOK, StaysBlocked, docVars, convVars
  <2>1. ASSUME NEW h \in Handlers, NEW p \in People, Create(h, p)
       PROVE  StaysBlocked
    BY <2>1 DEF Create, Begins
  <2>2. ASSUME NEW h \in Handlers, NEW p \in People, CreateConversation(h, p)
       PROVE  StaysBlocked
    BY <2>2 DEF CreateConversation, Begins
  <2>3. ASSUME NEW h \in Handlers, NEW p \in People, BlockUser(h, p)
       PROVE  StaysBlocked
    BY <2>3 DEF BlockUser, Begins
  <2>4. ASSUME NEW h \in Handlers, NEW p \in People, NEW d \in Docs,
                Accept(h, p, d)
       PROVE  StaysBlocked
    BY <2>4 DEF Accept, Begins
  <2>5. ASSUME NEW h \in Handlers, NEW p \in People, NEW c \in Convs,
                BlockAndDelete(h, p, c)
       PROVE  StaysBlocked
    BY <2>5 DEF BlockAndDelete, Begins
  <2>6. ASSUME NEW h \in Handlers, NEW p \in People, NEW c \in Convs,
                HideHistory(h, p, c)
       PROVE  StaysBlocked
    BY <2>6 DEF HideHistory, Begins
  <2>7. ASSUME NEW h \in Handlers, NEW p \in People, NEW c \in Convs,
                CreateMessage(h, p, c)
       PROVE  StaysBlocked
    BY <2>7 DEF CreateMessage, Begins
  <2>8. ASSUME NEW h \in Handlers, GetPendingRelationshipOrNull(h)
       PROVE  StaysBlocked
    BY <2>8 DEF GetPendingRelationshipOrNull
  <2>9. ASSUME NEW h \in Handlers, Insert(h)
       PROVE  StaysBlocked
    BY <2>9 DEF Insert, Throws, IsAt
  <2>10. ASSUME NEW h \in Handlers, SeekPending(h)
       PROVE  StaysBlocked
    BY <2>10 DEF SeekPending
  <2>11. ASSUME NEW h \in Handlers, SetAccepted(h)
       PROVE  StaysBlocked
    BY <2>11 DEF SetAccepted, Set, Throws, IsAt
  <2>12. ASSUME NEW h \in Handlers, Welcome(h)
       PROVE  StaysBlocked
    BY <2>12 DEF Welcome, Restored, IsAt
  <2>13. ASSUME NEW h \in Handlers, FilterBlocked(h)
       PROVE  StaysBlocked
    BY <2>13 DEF FilterBlocked
  <2>14. ASSUME NEW h \in Handlers, FindExisting(h)
       PROVE  StaysBlocked
    BY <2>14 DEF FindExisting
  <2>15. ASSUME NEW h \in Handlers, Unhide(h)
       PROVE  StaysBlocked
    BY <2>15 DEF Unhide, IsAt
  <2>16. ASSUME NEW h \in Handlers, Open(h)
       PROVE  StaysBlocked
    BY <2>16 DEF Open, IsAt
  <2>17. ASSUME NEW h \in Handlers, CheckIsBlocked(h)
       PROVE  StaysBlocked
    BY <2>17 DEF CheckIsBlocked
  <2>18. ASSUME NEW h \in Handlers, Send(h)
       PROVE  StaysBlocked
    BY <2>18 DEF Send, Restored, IsAt
  <2>19. ASSUME NEW h \in Handlers, FindRelationship(h)
       PROVE  StaysBlocked
    BY <2>19 DEF FindRelationship
  <2>20. ASSUME NEW h \in Handlers, UpdateBlocked(h)
       PROVE  StaysBlocked
    BY <2>20 DEF UpdateBlocked, Set, IsAt, Stored
  <2>21. ASSUME NEW h \in Handlers, ReadHistory(h)
       PROVE  StaysBlocked
    BY <2>21 DEF ReadHistory
  <2>22. ASSUME NEW h \in Handlers, WriteHistory(h)
       PROVE  StaysBlocked
    BY <2>22 DEF WriteHistory, Hides, IsAt
  <2>23. ASSUME NEW h \in Handlers, Commit(h)
       PROVE  StaysBlocked
    BY <2>23 DEF Commit, Throws
  <2>24. ASSUME NEW h \in Handlers, Fails(h)
       PROVE  StaysBlocked
    BY <2>24 DEF Fails
  <2>25. ASSUME NEW d \in Docs, RejectOrRemove(d)
       PROVE  StaysBlocked
    BY <2>25 DEF RejectOrRemove, DeleteOne, Set
  <2>26. ASSUME NEW d \in Docs, Unfriend(d)
       PROVE  StaysBlocked
    BY <2>26 DEF Unfriend, DeleteOne, Set
  <2>27. ASSUME NEW p \in People, NEW d \in Docs, UnblockUser(p, d)
       PROVE  StaysBlocked
    BY <2>27 DEF UnblockUser, Set
  <2>28. CASE UNCHANGED vars
    BY <2>28 DEF vars, docVars, convVars
  <2> QED
    BY <2>1, <2>2, <2>3, <2>4, <2>5, <2>6, <2>7, <2>8, <2>9, <2>10,
       <2>11, <2>12, <2>13, <2>14, <2>15, <2>16, <2>17, <2>18,
       <2>19, <2>20, <2>21, <2>22, <2>23, <2>24, <2>25, <2>26,
       <2>27, <2>28
       DEF Next, Act, Request, Progress

\* No acceptance, refusal, unfriending or transaction that was on its way undoes
\* a block.
THEOREM BlocksAreKept == Spec => BlocksAreNotUndone
  <1>1. Inv /\ [Next]_vars => StaysBlocked
    BY BlocksStay
  <1> QED
    BY <1>1, InvHolds, PTL DEF Spec, BlocksAreNotUndone

\* A request that opens a conversation, brings one back or writes in it has seen
\* a moment without a block.
THEOREM NobodyReaches == Spec => NobodyReachesThroughABlock
  <1>1. Inv /\ [Next]_vars => ReachesWhenClear
    <2>1. ASSUME Inv, NEW h \in Handlers,
                 Open(h) \/ Unhide(h) \/ Welcome(h) \/ Send(h)
          PROVE  clear[h]
      BY <2>1 DEF Inv, RequestsKnow, Knows, Open, Unhide, Welcome, Send, IsAt,
         Reaching
    <2> QED
      BY <2>1 DEF ReachesWhenClear
  <1> QED
    BY <1>1, InvHolds, PTL DEF Spec, NobodyReachesThroughABlock
=============================================================================
