------------------------- MODULE GameSessionProofs -------------------------
(***************************************************************************)
(* Proofs about GameSession, for any sets, elements and requests.          *)
(***************************************************************************)
EXTENDS GameSessionProperties, SetTheorems, FiniteSetTheorems, SequenceTheorems, TLAPS

Scoring == {"weak", "hit", "after", "readStats", "countAll", "createStats", "reread",
            "replaceWeek", "increment", "commit"}

(* What a request has in hand when it is about to run a statement. *)
Working(r) ==
  /\ pc[r] \notin {"idle", "issue"} => tx[r].set \in SetIds /\ Issued(tx[r].set)
  /\ pc[r] = "hit" => tx[r].seen \in WeakRow
  /\ tx[r].consumed <=> pc[r] \in Scoring
  /\ tx[r].stats # Unwritten <=> pc[r] = "commit"
  /\ pc[r] \in {"reread", "replaceWeek", "increment"} => stats # NoRow

TypeInv == TypeOK /\ \A r \in Requests : Working(r)

(* Row locks exclude each other, and a set that is being scored is still   *)
(* in the table.                                                           *)
Locks ==
  /\ \A r \in Requests : tx[r].consumed => sets[tx[r].set].status = "open"
  /\ \A r, q \in Requests : r # q /\ tx[r].consumed /\ tx[q].consumed => tx[r].set # tx[q].set
  /\ \A r, q \in Requests : r # q => tx[r].stats = Unwritten \/ tx[q].stats = Unwritten

(* A written UserStats row is the committed one plus this session. *)
Pending(r) ==
  /\ tx[r].stats.games = CurrentStats.games + 1
  /\ tx[r].stats.correct = CurrentStats.correct + CorrectCount(tx[r].marks)
  /\ tx[r].stats.answered = CurrentStats.answered + QuestionCount
  /\ tx[r].stats.allTime = CurrentStats.allTime + Score(tx[r].marks)
  /\ tx[r].stats.weekly <= tx[r].stats.allTime

PendingInv == \A r \in Requests : pc[r] = "commit" => Pending(r)

IInv == TypeInv /\ Locks /\ PendingInv /\ WeeklyWithinAllTime /\ ScoredOnce /\ NoSetLost

----------------------------------------------------------------------------
(* Counting. *)

LEMMA CountType ==
  /\ \A q, marks, e : Incorrect(q, marks, e) \in Nat
  /\ \A marks : CorrectCount(marks) \in Nat /\ Score(marks) \in Nat
<1>1. IsFiniteSet(Indexes)
  BY FS_Interval, GameAssumption DEF Indexes
<1>2. \A S \in SUBSET Indexes : Cardinality(S) \in Nat
  BY <1>1, FS_Subset, FS_CardinalityType
<1>3. \A q, marks, e : {i \in Indexes : q[i] = e /\ ~marks[i]} \in SUBSET Indexes
  OBVIOUS
<1>4. \A marks : {i \in Indexes : marks[i]} \in SUBSET Indexes
  OBVIOUS
<1> QED BY <1>2, <1>3, <1>4 DEF Incorrect, CorrectCount, Score, BaseCorrectScore

LEMMA MasteredCountType ==
  ASSUME NEW h, NEW E \in SUBSET Elements
  PROVE  CountMasteredElements(h, E) \in Nat
<1>1. {e \in E : Mastered(h, e)} \in SUBSET Elements
  OBVIOUS
<1> QED BY <1>1, FS_Subset, FS_CardinalityType, GameAssumption DEF CountMasteredElements

LEMMA SessionType ==
  ASSUME NEW t \in TxRow, t.set \in SetIds
  PROVE  Session(t) \in SessionRow
<1> DEFINE q == sets[t.set].questions
<1>1. Outcome(q, t.marks) \in [Elements -> {"absent", "right", "wrong"}]
  BY DEF Outcome
<1>2. [e \in Elements |-> Incorrect(q, t.marks, e)] \in [Elements -> Nat]
  BY CountType
<1>3. CorrectCount(t.marks) \in Nat /\ Score(t.marks) \in Nat
  BY CountType
<1> QED BY <1>1, <1>2, <1>3 DEF Session, SessionRow, TxRow

LEMMA WeekType == \A t \in Nat : WeekOf(t) \in Int
  BY GameAssumption DEF WeekOf

LEMMA BlankType == BlankTx \in TxRow
  BY GameAssumption DEF BlankTx, TxRow, Modes, Marks, Indexes

(* An issued set has its questions among the elements. *)
LEMMA AskedType ==
  ASSUME TypeInv, NEW r \in Requests, pc[r] \notin {"idle", "issue"}
  PROVE  /\ sets[tx[r].set] \in SetRow
         /\ AskedBy(r) \in SUBSET Elements
         /\ tx[r].at \in Indexes
         /\ Question(r) \in Elements
         /\ MissesOn(r, Question(r)) \in Nat
<1>1. sets[tx[r].set] \in SetRow
  BY DEF TypeInv, TypeOK, Working, Issued, NoQuestions
<1>2. tx[r].at \in Indexes
  BY DEF TypeInv, TypeOK, TxRow
<1> QED BY <1>1, <1>2, CountType DEF SetRow, AskedBy, Asked, Question, MissesOn

----------------------------------------------------------------------------
(* Type correctness. *)

LEMMA TypeInit == Init => TypeInv
<1> SUFFICES ASSUME Init PROVE TypeInv
  OBVIOUS
<1>1. TypeOK
  BY BlankType, GameAssumption DEF Init, TypeOK, Labels
<1>2. \A r \in Requests : Working(r)
  BY DEF Init, Working, Scoring, BlankTx
<1> QED BY <1>1, <1>2 DEF TypeInv

(* The step of one request leaves what the others have in hand, as long as *)
(* no set or statistics row disappears.                                    *)
LEMMA OthersKeepWorking ==
  ASSUME TypeInv, NEW r \in Requests, NEW l \in Labels, NEW t \in TxRow,
         pc' = [pc EXCEPT ![r] = l], tx' = [tx EXCEPT ![r] = t],
         \A s \in SetIds : Issued(s) => Issued(s)',
         stats # NoRow => stats' # NoRow,
         Working(r)'
  PROVE  \A q \in Requests : Working(q)'
<1> SUFFICES ASSUME NEW q \in Requests, q # r
             PROVE  Working(q)'
  OBVIOUS
<1>1. pc'[q] = pc[q] /\ tx'[q] = tx[q]
  BY DEF TypeInv, TypeOK
<1>2. Working(q)
  BY DEF TypeInv
<1> QED BY <1>1, <1>2 DEF Working

LEMMA FinishKeepsTypes ==
  ASSUME TypeInv, NEW r \in Requests, Finish(r), UNCHANGED <<clock, db>>
  PROVE  TypeInv'
<1>1. TypeOK'
  BY BlankType DEF TypeInv, TypeOK, Finish, db, Labels
<1>2. Working(r)'
  BY DEF TypeInv, TypeOK, Finish, Working, Scoring, BlankTx
<1>3. \A q \in Requests : Working(q)'
  BY <1>2, BlankType, OthersKeepWorking DEF Finish, db, Labels, Issued
<1> QED BY <1>1, <1>3 DEF TypeInv

(* A statement that only reads or writes the memory of its transaction. *)
LEMMA AdvanceKeepsTypes ==
  ASSUME TypeInv, NEW r \in Requests, NEW l \in Labels, NEW t \in TxRow,
         pc' = [pc EXCEPT ![r] = l], tx' = [tx EXCEPT ![r] = t],
         UNCHANGED <<clock, db>>, Working(r)'
  PROVE  TypeInv'
<1>1. TypeOK'
  BY DEF TypeInv, TypeOK, db
<1>2. \A q \in Requests : Working(q)'
  BY OthersKeepWorking DEF db, Issued
<1> QED BY <1>1, <1>2 DEF TypeInv

LEMMA NextElementKeepsTypes ==
  ASSUME TypeInv, NEW r \in Requests, NEW t \in TxRow,
         pc[r] \in {"weak", "hit"},
         t.set = tx[r].set, t.consumed = tx[r].consumed, t.stats = tx[r].stats,
         NextElement(r, t), UNCHANGED <<clock, db>>
  PROVE  TypeInv'
<1> DEFINE Later == {i \in FirstAsked(sets[t.set].questions) : i > t.at}
<1>1. Working(r) /\ r \in DOMAIN pc /\ r \in DOMAIN tx
  BY DEF TypeInv, TypeOK
<1>2. CASE Later = {}
  <2>1. pc' = [pc EXCEPT ![r] = "after"] /\ tx' = [tx EXCEPT ![r] = t]
    BY <1>2 DEF NextElement, Goto
  <2>2. Working(r)'
    BY <2>1, <1>1 DEF Working, Scoring, Issued, db
  <2> QED BY <2>1, <2>2, AdvanceKeepsTypes DEF Labels
<1>3. CASE Later # {}
  <2>1. PICK i \in Later : tx' = [tx EXCEPT ![r] = [t EXCEPT !.at = i]]
    BY <1>3 DEF NextElement
  <2>2. pc' = [pc EXCEPT ![r] = "weak"]
    BY <1>3 DEF NextElement, Goto
  <2>3. [t EXCEPT !.at = i] \in TxRow
    BY DEF FirstAsked, TxRow
  <2>4. Working(r)'
    BY <2>1, <2>2, <1>1 DEF Working, Scoring, Issued, db, TxRow
  <2> QED BY <2>1, <2>2, <2>3, <2>4, AdvanceKeepsTypes DEF Labels
<1> QED BY <1>2, <1>3

(* The environment writes the tables and leaves the requests alone. *)
LEMMA EnvironmentKeepsTypes ==
  ASSUME TypeInv, Environment
  PROVE  TypeInv'
<1> SUFFICES TypeOK' /\ UNCHANGED <<pc, tx>>
             /\ (\A s \in SetIds : Issued(s) => Issued(s)')
             /\ (stats # NoRow => stats' # NoRow)
  BY DEF TypeInv, Working
<1>1. ASSUME NEW t \in 0 .. MaxClock, ResetWeeklyScores(t)
      PROVE  TypeOK' /\ stats' # NoRow
  <2>1. stats \in StatsRow
    BY <1>1 DEF ResetWeeklyScores, TypeInv, TypeOK
  <2>2. \A row \in StatsRow, w \in Int : /\ [row EXCEPT !.weekly = 0] \in StatsRow
                                         /\ [row EXCEPT !.week = w] \in StatsRow
    BY DEF StatsRow
  <2>3. WeekOf(t) \in Int
    BY WeekType, GameAssumption
  <2>4. stats' \in StatsRow
    BY <1>1, <2>1, <2>2, <2>3 DEF ResetWeeklyScores
  <2> QED BY <1>1, <2>4, MarkerAssumption DEF ResetWeeklyScores, TypeInv, TypeOK
<1>2. ASSUME NEW t \in 0 .. MaxClock, CleanupQuestionSets(t)
      PROVE  TypeOK' /\ \A s \in SetIds : Issued(s) => Issued(s)'
  BY <1>2 DEF CleanupQuestionSets, TypeInv, TypeOK, Issued, SetRow, NoQuestions
<1>3. ASSUME NEW e \in Elements, DeleteWeakElement(e)
      PROVE  TypeOK'
  BY <1>3 DEF DeleteWeakElement, TypeInv, TypeOK
<1>4. CreateStatsAtLogin => TypeOK'
  BY DEF CreateStatsAtLogin, TypeInv, TypeOK, StatsRow, NewStats, NullWeek
<1>5. Tick => TypeOK'
  BY DEF Tick, db, TypeInv, TypeOK
<1> QED BY <1>1, <1>2, <1>3, <1>4, <1>5
        DEF Environment, ResetWeeklyScores, CleanupQuestionSets, DeleteWeakElement,
            CreateStatsAtLogin, Tick, db, Issued

LEMMA StatsRowWritten ==
  ASSUME NEW row \in StatsRow, NEW t \in TxRow, NEW m \in Int, NEW w \in Nat
  PROVE  /\ Counted(row, t, m, w) \in StatsRow
         /\ [t EXCEPT !.stats = Counted(row, t, m, w)] \in TxRow
<1>1. Counted(row, t, m, w) \in StatsRow
  BY CountType, WeekType, GameAssumption DEF Counted, StatsRow, TxRow
<1>2. \A v \in StatsRow : [t EXCEPT !.stats = v] \in TxRow
  BY DEF TxRow
<1> QED BY <1>1, <1>2

LEMMA WriteStatsKeepsTypes ==
  ASSUME TypeInv, NEW r \in Requests, pc[r] \in {"createStats", "replaceWeek", "increment"},
         NEW row \in StatsRow, NEW m \in Int, NEW w \in Nat,
         WriteStats(r, Counted(row, tx[r], m, w)),
         UNCHANGED <<clock, db>>
  PROVE  TypeInv'
<1> DEFINE v == Counted(row, tx[r], m, w)
           t == [tx[r] EXCEPT !.stats = v]
<1>1. tx[r] \in TxRow
  BY DEF TypeInv, TypeOK
<1>2. v \in StatsRow /\ t \in TxRow
  BY <1>1, StatsRowWritten
<1>3. pc' = [pc EXCEPT ![r] = "commit"] /\ tx' = [tx EXCEPT ![r] = t]
  BY DEF WriteStats, Goto
<1>4. v # Unwritten
  BY <1>2, MarkerAssumption
<1>5. t.stats = v /\ t.set = tx[r].set /\ t.consumed = tx[r].consumed
  BY <1>1 DEF TxRow
<1>6. Working(r)'
  <2> HIDE DEF v, t
  <2> QED BY <1>3, <1>4, <1>5 DEF TypeInv, TypeOK, Working, Scoring, Issued, db
<1> QED
  <2> HIDE DEF v, t
  <2> QED BY <1>2, <1>3, <1>6, AdvanceKeepsTypes DEF Labels

LEMMA StatementKeepsTypes ==
  ASSUME TypeInv, NEW r \in Requests, Statement(r)
  PROVE  TypeInv'
<1> USE DEF At
<1>t. tx[r] \in TxRow /\ pc[r] \in Labels /\ Working(r)
  BY DEF TypeInv, TypeOK
<1>1. ASSUME NEW s \in SetIds, NEW q \in [Indexes -> Elements], IssueQuestionSet(r, s, q)
      PROVE  TypeInv'
  <2>1. [status |-> "open", mode |-> tx[r].mode, questions |-> q,
         expiresAt |-> tx[r].now + ExpirySpan] \in SetRow
    BY <1>t, GameAssumption DEF TxRow, SetRow
  <2>2. TypeOK'
    BY <1>1, <2>1, BlankType DEF IssueQuestionSet, Finish, TypeInv, TypeOK, Labels
  <2>3. \A p \in SetIds : Issued(p) => Issued(p)'
    BY <1>1 DEF IssueQuestionSet, TypeInv, TypeOK, Issued
  <2>4. Working(r)'
    BY <1>1 DEF IssueQuestionSet, Finish, TypeInv, TypeOK, Working, Scoring, BlankTx
  <2>5. \A p \in Requests : Working(p)'
    BY <1>1, <2>3, <2>4, BlankType, OthersKeepWorking DEF IssueQuestionSet, Finish, Labels
  <2> QED BY <2>2, <2>5 DEF TypeInv
<1>2. CASE ReadQuestionSet(r)
  <2>1. CASE Acceptable(r)
    <3>1. pc' = [pc EXCEPT ![r] = "before"] /\ tx' = [tx EXCEPT ![r] = tx[r]]
      BY <1>2, <2>1 DEF ReadQuestionSet, Goto, TypeInv, TypeOK
    <3>2. Working(r)'
      BY <1>2, <3>1, <1>t DEF ReadQuestionSet, TypeInv, TypeOK, Working, Scoring, Issued, db
    <3> QED BY <1>2, <1>t, <3>1, <3>2, AdvanceKeepsTypes DEF ReadQuestionSet, Labels
  <2> QED BY <1>2, <2>1, FinishKeepsTypes DEF ReadQuestionSet
<1>3. CASE CountMasteredBefore(r)
  <2> DEFINE n == CountMasteredElements(played, AskedBy(r))
  <2>1. n \in Nat
    BY <1>3, AskedType, MasteredCountType DEF CountMasteredBefore
  <2>2. [tx[r] EXCEPT !.before = n] \in TxRow
    BY <2>1, <1>t DEF TxRow
  <2>3. pc' = [pc EXCEPT ![r] = "consume"] /\ tx' = [tx EXCEPT ![r] = [tx[r] EXCEPT !.before = n]]
    BY <1>3 DEF CountMasteredBefore, Goto
  <2>4. Working(r)'
    BY <1>3, <2>3, <1>t DEF CountMasteredBefore, TypeInv, TypeOK, TxRow, Working, Scoring, Issued, db
  <2> QED BY <1>3, <2>2, <2>3, <2>4, AdvanceKeepsTypes DEF CountMasteredBefore, Labels
<1>4. CASE ConsumeQuestionSet(r)
  <2>1. CASE sets[tx[r].set].status = "open"
    <3>1. /\ pc' = [pc EXCEPT ![r] = "weak"]
          /\ tx' = [tx EXCEPT ![r] = [tx[r] EXCEPT !.consumed = TRUE]]
      BY <1>4, <2>1 DEF ConsumeQuestionSet, Goto
    <3>2. [tx[r] EXCEPT !.consumed = TRUE] \in TxRow
      BY <1>t DEF TxRow
    <3>3. Working(r)'
      BY <1>4, <3>1, <1>t DEF ConsumeQuestionSet, TypeInv, TypeOK, TxRow, Working, Scoring, Issued, db
    <3> QED BY <1>4, <3>1, <3>2, <3>3, AdvanceKeepsTypes DEF ConsumeQuestionSet, Labels
  <2> QED BY <1>4, <2>1, FinishKeepsTypes DEF ConsumeQuestionSet
<1>5. CASE UpsertMissedElement(r)
  <2> DEFINE e == Question(r)
             row == weak[e]
             n == MissesOn(r, e)
             v == IF row = NoRow THEN [id |-> tx[r].set, miss |-> n, hit |-> 0]
                                 ELSE [id |-> row.id, miss |-> row.miss + n, hit |-> 0]
             t == [tx[r] EXCEPT !.weak[e] = v]
  <2>1. e \in Elements /\ n \in Nat
    BY <1>5, AskedType DEF UpsertMissedElement
  <2>2. row \in WeakRow \cup {NoRow} /\ tx[r].set \in SetIds
    BY <2>1, <1>5 DEF UpsertMissedElement, TypeInv, TypeOK, Working
  <2>3. v \in WeakRow
    BY <2>1, <2>2 DEF WeakRow
  <2>4. t \in TxRow
    BY <2>1, <2>3, <1>t DEF TxRow
  <2>5. t.set = tx[r].set /\ t.consumed = tx[r].consumed /\ t.stats = tx[r].stats
    BY <1>t DEF TxRow
  <2>6. NextElement(r, t)
    BY <1>5 DEF UpsertMissedElement
  <2>7. pc[r] \in {"weak", "hit"} /\ UNCHANGED <<clock, db>>
    BY <1>5 DEF UpsertMissedElement
  <2> HIDE DEF t
  <2> QED BY <2>4, <2>5, <2>6, <2>7, NextElementKeepsTypes
<1>6. CASE FindWeakElement(r)
  <2>1. CASE weak[Question(r)] = NoRow
    BY <1>6, <2>1, <1>t, NextElementKeepsTypes DEF FindWeakElement
  <2>2. CASE weak[Question(r)] # NoRow
    <3> DEFINE t == [tx[r] EXCEPT !.seen = weak[Question(r)]]
    <3>1. Question(r) \in Elements
      BY <1>6, AskedType DEF FindWeakElement
    <3>2. weak[Question(r)] \in WeakRow
      BY <2>2, <3>1 DEF TypeInv, TypeOK
    <3>3. t \in TxRow /\ t.seen \in WeakRow /\ t.set = tx[r].set
          /\ t.consumed = tx[r].consumed /\ t.stats = tx[r].stats
      BY <3>2, <1>t DEF TxRow
    <3>4. pc' = [pc EXCEPT ![r] = "hit"] /\ tx' = [tx EXCEPT ![r] = t]
      BY <1>6, <2>2 DEF FindWeakElement, Goto
    <3> HIDE DEF t
    <3>5. Working(r)'
      BY <1>6, <3>3, <3>4, <1>t DEF FindWeakElement, TypeInv, TypeOK, Working, Scoring, Issued, db
    <3> QED BY <1>6, <3>3, <3>4, <3>5, AdvanceKeepsTypes DEF FindWeakElement, Labels
  <2> QED BY <2>1, <2>2
<1>7. CASE HitWeakElement(r)
  <2> DEFINE e == Question(r)
             row == weak[e]
             v == IF tx[r].seen.hit + 1 >= MasteredConsecutiveHits
                    THEN NoRow ELSE [row EXCEPT !.hit = row.hit + 1]
             t == [tx[r] EXCEPT !.weak[e] = v]
  <2>1. CASE row = NoRow \/ row.id # tx[r].seen.id
    BY <1>7, <2>1, FinishKeepsTypes DEF HitWeakElement
  <2>2. CASE ~(row = NoRow \/ row.id # tx[r].seen.id)
    <3>1. e \in Elements
      BY <1>7, AskedType DEF HitWeakElement
    <3>2. row \in WeakRow
      BY <2>2, <3>1 DEF TypeInv, TypeOK
    <3>3. v \in WeakRow \cup {NoRow}
      BY <3>2 DEF WeakRow
    <3>4. t \in TxRow
      BY <3>1, <3>3, <1>t DEF TxRow
    <3>5. t.set = tx[r].set /\ t.consumed = tx[r].consumed /\ t.stats = tx[r].stats
      BY <1>t DEF TxRow
    <3>6. NextElement(r, t) /\ pc[r] \in {"weak", "hit"} /\ UNCHANGED <<clock, db>>
      BY <1>7, <2>2 DEF HitWeakElement
    <3> HIDE DEF t
    <3> QED BY <3>4, <3>5, <3>6, NextElementKeepsTypes
  <2> QED BY <2>1, <2>2
<1>8. CASE CountMasteredAfter(r)
  <2> DEFINE n == CountMasteredElements(Append(played, Session(tx[r])), AskedBy(r))
  <2>1. n \in Nat
    BY <1>8, AskedType, MasteredCountType DEF CountMasteredAfter
  <2>2. [tx[r] EXCEPT !.after = n] \in TxRow
    BY <2>1, <1>t DEF TxRow
  <2>3. pc' = [pc EXCEPT ![r] = "readStats"] /\ tx' = [tx EXCEPT ![r] = [tx[r] EXCEPT !.after = n]]
    BY <1>8 DEF CountMasteredAfter, Goto
  <2> HIDE DEF n
  <2>4. Working(r)'
    BY <1>8, <2>3, <1>t DEF CountMasteredAfter, TypeInv, TypeOK, TxRow, Working, Scoring, Issued, db
  <2> QED BY <1>8, <2>2, <2>3, <2>4, AdvanceKeepsTypes DEF CountMasteredAfter, Labels
<1>9. CASE ReadStats(r)
  <2>1. PICK l \in {"countAll", "increment", "replaceWeek"} :
          /\ pc' = [pc EXCEPT ![r] = l] /\ tx' = [tx EXCEPT ![r] = tx[r]]
          /\ l # "countAll" => stats # NoRow
    BY <1>9 DEF ReadStats, BranchOnWeek, Goto, TypeInv, TypeOK
  <2>2. Working(r)'
    BY <1>9, <2>1, <1>t DEF ReadStats, TypeInv, TypeOK, Working, Scoring, Issued, db
  <2> QED BY <1>9, <1>t, <2>1, <2>2, AdvanceKeepsTypes DEF ReadStats, Labels
<1>10. CASE CountMasteredOnCreate(r)
  <2> DEFINE n == CountMasteredElements(Append(played, Session(tx[r])), Elements)
  <2>1. n \in Nat
    BY MasteredCountType
  <2>2. [tx[r] EXCEPT !.onCreate = n] \in TxRow
    BY <2>1, <1>t DEF TxRow
  <2>3. /\ pc' = [pc EXCEPT ![r] = "createStats"]
        /\ tx' = [tx EXCEPT ![r] = [tx[r] EXCEPT !.onCreate = n]]
    BY <1>10 DEF CountMasteredOnCreate, Goto
  <2> HIDE DEF n
  <2>4. Working(r)'
    BY <1>10, <2>3, <1>t DEF CountMasteredOnCreate, TypeInv, TypeOK, TxRow, Working, Scoring, Issued, db
  <2> QED BY <1>10, <2>2, <2>3, <2>4, AdvanceKeepsTypes DEF CountMasteredOnCreate, Labels
<1>11. CASE CreateStats(r)
  <2>1. CASE stats = NoRow
    <3>1. NewStats \in StatsRow
      BY DEF NewStats, StatsRow, NullWeek
    <3>2. tx[r].onCreate \in Int /\ Score(tx[r].marks) \in Nat
      BY <1>t, CountType DEF TxRow
    <3> QED BY <1>11, <2>1, <3>1, <3>2, WriteStatsKeepsTypes DEF CreateStats
  <2>2. CASE stats # NoRow
    <3>1. pc' = [pc EXCEPT ![r] = "reread"] /\ tx' = [tx EXCEPT ![r] = tx[r]]
      BY <1>11, <2>2 DEF CreateStats, Goto, TypeInv, TypeOK
    <3>2. Working(r)'
      BY <1>11, <2>2, <3>1, <1>t DEF CreateStats, TypeInv, TypeOK, Working, Scoring, Issued, db
    <3> QED BY <1>11, <1>t, <3>1, <3>2, AdvanceKeepsTypes DEF CreateStats, Labels
  <2> QED BY <2>1, <2>2
<1>12. CASE RereadStats(r)
  <2>1. PICK l \in {"increment", "replaceWeek"} :
          pc' = [pc EXCEPT ![r] = l] /\ tx' = [tx EXCEPT ![r] = tx[r]]
    BY <1>12 DEF RereadStats, BranchOnWeek, Goto, TypeInv, TypeOK
  <2>2. Working(r)'
    BY <1>12, <2>1, <1>t DEF RereadStats, TypeInv, TypeOK, Working, Scoring, Issued, db
  <2> QED BY <1>12, <1>t, <2>1, <2>2, AdvanceKeepsTypes DEF RereadStats, Labels
<1>d. tx[r].after - tx[r].before \in Int /\ Score(tx[r].marks) \in Nat
  BY <1>t, CountType DEF TxRow
<1>13. CASE ReplaceStaleWeek(r)
  <2>1. CASE stats.week # WeekOf(tx[r].now)
    <3>1. stats \in StatsRow
      BY <1>13, <1>t DEF ReplaceStaleWeek, TypeInv, TypeOK, Working
    <3> QED BY <1>13, <2>1, <3>1, <1>d, WriteStatsKeepsTypes DEF ReplaceStaleWeek
  <2>2. CASE stats.week = WeekOf(tx[r].now)
    <3>1. pc' = [pc EXCEPT ![r] = "increment"] /\ tx' = [tx EXCEPT ![r] = tx[r]]
      BY <1>13, <2>2 DEF ReplaceStaleWeek, Goto, TypeInv, TypeOK
    <3>2. Working(r)'
      BY <1>13, <3>1, <1>t DEF ReplaceStaleWeek, TypeInv, TypeOK, Working, Scoring, Issued, db
    <3> QED BY <1>13, <1>t, <3>1, <3>2, AdvanceKeepsTypes DEF ReplaceStaleWeek, Labels
  <2> QED BY <2>1, <2>2
<1>14. CASE IncrementStats(r)
  <2>1. stats \in StatsRow
    BY <1>14, <1>t DEF IncrementStats, TypeInv, TypeOK, Working
  <2>2. stats.weekly + Score(tx[r].marks) \in Nat
    BY <2>1, <1>d DEF StatsRow
  <2> QED BY <1>14, <2>1, <2>2, <1>d, WriteStatsKeepsTypes DEF IncrementStats
<1>15. CASE Commit(r)
  <2>1. tx[r].set \in SetIds /\ Issued(tx[r].set) /\ tx[r].stats \in StatsRow
    BY <1>15, <1>t DEF Commit, Working, TxRow
  <2>2. sets[tx[r].set] \in SetRow
    BY <2>1 DEF TypeInv, TypeOK, Issued, NoQuestions
  <2>3. sets' \in [SetIds -> SetRow \cup {NoQuestions}]
    BY <1>15, <2>2 DEF Commit, TypeInv, TypeOK, SetRow
  <2>4. played' \in Seq(SessionRow)
    BY <1>15, <1>t, <2>1, SessionType, AppendProperties DEF Commit, TypeInv, TypeOK
  <2>5. weak' \in [Elements -> WeakRow \cup {NoRow}]
    BY <1>15, <1>t DEF Commit, TypeInv, TypeOK, TxRow
  <2>6. pc' \in [Requests -> Labels] /\ tx' \in [Requests -> TxRow]
    BY <1>15, BlankType DEF Commit, Finish, TypeInv, TypeOK, Labels
  <2>7. TypeOK'
    BY <1>15, <2>1, <2>3, <2>4, <2>5, <2>6 DEF Commit, TypeInv, TypeOK
  <2>8. \A s \in SetIds : Issued(s) => Issued(s)'
    BY <1>15, <2>1, <2>2 DEF Commit, TypeInv, TypeOK, Issued, SetRow
  <2>9. Working(r)'
    BY <1>15 DEF Commit, Finish, TypeInv, TypeOK, Working, Scoring, BlankTx
  <2>10. stats' # NoRow
    BY <1>15, <2>1, MarkerAssumption DEF Commit
  <2>11. \A p \in Requests : Working(p)'
    BY <1>15, <2>8, <2>9, <2>10, BlankType, OthersKeepWorking DEF Commit, Finish, Labels
  <2> QED BY <2>7, <2>11 DEF TypeInv
<1> QED
  BY <1>1, <1>2, <1>3, <1>4, <1>5, <1>6, <1>7, <1>8, <1>9, <1>10, <1>11, <1>12, <1>13, <1>14,
     <1>15 DEF Statement

LEMMA RequestKeepsTypes ==
  ASSUME TypeInv, NEW r \in Requests, Arrival(r) \/ Rollback(r) \/ DeadlockVictim(r)
  PROVE  TypeInv'
<1>t. tx[r] \in TxRow /\ Working(r)
  BY DEF TypeInv, TypeOK
<1>1. ASSUME NEW m \in Modes, ReadCandidates(r, m)
      PROVE  TypeInv'
  <2> DEFINE C == IF m = "weak" THEN {e \in Elements : weak[e] # NoRow} ELSE Elements
             t == [[[tx[r] EXCEPT !.now = clock] EXCEPT !.mode = m] EXCEPT !.candidates = C]
  <2>1. \A u \in TxRow : /\ [u EXCEPT !.now = clock] \in TxRow
                         /\ [u EXCEPT !.mode = m] \in TxRow
                         /\ [u EXCEPT !.candidates = C] \in TxRow
    BY ZenonT(40) DEF TxRow, TypeInv, TypeOK
  <2>2. t \in TxRow
    BY <1>t, <2>1
  <2>3. t.consumed = tx[r].consumed /\ t.stats = tx[r].stats
    BY <1>t DEF TxRow
  <2>4. pc[r] = "idle" /\ pc' = [pc EXCEPT ![r] = "issue"] /\ tx' = [tx EXCEPT ![r] = t]
    BY <1>1 DEF ReadCandidates, At, Goto
  <2> HIDE DEF t
  <2>5. Working(r)'
    BY <1>t, <2>3, <2>4 DEF TypeInv, TypeOK, Working, Scoring
  <2> QED BY <1>1, <2>2, <2>4, <2>5, AdvanceKeepsTypes DEF ReadCandidates, Labels
<1>2. ASSUME NEW s \in SetIds, NEW m \in Modes, NEW marks \in Marks, StartSubmit(r, s, m, marks)
      PROVE  TypeInv'
  <2> DEFINE t == [[[[tx[r] EXCEPT !.now = clock] EXCEPT !.set = s] EXCEPT !.mode = m]
                     EXCEPT !.marks = marks]
  <2>1. \A u \in TxRow : /\ [u EXCEPT !.now = clock] \in TxRow
                         /\ [u EXCEPT !.set = s] \in TxRow
                         /\ [u EXCEPT !.mode = m] \in TxRow
                         /\ [u EXCEPT !.marks = marks] \in TxRow
    BY ZenonT(40) DEF TxRow, TypeInv, TypeOK
  <2>2. t \in TxRow
    BY <1>t, <2>1
  <2>3. t.set = s /\ t.consumed = tx[r].consumed /\ t.stats = tx[r].stats
    BY <1>t DEF TxRow
  <2>4. pc[r] = "idle" /\ pc' = [pc EXCEPT ![r] = "read"] /\ tx' = [tx EXCEPT ![r] = t]
    BY <1>2 DEF StartSubmit, At, Goto
  <2> HIDE DEF t
  <2>5. Working(r)'
    BY <1>2, <1>t, <2>3, <2>4 DEF StartSubmit, TypeInv, TypeOK, Working, Scoring, Issued, db
  <2> QED BY <1>2, <2>2, <2>4, <2>5, AdvanceKeepsTypes DEF StartSubmit, Labels
<1>3. Rollback(r) \/ DeadlockVictim(r) => TypeInv'
  BY FinishKeepsTypes DEF Rollback, DeadlockVictim
<1> QED BY <1>1, <1>2, <1>3 DEF Arrival

LEMMA TypeNext == TypeInv /\ [Next]_vars => TypeInv'
<1> SUFFICES ASSUME TypeInv, [Next]_vars PROVE TypeInv'
  OBVIOUS
<1>1. ASSUME NEW r \in Requests, Arrival(r) \/ Statement(r) \/ Rollback(r) \/ DeadlockVictim(r)
      PROVE  TypeInv'
  BY <1>1, RequestKeepsTypes, StatementKeepsTypes
<1>2. Environment => TypeInv'
  BY EnvironmentKeepsTypes
<1>3. UNCHANGED vars => TypeInv'
  BY DEF vars, TypeInv, TypeOK, Working, Issued
<1> QED BY <1>1, <1>2, <1>3 DEF Next

(* Every reachable state is well typed: rows are complete, a request's     *)
(* memory fits the statement it is about to run (submitGameSession).       *)
THEOREM TypeCorrect == Spec => []TypeOK
<1>1. TypeInv => TypeOK
  BY DEF TypeInv
<1> QED BY <1>1, TypeInit, TypeNext, PTL DEF Spec

----------------------------------------------------------------------------
(* The shapes a request's step can have, for the safety invariants.        *)

OnlyMoves(r) == \A q \in Requests \ {r} : pc'[q] = pc[q] /\ tx'[q] = tx[q]

(* The request is not scoring a set after the step. *)
Outside(r) ==
  /\ pc'[r] \notin Scoring
  /\ UNCHANGED <<clock, played, weak, stats>>
  /\ \/ UNCHANGED sets
     \/ \E s \in SetIds : /\ sets[s].status = "unissued" /\ sets'[s].status = "open"
                          /\ \A p \in SetIds \ {s} : sets'[p] = sets[p]

Claims(r) ==
  /\ pc[r] = "consume" /\ pc'[r] = "weak" /\ tx'[r].set = tx[r].set
  /\ sets[tx[r].set].status = "open" /\ Unblocked(r)
  /\ UNCHANGED <<clock, db>>

Works(r) ==
  /\ pc[r] \in Scoring /\ pc'[r] \in Scoring \ {"commit"} /\ tx'[r].set = tx[r].set
  /\ UNCHANGED <<clock, db>>

Writes(r) ==
  /\ pc[r] \in Scoring /\ pc'[r] = "commit" /\ StatsWrite(r) /\ Unblocked(r)
  /\ \E m \in Int, w \in {Score(tx[r].marks), CurrentStats.weekly + Score(tx[r].marks)} :
       tx'[r] = [tx[r] EXCEPT !.stats = Counted(CurrentStats, tx[r], m, w)]
  /\ UNCHANGED <<clock, db>>

LEMMA NextElementShape ==
  ASSUME TypeInv, NEW r \in Requests, NEW t \in TxRow, pc[r] \in {"weak", "hit"},
         t.set = tx[r].set, NextElement(r, t), UNCHANGED <<clock, db>>
  PROVE  OnlyMoves(r) /\ Works(r)
<1> DEFINE Later == {i \in FirstAsked(sets[t.set].questions) : i > t.at}
<1>1. CASE Later = {}
  BY <1>1 DEF NextElement, Goto, OnlyMoves, Works, Scoring, TypeInv, TypeOK
<1>2. CASE Later # {}
  <2>1. PICK i \in Later : tx' = [tx EXCEPT ![r] = [t EXCEPT !.at = i]]
    BY <1>2 DEF NextElement
  <2>2. [t EXCEPT !.at = i].set = t.set
    BY DEF TxRow
  <2>3. pc' = [pc EXCEPT ![r] = "weak"]
    BY <1>2 DEF NextElement, Goto
  <2> QED BY <2>1, <2>2, <2>3 DEF OnlyMoves, Works, Scoring, TypeInv, TypeOK
<1> QED BY <1>1, <1>2

LEMMA FinishShape ==
  ASSUME TypeInv, NEW r \in Requests, Finish(r), UNCHANGED <<clock, db>>
  PROVE  OnlyMoves(r) /\ Outside(r)
BY DEF Finish, OnlyMoves, Outside, Scoring, db, TypeInv, TypeOK

LEMMA StatementShape ==
  ASSUME TypeInv, NEW r \in Requests, Statement(r)
  PROVE  OnlyMoves(r) /\ (Outside(r) \/ Claims(r) \/ Works(r) \/ Writes(r) \/ Commit(r))
<1> USE DEF At
<1>t. /\ tx \in [Requests -> TxRow] /\ pc \in [Requests -> Labels]
     /\ tx[r] \in TxRow /\ Working(r)
  BY DEF TypeInv, TypeOK
<1>m. tx[r].after - tx[r].before \in Int /\ tx[r].onCreate \in Int
  BY <1>t DEF TxRow
<1>1. ASSUME NEW s \in SetIds, NEW q \in [Indexes -> Elements], IssueQuestionSet(r, s, q)
      PROVE  OnlyMoves(r) /\ Outside(r)
  BY <1>1 DEF IssueQuestionSet, Finish, OnlyMoves, Outside, Scoring, Issued, TypeInv, TypeOK
<1>2. CASE ReadQuestionSet(r)
  BY <1>2, FinishShape DEF ReadQuestionSet, Goto, OnlyMoves, Outside, Scoring, db, TypeInv, TypeOK
<1>3. CASE CountMasteredBefore(r)
  BY <1>3 DEF CountMasteredBefore, Goto, OnlyMoves, Outside, Scoring, db, TypeInv, TypeOK
<1>4. CASE ConsumeQuestionSet(r)
  <2>1. CASE sets[tx[r].set].status = "open"
    <3>1. [tx[r] EXCEPT !.consumed = TRUE].set = tx[r].set
      BY <1>t DEF TxRow
    <3> QED BY <1>4, <1>t, <2>1, <3>1 DEF ConsumeQuestionSet, Goto, OnlyMoves, Claims
  <2> QED BY <1>4, <2>1, FinishShape DEF ConsumeQuestionSet
<1>5. CASE UpsertMissedElement(r)
  <2>1. PICK v : NextElement(r, [tx[r] EXCEPT !.weak[Question(r)] = v])
                 /\ v = IF weak[Question(r)] = NoRow
                          THEN [id |-> tx[r].set, miss |-> MissesOn(r, Question(r)), hit |-> 0]
                          ELSE [id |-> weak[Question(r)].id,
                                miss |-> weak[Question(r)].miss + MissesOn(r, Question(r)),
                                hit |-> 0]
    BY <1>5 DEF UpsertMissedElement
  <2>2. Question(r) \in Elements /\ MissesOn(r, Question(r)) \in Nat
    BY <1>5, AskedType DEF UpsertMissedElement
  <2>3. v \in WeakRow
    BY <1>5, <1>t, <2>1, <2>2 DEF UpsertMissedElement, WeakRow, TypeInv, TypeOK, Working
  <2>4. /\ [tx[r] EXCEPT !.weak[Question(r)] = v] \in TxRow
        /\ [tx[r] EXCEPT !.weak[Question(r)] = v].set = tx[r].set
    BY <1>t, <2>2, <2>3 DEF TxRow
  <2> QED BY <1>5, <2>1, <2>4, NextElementShape DEF UpsertMissedElement
<1>6. CASE FindWeakElement(r)
  <2>1. CASE weak[Question(r)] = NoRow
    BY <1>6, <2>1, <1>t, NextElementShape DEF FindWeakElement
  <2>2. CASE weak[Question(r)] # NoRow
    <3>1. [tx[r] EXCEPT !.seen = weak[Question(r)]].set = tx[r].set
      BY <1>t DEF TxRow
    <3> QED BY <1>6, <1>t, <2>2, <3>1 DEF FindWeakElement, Goto, OnlyMoves, Works, Scoring
  <2> QED BY <2>1, <2>2
<1>7. CASE HitWeakElement(r)
  <2>1. CASE weak[Question(r)] = NoRow \/ weak[Question(r)].id # tx[r].seen.id
    BY <1>7, <2>1, FinishShape DEF HitWeakElement
  <2>2. CASE ~(weak[Question(r)] = NoRow \/ weak[Question(r)].id # tx[r].seen.id)
    <3>1. PICK v : NextElement(r, [tx[r] EXCEPT !.weak[Question(r)] = v])
                   /\ v = IF tx[r].seen.hit + 1 >= MasteredConsecutiveHits THEN NoRow
                          ELSE [weak[Question(r)] EXCEPT !.hit = weak[Question(r)].hit + 1]
      BY <1>7, <2>2 DEF HitWeakElement
    <3>2. Question(r) \in Elements
      BY <1>7, AskedType DEF HitWeakElement
    <3>3. weak[Question(r)] \in WeakRow
      BY <2>2, <3>2 DEF TypeInv, TypeOK
    <3>4. v \in WeakRow \cup {NoRow}
      BY <3>1, <3>3 DEF WeakRow
    <3>5. /\ [tx[r] EXCEPT !.weak[Question(r)] = v] \in TxRow
          /\ [tx[r] EXCEPT !.weak[Question(r)] = v].set = tx[r].set
      BY <1>t, <3>2, <3>4 DEF TxRow
    <3> QED BY <1>7, <3>1, <3>5, NextElementShape DEF HitWeakElement
  <2> QED BY <2>1, <2>2
<1>8. CASE CountMasteredAfter(r)
  <2>1. \A n : [tx[r] EXCEPT !.after = n].set = tx[r].set
    BY <1>t DEF TxRow
  <2> QED BY <1>8, <1>t, <2>1 DEF CountMasteredAfter, Goto, OnlyMoves, Works, Scoring
<1>9. CASE ReadStats(r) \/ RereadStats(r)
  BY <1>9, <1>t DEF ReadStats, RereadStats, BranchOnWeek, Goto, OnlyMoves, Works, Scoring
<1>10. CASE CountMasteredOnCreate(r)
  <2>1. \A n : [tx[r] EXCEPT !.onCreate = n].set = tx[r].set
    BY <1>t DEF TxRow
  <2> QED BY <1>10, <1>t, <2>1 DEF CountMasteredOnCreate, Goto, OnlyMoves, Works, Scoring
<1>11. CASE CreateStats(r)
  <2>1. CASE stats = NoRow
    BY <1>11, <1>t, <1>m, <2>1
       DEF CreateStats, WriteStats, StatsWrite, CurrentStats, Goto, OnlyMoves, Writes, Scoring
  <2>2. CASE stats # NoRow
    BY <1>11, <1>t, <2>2 DEF CreateStats, Goto, OnlyMoves, Works, Scoring
  <2> QED BY <2>1, <2>2
<1>12. CASE ReplaceStaleWeek(r)
  <2>1. CASE stats.week # WeekOf(tx[r].now)
    BY <1>12, <1>t, <1>m, <2>1
       DEF ReplaceStaleWeek, WriteStats, StatsWrite, CurrentStats, Goto, OnlyMoves, Writes,
           Scoring, Working
  <2>2. CASE stats.week = WeekOf(tx[r].now)
    BY <1>12, <1>t, <2>2 DEF ReplaceStaleWeek, Goto, OnlyMoves, Works, Scoring
  <2> QED BY <2>1, <2>2
<1>13. CASE IncrementStats(r)
  BY <1>13, <1>t, <1>m
     DEF IncrementStats, WriteStats, StatsWrite, CurrentStats, Goto, OnlyMoves, Writes, Scoring,
         Working
<1>14. CASE Commit(r)
  BY <1>14, <1>t DEF Commit, Finish, OnlyMoves
<1> QED
  BY <1>1, <1>2, <1>3, <1>4, <1>5, <1>6, <1>7, <1>8, <1>9, <1>10, <1>11, <1>12, <1>13, <1>14
  DEF Statement

LEMMA RequestShape ==
  ASSUME TypeInv, NEW r \in Requests,
         Arrival(r) \/ Statement(r) \/ Rollback(r) \/ DeadlockVictim(r)
  PROVE  OnlyMoves(r) /\ (Outside(r) \/ Claims(r) \/ Works(r) \/ Writes(r) \/ Commit(r))
<1>1. Rollback(r) \/ DeadlockVictim(r) => OnlyMoves(r) /\ Outside(r)
  BY FinishShape DEF Rollback, DeadlockVictim
<1>2. Arrival(r) => OnlyMoves(r) /\ Outside(r)
  BY DEF Arrival, ReadCandidates, StartSubmit, Goto, OnlyMoves, Outside, Scoring, db, TypeInv,
         TypeOK
<1> QED BY <1>1, <1>2, StatementShape

----------------------------------------------------------------------------
(* Safety. *)

Safe == Locks /\ PendingInv /\ WeeklyWithinAllTime /\ ScoredOnce /\ NoSetLost

LEMMA SafeInit == Init => IInv
<1> SUFFICES ASSUME Init PROVE IInv
  OBVIOUS
<1>1. TypeInv
  BY TypeInit
<1>2. Locks /\ PendingInv /\ WeeklyWithinAllTime
  BY DEF Init, Locks, PendingInv, WeeklyWithinAllTime, BlankTx
<1>3. ScoredOnce /\ NoSetLost
  BY DEF Init, ScoredOnce, NoSetLost, NoQuestions
<1> QED BY <1>1, <1>2, <1>3 DEF IInv

(* A row a request has written is well typed and is the only written one.  *)
LEMMA CommitFacts ==
  ASSUME IInv, NEW r \in Requests, pc[r] = "commit"
  PROVE  /\ tx[r].set \in SetIds /\ tx[r].stats \in StatsRow /\ tx[r].consumed
         /\ sets[tx[r].set] \in SetRow /\ sets[tx[r].set].status = "open"
         /\ \A q \in Requests \ {r} : pc[q] # "commit"
         /\ Pending(r)
<1>1. tx[r] \in TxRow /\ Working(r) /\ \A q \in Requests : Working(q)
  BY DEF IInv, TypeInv, TypeOK
<1>2. tx[r].set \in SetIds /\ tx[r].stats \in StatsRow /\ tx[r].consumed
  BY <1>1 DEF Working, Scoring, TxRow
<1>3. sets[tx[r].set] \in SetRow /\ sets[tx[r].set].status = "open"
  BY <1>2 DEF IInv, Locks, TypeInv, TypeOK, NoQuestions
<1> QED BY <1>1, <1>2, <1>3 DEF IInv, Locks, PendingInv, Working

LEMMA PlayedRows ==
  ASSUME TypeInv
  PROVE  /\ DOMAIN played = 1 .. Len(played) /\ Len(played) \in Nat
         /\ \A i \in DOMAIN played : played[i].set \in SetIds
<1>1. played \in Seq(SessionRow)
  BY DEF TypeInv, TypeOK
<1>2. DOMAIN played = 1 .. Len(played) /\ Len(played) \in Nat
  BY <1>1
<1>3. \A i \in 1 .. Len(played) : played[i] \in SessionRow
  BY <1>1, ElementOfSeq
<1> QED BY <1>2, <1>3 DEF SessionRow

LEMMA CommitKeepsSafe ==
  ASSUME IInv, TypeInv', NEW r \in Requests, OnlyMoves(r), Commit(r)
  PROVE  Safe'
<1> DEFINE s0 == tx[r].set
<1>f. /\ s0 \in SetIds /\ tx[r].stats \in StatsRow /\ tx[r].consumed
      /\ sets[s0] \in SetRow /\ sets[s0].status = "open"
      /\ \A q \in Requests \ {r} : pc[q] # "commit"
      /\ Pending(r)
  BY CommitFacts DEF Commit, At
<1>s. /\ sets \in [SetIds -> SetRow \cup {NoQuestions}]
      /\ sets' = [sets EXCEPT ![s0].status = "gone"]
      /\ sets'[s0].status = "gone" /\ sets'[s0].expiresAt = sets[s0].expiresAt
      /\ \A s \in SetIds \ {s0} : sets'[s] = sets[s]
  BY <1>f DEF Commit, IInv, TypeInv, TypeOK, SetRow
<1>p. /\ played \in Seq(SessionRow) /\ Session(tx[r]) \in SessionRow
      /\ Session(tx[r]).set = s0
      /\ Len(played') = Len(played) + 1 /\ DOMAIN played' = 1 .. (Len(played) + 1)
      /\ DOMAIN played = 1 .. Len(played)
      /\ \A i \in 1 .. Len(played) : played'[i] = played[i]
      /\ played'[Len(played) + 1].set = s0
      /\ \A i \in 1 .. Len(played) : played[i].set \in SetIds
  <2>1. played \in Seq(SessionRow) /\ tx[r] \in TxRow
    BY DEF IInv, TypeInv, TypeOK
  <2>2. Session(tx[r]) \in SessionRow /\ Session(tx[r]).set = s0
    BY <1>f, <2>1, SessionType DEF Session
  <2>3. played' = Append(played, Session(tx[r]))
    BY DEF Commit
  <2>4. /\ Append(played, Session(tx[r])) \in Seq(SessionRow)
        /\ Len(Append(played, Session(tx[r]))) = Len(played) + 1
        /\ \A i \in 1 .. Len(played) : Append(played, Session(tx[r]))[i] = played[i]
        /\ Append(played, Session(tx[r]))[Len(played) + 1] = Session(tx[r])
    BY <2>1, <2>2, AppendProperties
  <2>5. played' \in Seq(SessionRow)
    BY <2>3, <2>4
  <2>6. DOMAIN played' = 1 .. Len(played')
    BY <2>5
  <2> HIDE DEF s0
  <2> QED BY <2>1, <2>2, <2>3, <2>4, <2>6, PlayedRows DEF IInv
<1>r. pc'[r] = "idle" /\ ~tx'[r].consumed /\ tx'[r].stats = Unwritten
  BY DEF Commit, Finish, BlankTx, IInv, TypeInv, TypeOK
<1>1. Locks'
  <2>1. \A q \in Requests : tx[q].consumed => tx[q].set \in SetIds
    BY DEF IInv, TypeInv, Working, Scoring
  <2> QED BY <1>f, <1>s, <1>r, <2>1 DEF Locks, OnlyMoves, IInv
<1>2. PendingInv'
  BY <1>f, <1>r DEF PendingInv, OnlyMoves
<1>3. WeeklyWithinAllTime'
  BY <1>f DEF WeeklyWithinAllTime, Pending, Commit
<1>4. ScoredOnce'
  <2>1. \A i \in 1 .. Len(played) : played[i].set # s0
    BY <1>f, <1>p DEF IInv, ScoredOnce
  <2> QED BY <1>s, <1>p, <2>1, SMTT(30) DEF IInv, ScoredOnce
<1>5. NoSetLost'
  <2> SUFFICES ASSUME NEW s \in SetIds, sets'[s].status = "gone"
               PROVE  (\E i \in DOMAIN played' : played'[i].set = s) \/ sets'[s].expiresAt <= clock'
    BY DEF NoSetLost
  <2>1. CASE s = s0
    BY <1>p, <2>1
  <2>2. CASE s # s0
    BY <1>p, <1>s, <2>2 DEF IInv, NoSetLost, Commit
  <2> QED BY <2>1, <2>2
<1> QED BY <1>1, <1>2, <1>3, <1>4, <1>5 DEF Safe

LEMMA WritesKeepsSafe ==
  ASSUME IInv, TypeInv', NEW r \in Requests, OnlyMoves(r), Writes(r)
  PROVE  Safe'
<1>c. UNCHANGED <<clock, sets, played, weak, stats>> /\ CurrentStats' = CurrentStats
  BY DEF Writes, db, CurrentStats
<1>t. tx[r] \in TxRow /\ tx[r].consumed /\ CurrentStats \in StatsRow
  BY DEF Writes, IInv, TypeInv, TypeOK, Working, CurrentStats, NewStats, StatsRow, NullWeek
<1>1. PICK m \in Int, w \in {Score(tx[r].marks), CurrentStats.weekly + Score(tx[r].marks)} :
        tx'[r] = [tx[r] EXCEPT !.stats = Counted(CurrentStats, tx[r], m, w)]
  BY DEF Writes
<1>2. /\ tx'[r].stats = Counted(CurrentStats, tx[r], m, w) /\ tx'[r].set = tx[r].set
      /\ tx'[r].marks = tx[r].marks
  BY <1>1, <1>t DEF TxRow
<1>3. w <= CurrentStats.allTime + Score(tx[r].marks)
  <2>1. CurrentStats.weekly <= CurrentStats.allTime
    BY DEF CurrentStats, IInv, WeeklyWithinAllTime, NewStats
  <2>2. CurrentStats.weekly \in Nat /\ CurrentStats.allTime \in Nat /\ Score(tx[r].marks) \in Nat
    BY <1>t, CountType DEF StatsRow
  <2> QED BY <2>1, <2>2
<1>4. Pending(r)'
  BY <1>c, <1>2, <1>3 DEF Pending, Counted
<1>5. \A q \in Requests \ {r} : tx[q].stats = Unwritten
  BY DEF Writes, Unblocked, WaitsFor
<1>6. \A q \in Requests \ {r} : pc'[q] # "commit" /\ tx'[q] = tx[q]
  BY <1>5 DEF OnlyMoves, IInv, TypeInv, Working
<1>7. Locks'
  BY <1>c, <1>t, <1>2, <1>5, <1>6 DEF Locks, IInv
<1>8. PendingInv'
  BY <1>4, <1>6 DEF PendingInv
<1>9. (WeeklyWithinAllTime /\ ScoredOnce /\ NoSetLost)'
  BY <1>c DEF IInv, WeeklyWithinAllTime, ScoredOnce, NoSetLost
<1> QED BY <1>7, <1>8, <1>9 DEF Safe

LEMMA OtherStepsKeepSafe ==
  ASSUME IInv, TypeInv', NEW r \in Requests, OnlyMoves(r), Outside(r) \/ Claims(r) \/ Works(r)
  PROVE  Safe'
<1>c. UNCHANGED <<clock, played, weak, stats>> /\ CurrentStats' = CurrentStats
  BY DEF Outside, Claims, Works, db, CurrentStats
<1>s. \A s \in SetIds : \/ sets'[s] = sets[s]
                        \/ sets[s].status = "unissued" /\ sets'[s].status = "open"
  BY DEF Outside, Claims, Works, db
<1>w. /\ \A q \in Requests : Working(q) /\ Working(q)' /\ tx[q] \in TxRow
      /\ \A q \in Requests : tx[q].consumed => tx[q].set \in SetIds
  BY DEF IInv, TypeInv, TypeOK, Working, Scoring
<1>1. pc'[r] # "commit" /\ tx'[r].stats = Unwritten
  BY <1>w DEF Outside, Claims, Works, Working, Scoring
<1>2. PendingInv'
  BY <1>c, <1>1 DEF PendingInv, Pending, OnlyMoves, IInv
<1>3. \A q, p \in Requests : q # p => (tx[q].stats = Unwritten \/ tx[p].stats = Unwritten)'
  BY <1>1 DEF OnlyMoves, IInv, Locks
<1>4. /\ \A q \in Requests : (tx[q].consumed => sets[tx[q].set].status = "open")'
      /\ \A q, p \in Requests :
           (q # p /\ tx[q].consumed /\ tx[p].consumed => tx[q].set # tx[p].set)'
  <2>1. CASE Outside(r)
    BY <2>1, <1>w, <1>s DEF Outside, OnlyMoves, IInv, Locks, Working
  <2>2. CASE Claims(r)
    <3>1. \A q \in Requests \ {r} : tx[q].consumed => tx[q].set # tx[r].set
      BY <2>2 DEF Claims, Unblocked, WaitsFor
    <3> QED BY <2>2, <3>1 DEF Claims, OnlyMoves, IInv, Locks, db
  <2>3. CASE Works(r)
    BY <2>3, <1>w DEF Works, OnlyMoves, IInv, Locks, Working, db
  <2> QED BY <2>1, <2>2, <2>3
<1>5. Locks'
  BY <1>3, <1>4 DEF Locks
<1>6. (WeeklyWithinAllTime /\ ScoredOnce)'
  <2>1. \A i \in DOMAIN played : played[i].set \in SetIds
    BY PlayedRows DEF IInv
  <2> QED BY <1>c, <1>s, <2>1 DEF IInv, WeeklyWithinAllTime, ScoredOnce
<1>7. NoSetLost'
  BY <1>c, <1>s DEF IInv, NoSetLost
<1> QED BY <1>2, <1>5, <1>6, <1>7 DEF Safe

LEMMA EnvironmentKeepsSafe ==
  ASSUME IInv, TypeInv', Environment
  PROVE  Safe'
<1>u. UNCHANGED <<pc, tx, played>>
  BY DEF Environment, ResetWeeklyScores, CleanupQuestionSets, DeleteWeakElement,
         CreateStatsAtLogin, Tick, db
<1>n. StatsUnlocked => PendingInv'
  BY <1>u DEF StatsUnlocked, PendingInv, IInv, TypeInv, Working
<1>1. ASSUME NEW t \in 0 .. MaxClock, ResetWeeklyScores(t)
      PROVE  Safe'
  <2>1. stats \in StatsRow
    BY <1>1 DEF ResetWeeklyScores, IInv, TypeInv, TypeOK
  <2>2. stats'.weekly = 0 /\ stats'.allTime = stats.allTime /\ stats.allTime \in Nat
    BY <1>1, <2>1 DEF ResetWeeklyScores, StatsRow
  <2> QED BY <1>1, <1>u, <1>n, <2>2
          DEF ResetWeeklyScores, Safe, IInv, Locks, WeeklyWithinAllTime, ScoredOnce, NoSetLost
<1>2. ASSUME NEW t \in 0 .. MaxClock, t <= clock, CleanupQuestionSets(t)
      PROVE  Safe'
  <2> DEFINE expired == {s \in SetIds : sets[s].status = "open" /\ sets[s].expiresAt <= t}
  <2>1. /\ \A s \in expired : sets'[s].status = "gone" /\ sets'[s].expiresAt = sets[s].expiresAt
        /\ \A s \in SetIds \ expired : sets'[s] = sets[s]
    BY <1>2 DEF CleanupQuestionSets, IInv, TypeInv, TypeOK, SetRow, NoQuestions
  <2>2. Locks'
    <3>1. \A q \in Requests : tx[q].consumed => tx[q].set \in SetIds \ expired
      BY <1>2 DEF CleanupQuestionSets, IInv, TypeInv, TypeOK, Working, Scoring
    <3> QED BY <1>u, <2>1, <3>1 DEF Locks, IInv
  <2>3. ScoredOnce'
    <3>1. \A i \in DOMAIN played : played[i].set \in SetIds \ expired
      BY PlayedRows DEF IInv, ScoredOnce
    <3> QED BY <1>u, <2>1, <3>1 DEF IInv, ScoredOnce
  <2>4. NoSetLost'
    <3>1. \A s \in expired : sets'[s].expiresAt <= clock
      BY <1>2, <2>1 DEF IInv, TypeInv, TypeOK, SetRow, NoQuestions
    <3>2. UNCHANGED clock
      BY <1>2 DEF CleanupQuestionSets
    <3> QED BY <1>u, <2>1, <3>1, <3>2 DEF IInv, NoSetLost
  <2>5. UNCHANGED stats /\ CurrentStats' = CurrentStats
    BY <1>2 DEF CleanupQuestionSets, CurrentStats
  <2> QED BY <1>u, <2>2, <2>3, <2>4, <2>5 DEF Safe, IInv, PendingInv, Pending, WeeklyWithinAllTime
<1>3. ASSUME NEW e \in Elements, DeleteWeakElement(e)
      PROVE  Safe'
  BY <1>3, <1>u DEF DeleteWeakElement, Safe, IInv, Locks, PendingInv, Pending, CurrentStats,
                    WeeklyWithinAllTime, ScoredOnce, NoSetLost
<1>4. CASE CreateStatsAtLogin
  BY <1>4, <1>u, <1>n DEF CreateStatsAtLogin, NewStats, Safe, IInv, Locks, WeeklyWithinAllTime,
                          ScoredOnce, NoSetLost
<1>5. CASE Tick
  <2>1. NoSetLost'
    BY <1>5 DEF Tick, db, IInv, NoSetLost, TypeInv, TypeOK, SetRow, NoQuestions
  <2> QED BY <1>5, <2>1 DEF Tick, db, Safe, IInv, Locks, PendingInv, Pending, CurrentStats,
                            WeeklyWithinAllTime, ScoredOnce
<1> QED BY <1>1, <1>2, <1>3, <1>4, <1>5 DEF Environment

LEMMA SafeNext == IInv /\ [Next]_vars => IInv'
<1> SUFFICES ASSUME IInv, [Next]_vars PROVE IInv'
  OBVIOUS
<1>t. TypeInv'
  BY TypeNext DEF IInv
<1>1. ASSUME NEW r \in Requests, Arrival(r) \/ Statement(r) \/ Rollback(r) \/ DeadlockVictim(r)
      PROVE  Safe'
  BY <1>1, <1>t, RequestShape, CommitKeepsSafe, WritesKeepsSafe, OtherStepsKeepSafe DEF IInv
<1>2. Environment => Safe'
  BY <1>t, EnvironmentKeepsSafe
<1>3. UNCHANGED vars => Safe'
  BY DEF vars, Safe, IInv, Locks, PendingInv, Pending, CurrentStats, WeeklyWithinAllTime,
         ScoredOnce, NoSetLost
<1>4. Safe'
  BY <1>1, <1>2, <1>3 DEF Next
<1> QED BY <1>t, <1>4 DEF IInv, Safe

LEMMA Invariance == Spec => []IInv
BY SafeInit, SafeNext, PTL DEF Spec

(* However submissions of one question set race with each other, with the  *)
(* cleanup job and with rollbacks, it is scored at most once.              *)
THEOREM QuestionSetScoredOnce == Spec => []ScoredOnce
<1>1. IInv => ScoredOnce
  BY DEF IInv
<1> QED BY <1>1, Invariance, PTL

(* A question set leaves the table only scored or expired: a rollback or a *)
(* lost deadlock gives it back to the player.                              *)
THEOREM QuestionSetNotLost == Spec => []NoSetLost
<1>1. IInv => NoSetLost
  BY DEF IInv
<1> QED BY <1>1, Invariance, PTL

(* The weekly score never exceeds the lifetime score.                      *)
THEOREM WeeklyBounded == Spec => []WeeklyWithinAllTime
<1>1. IInv => WeeklyWithinAllTime
  BY DEF IInv
<1> QED BY <1>1, Invariance, PTL

----------------------------------------------------------------------------
(* Refinement of the question set ledger. *)

LEMMA LedgerInit == Init => Ledger!Init
BY DEF Init, Ledger!Init, LedgerStatus, LedgerTotals, CurrentStats, NewStats, NoQuestions

LEMMA CommitIsScore ==
  ASSUME IInv, NEW r \in Requests, Commit(r)
  PROVE  \E s \in SetIds, hits \in 0 .. QuestionCount : Ledger!Score(s, hits)
<1> DEFINE s0 == tx[r].set
           hits == CorrectCount(tx[r].marks)
<1>f. /\ s0 \in SetIds /\ tx[r].stats \in StatsRow /\ sets[s0] \in SetRow
      /\ sets[s0].status = "open" /\ Pending(r)
  BY CommitFacts DEF Commit, At
<1>1. hits \in 0 .. QuestionCount
  <2>1. IsFiniteSet(Indexes) /\ Cardinality(Indexes) = QuestionCount
    BY FS_Interval, GameAssumption DEF Indexes
  <2>2. {i \in Indexes : tx[r].marks[i]} \in SUBSET Indexes
    OBVIOUS
  <2>3. hits <= QuestionCount
    BY <2>1, <2>2, FS_Subset DEF CorrectCount
  <2> QED BY <2>3, CountType, GameAssumption
<1>2. \A i \in DOMAIN played : played[i].set # s0
  BY <1>f DEF IInv, ScoredOnce
<1>3. LedgerStatus[s0] = "open"
  BY <1>f DEF LedgerStatus
<1>4. /\ \A s \in SetIds \ {s0} : sets'[s] = sets[s]
      /\ sets'[s0].status = "gone"
  BY <1>f DEF Commit, IInv, TypeInv, TypeOK, SetRow
<1>5. \A s \in SetIds :
        (\E i \in DOMAIN played' : played'[i].set = s) <=>
        (s = s0 \/ \E i \in DOMAIN played : played[i].set = s)
  <2>1. played \in Seq(SessionRow) /\ Session(tx[r]) \in SessionRow /\ Session(tx[r]).set = s0
    BY <1>f, SessionType DEF IInv, TypeInv, TypeOK, Session
  <2>2. /\ played' \in Seq(SessionRow) /\ Len(played') = Len(played) + 1
        /\ \A i \in 1 .. Len(played) : played'[i] = played[i]
        /\ played'[Len(played) + 1] = Session(tx[r])
    BY <2>1, AppendProperties DEF Commit
  <2>3. DOMAIN played' = 1 .. (Len(played) + 1) /\ DOMAIN played = 1 .. Len(played)
        /\ Len(played) \in Nat
    BY <2>1, <2>2, LenProperties
  <2> HIDE DEF s0
  <2> QED BY <2>1, <2>2, <2>3
<1>6. LedgerStatus' = [LedgerStatus EXCEPT ![s0] = "scored"]
  <2> DEFINE scored(s) == \E i \in DOMAIN played : played[i].set = s
             now(s) == \E i \in DOMAIN played' : played'[i].set = s
             of(s, b) == IF sets[s].status # "gone" THEN sets[s].status ELSE IF b THEN "scored" ELSE "dropped"
             next(s, b) == IF sets'[s].status # "gone" THEN sets'[s].status ELSE IF b THEN "scored" ELSE "dropped"
  <2>1. LedgerStatus = [s \in SetIds |-> of(s, scored(s))] /\ LedgerStatus' = [s \in SetIds |-> next(s, now(s))]
    BY DEF LedgerStatus
  <2>2. next(s0, now(s0)) = "scored"
    BY <1>f, <1>4, <1>5
  <2>3. ASSUME NEW s \in SetIds \ {s0} PROVE next(s, now(s)) = of(s, scored(s))
    BY <1>4, <1>5
  <2> HIDE DEF scored, now, of, next, s0
  <2> QED BY <1>f, <2>1, <2>2, <2>3
<1>7. LedgerTotals' = [games |-> LedgerTotals.games + 1,
                       correct |-> LedgerTotals.correct + hits,
                       answered |-> LedgerTotals.answered + QuestionCount,
                       score |-> LedgerTotals.score + BaseCorrectScore * hits]
  <2>1. CurrentStats' = tx[r].stats
    BY <1>f, MarkerAssumption DEF Commit, CurrentStats
  <2> QED BY <1>f, <2>1 DEF LedgerTotals, Pending, Score
<1> QED BY <1>f, <1>1, <1>3, <1>6, <1>7 DEF Ledger!Score

LEMMA RequestIsLedgerStep ==
  ASSUME IInv, NEW r \in Requests, Outside(r) \/ Claims(r) \/ Works(r) \/ Writes(r)
  PROVE  UNCHANGED <<LedgerStatus, LedgerTotals>> \/ \E s \in SetIds : Ledger!Issue(s)
<1>1. UNCHANGED <<played, stats>> /\ LedgerTotals' = LedgerTotals
  BY DEF Outside, Claims, Works, Writes, db, LedgerTotals, CurrentStats
<1>2. UNCHANGED sets => LedgerStatus' = LedgerStatus
  BY <1>1 DEF LedgerStatus
<1>3. ASSUME NEW s \in SetIds, sets[s].status = "unissued", sets'[s].status = "open",
             \A p \in SetIds \ {s} : sets'[p] = sets[p]
      PROVE  Ledger!Issue(s)
  BY <1>1, <1>3 DEF LedgerStatus, Ledger!Issue
<1> QED BY <1>1, <1>2, <1>3 DEF Outside, Claims, Works, Writes, db

LEMMA EnvironmentIsLedgerStep ==
  ASSUME IInv, Environment
  PROVE  UNCHANGED <<LedgerStatus, LedgerTotals>> \/ \E S \in SUBSET SetIds : Ledger!Drop(S)
<1>1. ASSUME NEW t \in 0 .. MaxClock, ResetWeeklyScores(t)
      PROVE  UNCHANGED <<LedgerStatus, LedgerTotals>>
  <2>1. stats \in StatsRow
    BY <1>1 DEF ResetWeeklyScores, IInv, TypeInv, TypeOK
  <2>2. /\ stats'.games = stats.games /\ stats'.correct = stats.correct
        /\ stats'.answered = stats.answered /\ stats'.allTime = stats.allTime
    BY <1>1, <2>1 DEF ResetWeeklyScores, StatsRow
  <2>3. stats # NoRow /\ stats' # NoRow
    <3>1. \A row \in StatsRow, w \in Int : /\ [row EXCEPT !.weekly = 0] \in StatsRow
                                           /\ [row EXCEPT !.week = w] \in StatsRow
      BY DEF StatsRow
    <3>2. WeekOf(t) \in Int
      BY WeekType, GameAssumption
    <3>3. stats' \in StatsRow
      BY <1>1, <2>1, <3>1, <3>2 DEF ResetWeeklyScores
    <3> QED BY <2>1, <3>3, MarkerAssumption
  <2> QED BY <1>1, <2>2, <2>3 DEF ResetWeeklyScores, LedgerStatus, LedgerTotals, CurrentStats
<1>2. ASSUME NEW t \in 0 .. MaxClock, CleanupQuestionSets(t)
      PROVE  \E S \in SUBSET SetIds : Ledger!Drop(S)
  <2> DEFINE expired == {s \in SetIds : sets[s].status = "open" /\ sets[s].expiresAt <= t}
  <2>1. /\ \A s \in expired : sets'[s].status = "gone"
        /\ \A s \in SetIds \ expired : sets'[s] = sets[s]
    BY <1>2 DEF CleanupQuestionSets, IInv, TypeInv, TypeOK, SetRow, NoQuestions
  <2>2. \A s \in expired : ~\E i \in DOMAIN played : played[i].set = s
    BY DEF IInv, ScoredOnce
  <2>3. UNCHANGED <<played, stats>> /\ LedgerTotals' = LedgerTotals
    BY <1>2 DEF CleanupQuestionSets, LedgerTotals, CurrentStats
  <2>4. LedgerStatus' = [s \in SetIds |-> IF s \in expired THEN "dropped" ELSE LedgerStatus[s]]
    BY <2>1, <2>2, <2>3 DEF LedgerStatus
  <2>5. \A s \in expired : LedgerStatus[s] = "open"
    BY DEF LedgerStatus
  <2>6. Ledger!Drop(expired)
    BY <2>3, <2>4, <2>5 DEF Ledger!Drop
  <2> QED BY <2>6
<1>3. ASSUME NEW e \in Elements, DeleteWeakElement(e)
      PROVE  UNCHANGED <<LedgerStatus, LedgerTotals>>
  BY <1>3 DEF DeleteWeakElement, LedgerStatus, LedgerTotals, CurrentStats
<1>4. CreateStatsAtLogin => UNCHANGED <<LedgerStatus, LedgerTotals>>
  <2>1. NewStats \in StatsRow
    BY DEF NewStats, StatsRow, NullWeek
  <2> QED BY <2>1, MarkerAssumption DEF CreateStatsAtLogin, LedgerStatus, LedgerTotals, CurrentStats
<1>5. Tick => UNCHANGED <<LedgerStatus, LedgerTotals>>
  BY DEF Tick, db, LedgerStatus, LedgerTotals, CurrentStats
<1> QED BY <1>1, <1>2, <1>3, <1>4, <1>5 DEF Environment

(* submitGameSession with all its statements and rollbacks, next to the    *)
(* jobs, implements the atomic ledger: a set is scored in one step that    *)
(* moves the user's totals by exactly its answers.                         *)
THEOREM ImplementsLedger == Spec => LedgerSpec
<1>1. IInv /\ [Next]_vars => [Ledger!Next]_<<LedgerStatus, LedgerTotals>>
  <2> SUFFICES ASSUME IInv, [Next]_vars PROVE [Ledger!Next]_<<LedgerStatus, LedgerTotals>>
    OBVIOUS
  <2>1. ASSUME NEW r \in Requests,
               Arrival(r) \/ Statement(r) \/ Rollback(r) \/ DeadlockVictim(r)
        PROVE  [Ledger!Next]_<<LedgerStatus, LedgerTotals>>
    BY <2>1, RequestShape, RequestIsLedgerStep, CommitIsScore DEF IInv, Ledger!Next
  <2>2. Environment => [Ledger!Next]_<<LedgerStatus, LedgerTotals>>
    BY EnvironmentIsLedgerStep DEF Ledger!Next
  <2>3. UNCHANGED vars => UNCHANGED <<LedgerStatus, LedgerTotals>>
    BY DEF vars, LedgerStatus, LedgerTotals, CurrentStats
  <2> QED BY <2>1, <2>2, <2>3 DEF Next
<1> QED BY <1>1, LedgerInit, Invariance, PTL DEF Spec, LedgerSpec, Ledger!Spec, Ledger!ledger

----------------------------------------------------------------------------
(* The lifetime totals. *)

LEMMA SavedSession ==
  ASSUME IInv, NEW r \in Requests, Commit(r)
  PROVE  /\ Len(played) \in Nat /\ Len(played') = Len(played) + 1
         /\ DOMAIN played = 1 .. Len(played) /\ DOMAIN played' = 1 .. (Len(played) + 1)
         /\ \A i \in 1 .. Len(played) : played[i] \in SessionRow /\ played'[i] = played[i]
         /\ played'[Len(played) + 1] = Session(tx[r]) /\ Session(tx[r]) \in SessionRow
<1>1. tx[r].set \in SetIds /\ tx[r] \in TxRow /\ played \in Seq(SessionRow)
  BY CommitFacts DEF Commit, At, IInv, TypeInv, TypeOK
<1>2. Session(tx[r]) \in SessionRow
  BY <1>1, SessionType
<1>3. /\ played' \in Seq(SessionRow) /\ Len(played') = Len(played) + 1
      /\ \A i \in 1 .. Len(played) : played'[i] = played[i]
      /\ played'[Len(played) + 1] = Session(tx[r])
  BY <1>1, <1>2, AppendProperties DEF Commit
<1>4. \A i \in 1 .. Len(played) : played[i] \in SessionRow
  BY <1>1, ElementOfSeq
<1>5. Len(played) \in Nat /\ DOMAIN played = 1 .. Len(played) /\ DOMAIN played' = 1 .. Len(played')
  BY <1>1, <1>3, LenProperties
<1> QED BY <1>2, <1>3, <1>4, <1>5

(* The sum of a number of each session grows by that of the new one. *)
LEMMA SessionSum ==
  ASSUME NEW n \in Nat, NEW f, NEW g, DOMAIN f = 1 .. n, DOMAIN g = 1 .. (n + 1),
         \A i \in 1 .. n : f[i] \in Int /\ g[i] = f[i], g[n + 1] \in Int
  PROVE  SumFunction(g) = SumFunction(f) + g[n + 1]
BY SumAppend DEF SumFunction

LEMMA CommitKeepsTotals ==
  ASSUME IInv, NEW r \in Requests, Commit(r), TotalsMatchHistory
  PROVE  TotalsMatchHistory'
<1> DEFINE n == Len(played)
           row == Session(tx[r])
<1>p. /\ n \in Nat /\ Len(played') = n + 1
      /\ DOMAIN played = 1 .. n /\ DOMAIN played' = 1 .. (n + 1)
      /\ \A i \in 1 .. n : played[i] \in SessionRow /\ played'[i] = played[i]
      /\ played'[n + 1] = row /\ row \in SessionRow
  BY SavedSession
<1>r. row.correct = CorrectCount(tx[r].marks) /\ row.score = Score(tx[r].marks)
  BY DEF Session
<1>c. CurrentStats' = tx[r].stats /\ Pending(r)
  BY CommitFacts, MarkerAssumption DEF Commit, At, CurrentStats
<1> HIDE DEF row
<1>1. SumFunction([i \in DOMAIN played' |-> played'[i].correct])
        = SumFunction([i \in DOMAIN played |-> played[i].correct]) + row.correct
  <2> DEFINE f == [i \in DOMAIN played |-> played[i].correct]
             g == [i \in DOMAIN played' |-> played'[i].correct]
  <2>1. DOMAIN f = 1 .. n /\ DOMAIN g = 1 .. (n + 1) /\ g[n + 1] = row.correct
    BY <1>p
  <2>2. row.correct \in Int /\ \A i \in 1 .. n : f[i] \in Int /\ g[i] = f[i]
    BY <1>p DEF SessionRow
  <2> HIDE DEF f, g, n
  <2>3. SumFunction(g) = SumFunction(f) + g[n + 1]
    BY <1>p, <2>1, <2>2, SessionSum
  <2> QED BY <2>1, <2>3 DEF f, g
<1>2. SumFunction([i \in DOMAIN played' |-> played'[i].score])
        = SumFunction([i \in DOMAIN played |-> played[i].score]) + row.score
  <2> DEFINE f == [i \in DOMAIN played |-> played[i].score]
             g == [i \in DOMAIN played' |-> played'[i].score]
  <2>1. DOMAIN f = 1 .. n /\ DOMAIN g = 1 .. (n + 1) /\ g[n + 1] = row.score
    BY <1>p
  <2>2. row.score \in Int /\ \A i \in 1 .. n : f[i] \in Int /\ g[i] = f[i]
    BY <1>p DEF SessionRow
  <2> HIDE DEF f, g, n
  <2>3. SumFunction(g) = SumFunction(f) + g[n + 1]
    BY <1>p, <2>1, <2>2, SessionSum
  <2> QED BY <2>1, <2>3 DEF f, g
<1>3. CurrentStats'.games = Len(played')
  BY <1>p, <1>c DEF Pending, TotalsMatchHistory
<1>4. CurrentStats'.answered = QuestionCount * Len(played')
  <2>1. QuestionCount * (n + 1) = QuestionCount * n + QuestionCount
    BY <1>p, GameAssumption
  <2> QED BY <1>p, <1>c, <2>1 DEF Pending, TotalsMatchHistory
<1>5. CurrentStats'.correct = SumFunction([i \in DOMAIN played' |-> played'[i].correct])
  BY <1>r, <1>c, <1>1 DEF Pending, TotalsMatchHistory
<1>6. CurrentStats'.allTime = SumFunction([i \in DOMAIN played' |-> played'[i].score])
  BY <1>r, <1>c, <1>2 DEF Pending, TotalsMatchHistory
<1> QED BY <1>3, <1>4, <1>5, <1>6 DEF TotalsMatchHistory

(* Every other step leaves the history and the totals alone. *)
LEMMA OthersKeepTotals ==
  ASSUME UNCHANGED <<LedgerTotals, played>>, TotalsMatchHistory
  PROVE  TotalsMatchHistory'
<1>1. /\ CurrentStats'.games = CurrentStats.games /\ CurrentStats'.correct = CurrentStats.correct
      /\ CurrentStats'.answered = CurrentStats.answered /\ CurrentStats'.allTime = CurrentStats.allTime
  BY DEF LedgerTotals
<1> QED BY <1>1 DEF TotalsMatchHistory

LEMMA TotalsInit == Init => TotalsMatchHistory
<1> SUFFICES ASSUME Init PROVE TotalsMatchHistory
  OBVIOUS
<1>1. DOMAIN played = {} /\ Len(played) = 0 /\ CurrentStats = NewStats
  BY DEF Init, CurrentStats
<1>2. \A f : DOMAIN f = {} => SumFunction(f) = 0
  BY SumEmpty DEF SumFunction
<1> QED BY <1>1, <1>2, GameAssumption DEF TotalsMatchHistory, NewStats

LEMMA TotalsNext == IInv /\ [Next]_vars /\ TotalsMatchHistory => TotalsMatchHistory'
<1> SUFFICES ASSUME IInv, [Next]_vars, TotalsMatchHistory PROVE TotalsMatchHistory'
  OBVIOUS
<1>1. ASSUME NEW r \in Requests,
             Arrival(r) \/ Statement(r) \/ Rollback(r) \/ DeadlockVictim(r)
      PROVE  TotalsMatchHistory'
  <2>1. Commit(r) \/ UNCHANGED <<LedgerTotals, played>>
    BY <1>1, RequestShape DEF IInv, Outside, Claims, Works, Writes, db, LedgerTotals, CurrentStats
  <2> QED BY <2>1, CommitKeepsTotals, OthersKeepTotals
<1>2. CASE Environment
  <2>1. LedgerTotals' = LedgerTotals
    BY <1>2, EnvironmentIsLedgerStep DEF Ledger!Drop
  <2>2. played' = played
    BY <1>2 DEF Environment, ResetWeeklyScores, CleanupQuestionSets, DeleteWeakElement,
                CreateStatsAtLogin, Tick, db
  <2> QED BY <2>1, <2>2, OthersKeepTotals
<1>3. UNCHANGED vars => UNCHANGED <<LedgerTotals, played>>
  BY DEF vars, LedgerTotals, CurrentStats
<1> QED BY <1>1, <1>2, <1>3, OthersKeepTotals DEF Next

(* The totals of UserStats are the sums over the saved sessions, for any    *)
(* number of requests, sets and weeks: the create, re-read, replace and     *)
(* increment paths of submitGameSession lose and repeat nothing.            *)
THEOREM TotalsAreSums == Spec => []TotalsMatchHistory
BY TotalsInit, TotalsNext, Invariance, PTL DEF Spec

----------------------------------------------------------------------------
(* The weak list. *)

Questions(r) == sets[tx[r].set].questions

(* Two transactions never hold the same row. *)
Excludes(r) == \A q \in Requests \ {r}, e \in Elements :
  tx[r].weak[e] = Unwritten \/ tx[q].weak[e] = Unwritten

(* Nothing is written before the set is claimed. *)
Unstarted(r) ==
  pc[r] \notin Scoring => tx[r].at = 1 /\ \A e \in Elements : tx[r].weak[e] = Unwritten

(* A written row is the committed one plus this session's misses; a missed  *)
(* element has one.                                                         *)
Adds(row, old, set, misses) ==
  /\ misses > 0 => row # NoRow /\ row.hit = 0
  /\ row # NoRow =>
       IF old = NoRow THEN row.id = set /\ row.miss = misses
                      ELSE row.id = old.id /\ row.miss = old.miss + misses

PendingWeak(r) == \A e \in Elements :
  tx[r].weak[e] # Unwritten => Adds(tx[r].weak[e], weak[e], tx[r].set, MissesOn(r, e))

(* The loop writes the row of every missed element it has passed. *)
Visited(r) == pc[r] \in Scoring => \A i \in FirstAsked(Questions(r)) :
  MissesOn(r, Questions(r)[i]) > 0 /\ (pc[r] \in {"weak", "hit"} => i < tx[r].at)
    => tx[r].weak[Questions(r)[i]] # Unwritten

Clean(r) == pc[r] = "hit" => MissesOn(r, Question(r)) = 0

WeakTx(r) == Unstarted(r) /\ PendingWeak(r) /\ Visited(r) /\ Clean(r)

WeakInv == \A r \in Requests : WeakTx(r) /\ Excludes(r)

LEMMA WeakInit == Init => WeakInv /\ MissCountExact
BY DEF Init, WeakInv, WeakTx, Excludes, Unstarted, PendingWeak, Visited, Clean, MissCountExact,
       BlankTx, Scoring

(* Questions never change once they are issued. *)
LEMMA QuestionsStay ==
  ASSUME IInv, [Next]_vars, NEW s \in SetIds, Issued(s)
  PROVE  sets'[s].questions = sets[s].questions
<1>1. TypeInv /\ sets[s] \in SetRow
  BY DEF IInv, TypeInv, TypeOK, Issued, NoQuestions
<1>2. ASSUME NEW r \in Requests, Arrival(r) \/ Statement(r) \/ Rollback(r) \/ DeadlockVictim(r)
      PROVE  sets'[s].questions = sets[s].questions
  <2>1. CASE Commit(r)
    BY <1>1, <2>1 DEF Commit, TypeInv, TypeOK, SetRow
  <2> QED BY <1>1, <1>2, <2>1, RequestShape DEF Outside, Claims, Works, Writes, db, Issued
<1>3. CASE Environment
  <2>1. ASSUME NEW t, CleanupQuestionSets(t) PROVE sets'[s].questions = sets[s].questions
    BY <1>1, <2>1 DEF CleanupQuestionSets, SetRow
  <2> QED BY <1>3, <2>1 DEF Environment, ResetWeeklyScores, DeleteWeakElement, CreateStatsAtLogin, Tick, db
<1> QED BY <1>2, <1>3 DEF Next, vars

(* A request that does not move keeps its promises while the rows it has    *)
(* written stay as they are.                                                *)
LEMMA WeakStays ==
  ASSUME IInv, NEW q \in Requests, WeakTx(q), pc'[q] = pc[q], tx'[q] = tx[q],
         \A s \in SetIds : Issued(s) => sets'[s].questions = sets[s].questions,
         \A e \in Elements : tx[q].weak[e] # Unwritten => weak'[e] = weak[e]
  PROVE  WeakTx(q)'
<1>1. CASE pc[q] \notin Scoring
  BY <1>1 DEF WeakTx, Unstarted, PendingWeak, Visited, Clean, Scoring
<1>2. CASE pc[q] \in Scoring
  <2>1. Questions(q)' = Questions(q)
    BY <1>2 DEF IInv, TypeInv, Working, Scoring, Questions
  <2>2. (\A e : MissesOn(q, e)' = MissesOn(q, e)) /\ Question(q)' = Question(q)
    BY <2>1 DEF MissesOn, Question, Questions, Incorrect
  <2> QED BY <1>2, <2>1, <2>2 DEF WeakTx, Unstarted, PendingWeak, Visited, Clean
<1> QED BY <1>1, <1>2

(* A request that is not scoring after its step has written nothing. *)
LEMMA WeakNothing ==
  ASSUME NEW r \in Requests, pc'[r] \notin Scoring, tx'[r].at = 1,
         \A e \in Elements : tx'[r].weak[e] = Unwritten
  PROVE  WeakTx(r)' /\ Excludes(r)'
BY DEF WeakTx, Unstarted, PendingWeak, Visited, Clean, Excludes, Scoring

(* A step within the transaction that writes no weak row. *)
LEMMA WeakQuiet ==
  ASSUME IInv, NEW r \in Requests, WeakTx(r), Excludes(r), OnlyMoves(r), UNCHANGED <<sets, weak>>,
         pc[r] \in Scoring, pc'[r] \in Scoring,
         tx'[r].at = tx[r].at, tx'[r].weak = tx[r].weak, tx'[r].set = tx[r].set,
         tx'[r].marks = tx[r].marks,
         pc'[r] \in {"weak", "hit"} <=> pc[r] \in {"weak", "hit"},
         pc'[r] = "hit" => MissesOn(r, Question(r)) = 0
  PROVE  WeakTx(r)' /\ Excludes(r)'
<1>1. /\ Questions(r)' = Questions(r) /\ Question(r)' = Question(r)
      /\ \A e : MissesOn(r, e)' = MissesOn(r, e)
  BY DEF Questions, Question, MissesOn, Incorrect
<1>2. WeakTx(r)'
  BY <1>1 DEF WeakTx, Unstarted, PendingWeak, Visited, Clean
<1>3. Excludes(r)'
  BY DEF Excludes, OnlyMoves
<1> QED BY <1>2, <1>3

(* Of two integers one is less than the other, or they are the same. *)
LEMMA IntegersCompare ==
  ASSUME NEW i \in Int, NEW j \in Int PROVE i < j \/ i = j \/ i > j
OBVIOUS

(* Where the loop goes: to the next element that is asked, or past the last. *)
LEMMA NextElementMoves ==
  ASSUME TypeInv, NEW r \in Requests, NEW t \in TxRow, NextElement(r, t),
         t.set = tx[r].set
  PROVE  /\ pc'[r] \in {"weak", "after"}
         /\ tx'[r].weak = t.weak /\ tx'[r].set = t.set /\ tx'[r].marks = t.marks
         /\ \A q \in Requests \ {r} : tx'[q] = tx[q]
         /\ \A j \in FirstAsked(Questions(r)) :
              (pc'[r] = "weak" => j < tx'[r].at) => j < t.at \/ j = t.at
<1> DEFINE Later == {i \in FirstAsked(sets[t.set].questions) : i > t.at}
<1>t. pc \in [Requests -> Labels] /\ tx \in [Requests -> TxRow]
  BY DEF TypeInv, TypeOK
<1>1. /\ pc'[r] \in {"weak", "after"}
      /\ tx'[r].weak = t.weak /\ tx'[r].set = t.set /\ tx'[r].marks = t.marks
      /\ pc'[r] = "after" => Later = {}
      /\ pc'[r] = "weak" => tx'[r].at \in Later /\ \A j \in Later : tx'[r].at <= j
      /\ \A q \in Requests \ {r} : tx'[q] = tx[q]
  <2>1. CASE Later = {}
    BY <1>t, <2>1 DEF NextElement, Goto
  <2>2. CASE Later # {}
    <3>1. PICK i \in Later : (\A j \in Later : i <= j) /\ tx' = [tx EXCEPT ![r] = [t EXCEPT !.at = i]]
      BY <2>2 DEF NextElement
    <3>2. pc'[r] = "weak"
      BY <1>t, <2>2 DEF NextElement, Goto
    <3>3. LET u == [t EXCEPT !.at = i] IN u.weak = t.weak /\ u.set = t.set /\ u.marks = t.marks /\ u.at = i
      BY DEF TxRow
    <3>4. tx'[r] = [t EXCEPT !.at = i] /\ \A q \in Requests \ {r} : tx'[q] = tx[q]
      BY <1>t, <3>1
    <3> QED BY <3>1, <3>2, <3>3, <3>4
  <2> QED BY <2>1, <2>2
<1>2. ASSUME NEW j \in FirstAsked(Questions(r)), pc'[r] = "weak" => j < tx'[r].at
      PROVE  j < t.at \/ j = t.at
  <2>1. j \in Indexes /\ t.at \in Indexes /\ Indexes \subseteq Int
    BY DEF FirstAsked, TxRow, Indexes
  <2>2. CASE j > t.at
    <3>1. j \in Later
      BY <2>2 DEF Questions
    <3>2. tx'[r].at \in Int /\ tx'[r].at <= j /\ j < tx'[r].at
      BY <1>1, <1>2, <2>1, <3>1 DEF FirstAsked
    <3> QED BY <2>1, <3>2
  <2>3. j \in Int /\ t.at \in Int
    BY <2>1
  <2>4. j < t.at \/ j = t.at \/ j > t.at
    BY <2>3, IntegersCompare, Zenon
  <2> QED BY <2>2, <2>4, Zenon
<1> QED BY <1>1, <1>2

(* One turn of the loop. *)
LEMMA WeakTurn ==
  ASSUME IInv, NEW r \in Requests, WeakTx(r), Excludes(r), UNCHANGED <<clock, db>>,
         pc[r] \in {"weak", "hit"}, NEW t \in TxRow, NextElement(r, t),
         t.set = tx[r].set, t.marks = tx[r].marks, t.at = tx[r].at,
         \A e \in Elements \ {Question(r)} : t.weak[e] = tx[r].weak[e],
         MissesOn(r, Question(r)) > 0 => t.weak[Question(r)] # Unwritten,
         t.weak[Question(r)] # tx[r].weak[Question(r)] =>
           /\ Adds(t.weak[Question(r)], weak[Question(r)], tx[r].set, MissesOn(r, Question(r)))
           /\ \A q \in Requests \ {r} : tx[q].weak[Question(r)] = Unwritten
  PROVE  WeakTx(r)' /\ Excludes(r)'
<1>t. /\ pc \in [Requests -> Labels] /\ tx \in [Requests -> TxRow] /\ tx[r] \in TxRow
      /\ TypeInv /\ Question(r) \in Elements
  BY AskedType DEF IInv, TypeInv, TypeOK
<1>1. /\ pc'[r] \in {"weak", "after"}
      /\ tx'[r].weak = t.weak /\ tx'[r].set = t.set /\ tx'[r].marks = t.marks
      /\ \A q \in Requests \ {r} : tx'[q] = tx[q]
      /\ \A j \in FirstAsked(Questions(r)) :
           (pc'[r] = "weak" => j < tx'[r].at) => j < t.at \/ j = t.at
  BY <1>t, NextElementMoves
<1>2. /\ Questions(r)' = Questions(r) /\ \A e : MissesOn(r, e)' = MissesOn(r, e)
      /\ weak' = weak
  BY <1>1 DEF Questions, MissesOn, Incorrect, db
<1>3. PendingWeak(r)'
  BY <1>1, <1>2 DEF WeakTx, PendingWeak
<1>4. Visited(r)'
  <2> SUFFICES ASSUME NEW j \in FirstAsked(Questions(r)), MissesOn(r, Questions(r)[j]) > 0,
                      pc'[r] = "weak" => j < tx'[r].at
               PROVE  t.weak[Questions(r)[j]] # Unwritten
    BY <1>1, <1>2 DEF Visited
  <2>1. Questions(r)[j] \in Elements
    BY AskedType DEF IInv, Questions, SetRow, FirstAsked
  <2>2. CASE j < tx[r].at
    <3>1. tx[r].weak[Questions(r)[j]] # Unwritten
      BY <2>2 DEF WeakTx, Visited, Scoring
    <3> QED BY <2>1, <3>1
  <2>3. CASE j = tx[r].at
    BY <2>3 DEF Question, Questions
  <2> QED BY <1>1, <2>2, <2>3
<1>5. Unstarted(r)' /\ Clean(r)'
  BY <1>1 DEF Unstarted, Clean, Scoring
<1>6. Excludes(r)'
  BY <1>1 DEF Excludes
<1> QED BY <1>3, <1>4, <1>5, <1>6 DEF WeakTx

LEMMA WeakFinish ==
  ASSUME IInv, NEW r \in Requests, Finish(r)
  PROVE  WeakTx(r)' /\ Excludes(r)'
<1>1. pc'[r] = "idle" /\ tx'[r] = BlankTx
  BY DEF Finish, IInv, TypeInv, TypeOK
<1> QED BY <1>1, WeakNothing DEF BlankTx, Scoring

(* The statements that read and claim the set, and those after the loop.    *)
LEMMA WeakOtherStatements ==
  ASSUME IInv, NEW r \in Requests, WeakTx(r), Excludes(r),
         \/ Arrival(r) \/ Rollback(r) \/ DeadlockVictim(r)
         \/ Statement(r) /\ pc[r] \notin {"weak", "hit"}
  PROVE  WeakTx(r)' /\ Excludes(r)'
<1> USE DEF At
<1>t. /\ pc \in [Requests -> Labels] /\ tx \in [Requests -> TxRow] /\ tx[r] \in TxRow
  BY DEF IInv, TypeInv, TypeOK
<1>w. pc[r] \notin Scoring => tx[r].at = 1 /\ \A e \in Elements : tx[r].weak[e] = Unwritten
  BY DEF WeakTx, Unstarted
<1> DEFINE Same == /\ tx'[r].at = tx[r].at /\ tx'[r].weak = tx[r].weak
                   /\ tx'[r].set = tx[r].set /\ tx'[r].marks = tx[r].marks
<1>e. ASSUME NEW v,
             \/ tx' = [tx EXCEPT ![r].after = v] \/ tx' = [tx EXCEPT ![r].before = v]
             \/ tx' = [tx EXCEPT ![r].onCreate = v] \/ tx' = [tx EXCEPT ![r].stats = v]
             \/ tx' = [tx EXCEPT ![r].consumed = v]
      PROVE  Same /\ \A q \in Requests \ {r} : tx'[q] = tx[q]
  <2>1. tx' = [tx EXCEPT ![r].after = v] => Same
    BY <1>t DEF TxRow
  <2>2. tx' = [tx EXCEPT ![r].before = v] => Same
    BY <1>t DEF TxRow
  <2>3. tx' = [tx EXCEPT ![r].onCreate = v] => Same
    BY <1>t DEF TxRow
  <2>4. tx' = [tx EXCEPT ![r].stats = v] => Same
    BY <1>t DEF TxRow
  <2>5. tx' = [tx EXCEPT ![r].consumed = v] => Same
    BY <1>t DEF TxRow
  <2>6. \A q \in Requests \ {r} : tx'[q] = tx[q]
    BY <1>e, <1>t
  <2> QED BY <1>e, <2>1, <2>2, <2>3, <2>4, <2>5, <2>6
<1>1. CASE Finish(r)
  BY <1>1, WeakFinish
<1>2. CASE Arrival(r)
  <2>1. pc[r] = "idle" /\ pc'[r] \in {"issue", "read"}
    BY <1>2, <1>t DEF Arrival, ReadCandidates, StartSubmit, Goto
  <2>2. ASSUME NEW m, ReadCandidates(r, m) PROVE tx'[r].at = tx[r].at /\ tx'[r].weak = tx[r].weak
    <3>1. PICK C : tx' = [tx EXCEPT ![r].now = clock, ![r].mode = m, ![r].candidates = C]
      BY <2>2 DEF ReadCandidates
    <3>2. tx'[r] = [[[tx[r] EXCEPT !.now = clock] EXCEPT !.mode = m] EXCEPT !.candidates = C]
      BY <1>t, <3>1
    <3> QED BY <1>t, <3>2 DEF TxRow
  <2>3. ASSUME NEW s, NEW m, NEW marks, StartSubmit(r, s, m, marks)
        PROVE  tx'[r].at = tx[r].at /\ tx'[r].weak = tx[r].weak
    <3>1. tx'[r] = [[[[tx[r] EXCEPT !.now = clock] EXCEPT !.set = s] EXCEPT !.mode = m]
                      EXCEPT !.marks = marks]
      BY <1>t, <2>3 DEF StartSubmit
    <3> QED BY <1>t, <3>1 DEF TxRow
  <2>4. tx'[r].at = tx[r].at /\ tx'[r].weak = tx[r].weak
    BY <1>2, <2>2, <2>3 DEF Arrival
  <2> QED BY <1>w, <2>1, <2>4, WeakNothing DEF Scoring
<1>3. CASE ReadQuestionSet(r) \/ CountMasteredBefore(r)
  <2>1. CASE ~Finish(r)
    <3>1. pc[r] \in {"read", "before"} /\ pc'[r] \in {"before", "consume"}
      BY <1>3, <1>t, <2>1 DEF ReadQuestionSet, CountMasteredBefore, Goto
    <3>2. tx' = tx \/ tx' = [tx EXCEPT ![r].before = CountMasteredElements(played, AskedBy(r))]
      BY <1>3, <2>1 DEF ReadQuestionSet, CountMasteredBefore
    <3>3. tx'[r].at = tx[r].at /\ tx'[r].weak = tx[r].weak
      BY <1>e, <3>2
    <3> QED BY <1>w, <3>1, <3>3, WeakNothing DEF Scoring
  <2> QED BY <2>1, <1>1
<1>4. CASE ConsumeQuestionSet(r)
  <2>1. CASE ~Finish(r)
    <3>1. pc[r] = "consume" /\ pc'[r] = "weak"
      BY <1>4, <1>t, <2>1 DEF ConsumeQuestionSet, Goto
    <3>4. tx' = [tx EXCEPT ![r].consumed = TRUE]
      BY <1>4, <2>1 DEF ConsumeQuestionSet
    <3>5. pc[r] \notin Scoring
      BY <3>1 DEF Scoring
    <3>2. tx'[r].at = 1 /\ \A e \in Elements : tx'[r].weak[e] = Unwritten
      BY <1>e, <1>w, <3>4, <3>5
    <3>3. WeakTx(r)'
      BY <3>1, <3>2, GameAssumption
         DEF WeakTx, Unstarted, PendingWeak, Visited, Clean, FirstAsked, Indexes, Scoring
    <3> QED BY <3>2, <3>3 DEF Excludes
  <2> QED BY <2>1, <1>1
<1>5. CASE /\ pc[r] \in Scoring \ {"weak", "hit"} /\ pc'[r] \in Scoring \ {"weak", "hit"}
           /\ OnlyMoves(r) /\ UNCHANGED <<sets, weak>>
           /\ tx'[r].at = tx[r].at /\ tx'[r].weak = tx[r].weak /\ tx'[r].set = tx[r].set
           /\ tx'[r].marks = tx[r].marks
  BY <1>5, WeakQuiet
<1>6. CASE CountMasteredAfter(r) \/ CountMasteredOnCreate(r)
  <2>1. pc[r] \in Scoring \ {"weak", "hit"} /\ pc'[r] \in Scoring \ {"weak", "hit"}
    BY <1>6, <1>t DEF CountMasteredAfter, CountMasteredOnCreate, Goto, Scoring
  <2>2. \E v : tx' = [tx EXCEPT ![r].after = v] \/ tx' = [tx EXCEPT ![r].onCreate = v]
    BY <1>6 DEF CountMasteredAfter, CountMasteredOnCreate
  <2>3. Same /\ \A q \in Requests \ {r} : tx'[q] = tx[q]
    BY <1>e, <2>2
  <2>4. OnlyMoves(r) /\ UNCHANGED <<sets, weak>>
    BY <1>6, <1>t, <2>3 DEF CountMasteredAfter, CountMasteredOnCreate, Goto, OnlyMoves, db
  <2> QED BY <1>5, <2>1, <2>3, <2>4
<1>7. CASE ReadStats(r) \/ RereadStats(r)
  BY <1>5, <1>7, <1>t DEF ReadStats, RereadStats, BranchOnWeek, Goto, OnlyMoves, Scoring, db
<1>8. CASE CreateStats(r) \/ ReplaceStaleWeek(r) \/ IncrementStats(r)
  <2>1. pc[r] \in Scoring \ {"weak", "hit"} /\ pc'[r] \in Scoring \ {"weak", "hit"}
    BY <1>8, <1>t DEF CreateStats, ReplaceStaleWeek, IncrementStats, WriteStats, Goto, Scoring
  <2>2. OnlyMoves(r) /\ UNCHANGED <<sets, weak>>
    BY <1>8, <1>t DEF CreateStats, ReplaceStaleWeek, IncrementStats, WriteStats, Goto, OnlyMoves, db
  <2>3. tx' = tx \/ \E v : tx' = [tx EXCEPT ![r].stats = v]
    BY <1>8 DEF CreateStats, ReplaceStaleWeek, IncrementStats, WriteStats
  <2>4. Same
    BY <1>e, <2>3
  <2> QED BY <1>5, <2>1, <2>2, <2>4
<1>9. CASE Statement(r) /\ pc[r] \notin {"weak", "hit"}
  <2>1. ~UpsertMissedElement(r) /\ ~FindWeakElement(r) /\ ~HitWeakElement(r)
    BY <1>9 DEF UpsertMissedElement, FindWeakElement, HitWeakElement
  <2>2. (\E s \in SetIds, q \in [Indexes -> Elements] : IssueQuestionSet(r, s, q)) \/ Commit(r)
          => Finish(r)
    BY DEF IssueQuestionSet, Commit
  <2> QED BY <1>9, <2>1, <2>2, <1>1, <1>3, <1>4, <1>6, <1>7, <1>8 DEF Statement
<1>10. Rollback(r) \/ DeadlockVictim(r) => Finish(r)
  BY DEF Rollback, DeadlockVictim
<1> QED BY <1>1, <1>2, <1>9, <1>10

(* The statements of the loop. *)
LEMMA WeakLoop ==
  ASSUME IInv, NEW r \in Requests, WeakTx(r), Excludes(r),
         UpsertMissedElement(r) \/ FindWeakElement(r) \/ HitWeakElement(r)
  PROVE  WeakTx(r)' /\ Excludes(r)'
<1> USE DEF At
<1> DEFINE e == Question(r)
           n == MissesOn(r, e)
<1>t. /\ pc \in [Requests -> Labels] /\ tx \in [Requests -> TxRow] /\ tx[r] \in TxRow
      /\ TypeInv /\ Working(r) /\ pc[r] \in {"weak", "hit"} /\ UNCHANGED <<clock, db>>
  BY DEF IInv, TypeInv, TypeOK, UpsertMissedElement, FindWeakElement, HitWeakElement
<1>e. e \in Elements /\ n \in Nat /\ tx[r].set \in SetIds
      /\ weak[e] \in WeakRow \cup {NoRow}
  BY <1>t, AskedType DEF TypeInv, TypeOK, Working
<1>v. ASSUME NEW v \in WeakRow \cup {NoRow}, NextElement(r, [tx[r] EXCEPT !.weak[e] = v]),
             Adds(v, weak[e], tx[r].set, n),
             \A q \in Requests \ {r} : tx[q].weak[e] = Unwritten
      PROVE  WeakTx(r)' /\ Excludes(r)'
  <2> DEFINE t == [tx[r] EXCEPT !.weak[e] = v]
  <2>1. /\ t \in TxRow /\ t.set = tx[r].set /\ t.marks = tx[r].marks /\ t.at = tx[r].at
        /\ t.weak[e] = v /\ \A d \in Elements \ {e} : t.weak[d] = tx[r].weak[d]
    BY <1>t, <1>e DEF TxRow
  <2>2. v # Unwritten
    BY MarkerAssumption
  <2> HIDE DEF t
  <2>3. NextElement(r, t)
    BY <1>v DEF t
  <2> HIDE DEF e, n
  <2> QED BY <1>t, <1>v, <2>1, <2>2, <2>3, WeakTurn DEF e, n
<1>1. CASE UpsertMissedElement(r)
  <2>1. PICK v : NextElement(r, [tx[r] EXCEPT !.weak[e] = v])
                 /\ v = IF weak[e] = NoRow
                          THEN [id |-> tx[r].set, miss |-> n, hit |-> 0]
                          ELSE [id |-> weak[e].id, miss |-> weak[e].miss + n, hit |-> 0]
    BY <1>1 DEF UpsertMissedElement
  <2>2. v \in WeakRow /\ Adds(v, weak[e], tx[r].set, n)
    BY <1>e, <2>1, MarkerAssumption DEF WeakRow, Adds
  <2>3. \A q \in Requests \ {r} : tx[q].weak[e] = Unwritten
    BY <1>1 DEF UpsertMissedElement, Unblocked, WaitsFor
  <2> QED BY <1>v, <2>1, <2>2, <2>3
<1>2. CASE FindWeakElement(r)
  <2>1. CASE weak[e] = NoRow
    <3>1. NextElement(r, tx[r]) /\ n = 0
      BY <1>2, <2>1 DEF FindWeakElement
    <3> HIDE DEF e, n
    <3> QED BY <1>t, <3>1, WeakTurn DEF e, n
  <2>2. CASE weak[e] # NoRow
    <3>1. /\ pc[r] = "weak" /\ pc'[r] = "hit" /\ n = 0 /\ OnlyMoves(r)
          /\ tx' = [tx EXCEPT ![r].seen = weak[e]]
      BY <1>2, <1>t, <2>2 DEF FindWeakElement, Goto, OnlyMoves
    <3>2. /\ tx'[r].at = tx[r].at /\ tx'[r].weak = tx[r].weak /\ tx'[r].set = tx[r].set
          /\ tx'[r].marks = tx[r].marks
      BY <1>t, <3>1 DEF TxRow
    <3> QED BY <1>t, <3>1, <3>2, WeakQuiet DEF Scoring, db
  <2> QED BY <2>1, <2>2
<1>3. CASE HitWeakElement(r)
  <2>1. CASE weak[e] = NoRow \/ weak[e].id # tx[r].seen.id
    BY <1>3, <2>1, WeakFinish DEF HitWeakElement
  <2>2. CASE ~(weak[e] = NoRow \/ weak[e].id # tx[r].seen.id)
    <3>1. PICK v : NextElement(r, [tx[r] EXCEPT !.weak[e] = v])
                   /\ v = IF tx[r].seen.hit + 1 >= MasteredConsecutiveHits THEN NoRow
                          ELSE [weak[e] EXCEPT !.hit = weak[e].hit + 1]
      BY <1>3, <2>2 DEF HitWeakElement
    <3>2. n = 0 /\ pc[r] = "hit"
      BY <1>3 DEF HitWeakElement, WeakTx, Clean
    <3>3. weak[e] \in WeakRow
      BY <1>e, <2>2
    <3>4. v \in WeakRow \cup {NoRow} /\ Adds(v, weak[e], tx[r].set, n)
      BY <2>2, <3>1, <3>2, <3>3 DEF WeakRow, Adds
    <3>5. \A q \in Requests \ {r} : tx[q].weak[e] = Unwritten
      BY <1>3, <2>2, <3>2 DEF HitWeakElement, Unblocked, WaitsFor
    <3> QED BY <1>v, <3>1, <3>4, <3>5
  <2> QED BY <2>1, <2>2
<1> QED BY <1>1, <1>2, <1>3

(* The statements run in the loop.                                          *)
LEMMA LoopStatements ==
  ASSUME NEW r, Statement(r), pc[r] \in {"weak", "hit"}
  PROVE  UpsertMissedElement(r) \/ FindWeakElement(r) \/ HitWeakElement(r)
BY DEF Statement, At, IssueQuestionSet, ReadQuestionSet, CountMasteredBefore, ConsumeQuestionSet,
       CountMasteredAfter, ReadStats, CountMasteredOnCreate, CreateStats, RereadStats,
       ReplaceStaleWeek, IncrementStats, Commit

LEMMA WeakOwnStep ==
  ASSUME IInv, NEW r \in Requests, WeakTx(r), Excludes(r),
         Arrival(r) \/ Statement(r) \/ Rollback(r) \/ DeadlockVictim(r)
  PROVE  WeakTx(r)' /\ Excludes(r)'
BY LoopStatements, WeakOtherStatements, WeakLoop

LEMMA WeakNext == IInv /\ WeakInv /\ [Next]_vars => WeakInv'
<1> SUFFICES ASSUME IInv, WeakInv, [Next]_vars PROVE WeakInv'
  OBVIOUS
<1>q. \A s \in SetIds : Issued(s) => sets'[s].questions = sets[s].questions
  BY QuestionsStay
<1>1. ASSUME NEW r \in Requests, Arrival(r) \/ Statement(r) \/ Rollback(r) \/ DeadlockVictim(r)
      PROVE  WeakInv'
  <2>1. OnlyMoves(r) /\ (Outside(r) \/ Claims(r) \/ Works(r) \/ Writes(r) \/ Commit(r))
    BY <1>1, RequestShape DEF IInv
  <2>2. WeakTx(r)' /\ Excludes(r)'
    BY <1>1, WeakOwnStep DEF WeakInv
  <2>3. ASSUME NEW q \in Requests \ {r} PROVE WeakTx(q)' /\ Excludes(q)'
    <3>1. ASSUME NEW e \in Elements, tx[q].weak[e] # Unwritten PROVE weak'[e] = weak[e]
      <4>1. tx[r].weak[e] = Unwritten
        BY <3>1 DEF WeakInv, Excludes
      <4> QED BY <2>1, <4>1 DEF Commit, Outside, Claims, Works, Writes, db
    <3>2. WeakTx(q)'
      BY <1>q, <2>1, <3>1, WeakStays DEF WeakInv, OnlyMoves
    <3>3. Excludes(q)'
      BY <2>1, <2>2 DEF WeakInv, Excludes, OnlyMoves
    <3> QED BY <3>2, <3>3
  <2> QED BY <2>2, <2>3 DEF WeakInv
<1>2. ASSUME UNCHANGED <<pc, tx>>,
             \A e \in Elements : (\E q \in Requests : tx[q].weak[e] # Unwritten) => weak'[e] = weak[e]
      PROVE  WeakInv'
  BY <1>q, <1>2, WeakStays DEF WeakInv, Excludes
<1>3. CASE Environment
  <2>1. UNCHANGED <<pc, tx>>
    BY <1>3 DEF Environment, ResetWeeklyScores, CleanupQuestionSets, DeleteWeakElement,
                CreateStatsAtLogin, Tick
  <2>2. ASSUME NEW e \in Elements, NEW q \in Requests, tx[q].weak[e] # Unwritten
        PROVE  weak'[e] = weak[e]
    <3>1. weak \in [Elements -> WeakRow \cup {NoRow}]
      BY DEF IInv, TypeInv, TypeOK
    <3> QED BY <1>3, <2>2, <3>1 DEF Environment, ResetWeeklyScores, CleanupQuestionSets, DeleteWeakElement,
                CreateStatsAtLogin, Tick, db
  <2> QED BY <1>2, <2>1, <2>2
<1>4. UNCHANGED vars => WeakInv'
  BY <1>2 DEF vars
<1> QED BY <1>1, <1>3, <1>4 DEF Next

(* Every element asked is met by the loop. *)
LEMMA AskedFirst ==
  ASSUME NEW q, NEW i \in Indexes
  PROVE  \E j \in FirstAsked(q) : q[j] = q[i]
<1> DEFINE T == {j \in Indexes : q[j] = q[i]}
<1>1. T \in SUBSET Nat /\ T # {}
  BY DEF Indexes
<1>2. PICK m \in T : \A k \in T : m <= k
  <2> HIDE DEF T
  <2> QED BY <1>1, LeastNumber
<1>3. m \in FirstAsked(q)
  <2> SUFFICES ASSUME NEW k \in 1 .. (m - 1), q[k] = q[m] PROVE FALSE
    BY DEF FirstAsked
  <2>1. k \in T /\ k \in Int /\ m \in Int /\ k <= m - 1
    BY GameAssumption DEF Indexes
  <2> QED BY <1>2, <2>1
<1> QED BY <1>2, <1>3

(* An element is missed only where it was asked. *)
LEMMA MissedIsAsked ==
  ASSUME NEW r \in Requests, NEW e, MissesOn(r, e) > 0
  PROVE  \E i \in FirstAsked(Questions(r)) : Questions(r)[i] = e
<1>1. {i \in Indexes : Questions(r)[i] = e /\ ~tx[r].marks[i]} # {}
  <2> SUFFICES ASSUME {i \in Indexes : Questions(r)[i] = e /\ ~tx[r].marks[i]} = {} PROVE FALSE
    OBVIOUS
  <2>1. MissesOn(r, e) = 0
    BY FS_EmptySet DEF MissesOn, Incorrect, Questions
  <2> QED BY <2>1
<1>2. PICK i \in Indexes : Questions(r)[i] = e
  BY <1>1
<1> QED BY <1>2, AskedFirst

(* What a commit does to a row of the weak list. *)
LEMMA CommitWeak ==
  ASSUME IInv, NEW r \in Requests, WeakTx(r), Commit(r), NEW e \in Elements
  PROVE  \/ weak'[e] = weak[e] /\ MissesOn(r, e) = 0
         \/ Adds(weak'[e], weak[e], tx[r].set, MissesOn(r, e))
<1>1. pc[r] \in Scoring /\ pc[r] = "commit" /\ MissesOn(r, e) \in Nat
  BY CountType DEF Commit, At, Scoring, MissesOn
<1>2. CASE tx[r].weak[e] = Unwritten
  <2>1. ASSUME MissesOn(r, e) > 0 PROVE FALSE
    <3>1. PICK i \in FirstAsked(Questions(r)) : Questions(r)[i] = e
      BY <2>1, MissedIsAsked
    <3> QED BY <1>1, <1>2, <2>1, <3>1 DEF WeakTx, Visited
  <2> QED BY <1>1, <1>2, <2>1 DEF Commit
<1>3. CASE tx[r].weak[e] # Unwritten
  BY <1>3 DEF Commit, WeakTx, PendingWeak
<1> QED BY <1>2, <1>3

(* The sum over the sessions from the i-th on, and over the last one only.  *)
LEMMA SumFrom ==
  ASSUME NEW n \in Nat, NEW i \in 1 .. n, NEW f, NEW g, DOMAIN f = i .. n, DOMAIN g = i .. (n + 1),
         \A j \in i .. n : f[j] \in Int /\ g[j] = f[j], g[n + 1] \in Int
  PROVE  SumFunction(g) = SumFunction(f) + g[n + 1]
<1> DEFINE S == i .. n
           x == n + 1
<1>0. IsFiniteSet(S)
  BY FS_Interval
<1>1. IsFiniteSet(S) /\ x \notin S /\ i .. (n + 1) = S \cup {x}
  <2>1. \A y : y \in i .. (n + 1) <=> y \in S \cup {x}
    OBVIOUS
  <2> QED BY <1>0, <2>1
<1>2. DOMAIN f = S /\ DOMAIN g = S \cup {x} /\ (\A j \in S : f[j] \in Int /\ g[j] = f[j]) /\ g[x] \in Int
  BY <1>1
<1> HIDE DEF S, x
<1>3. SumFunctionOnSet(g, S \cup {x}) = SumFunctionOnSet(f, S) + g[x]
  BY <1>1, <1>2, SumAdd
<1> QED BY <1>2, <1>3 DEF SumFunction, x

LEMMA SumLast ==
  ASSUME NEW n \in Nat, NEW g, DOMAIN g = (n + 1) .. (n + 1), g[n + 1] \in Int
  PROVE  SumFunction(g) = g[n + 1]
<1> DEFINE x == n + 1
<1>1. DOMAIN g = {} \cup {x} /\ g[x] \in Int /\ x \notin {}
  OBVIOUS
<1> HIDE DEF x
<1>2. SumFunctionOnSet(g, {} \cup {x}) = SumFunctionOnSet(g, {}) + g[x]
  BY <1>1, SumAdd, FS_EmptySet
<1>3. SumFunctionOnSet(g, {}) = 0
  BY SumEmpty
<1> QED BY <1>1, <1>2, <1>3 DEF SumFunction, x

LEMMA CommitKeepsMisses ==
  ASSUME IInv, MissCountExact, NEW r \in Requests, WeakTx(r), Commit(r)
  PROVE  MissCountExact'
<1> DEFINE n == Len(played)
           row == Session(tx[r])
<1>p. /\ n \in Nat /\ Len(played') = n + 1
      /\ DOMAIN played = 1 .. n /\ DOMAIN played' = 1 .. (n + 1)
      /\ \A i \in 1 .. n : played[i] \in SessionRow /\ played'[i] = played[i]
      /\ played'[n + 1] = row /\ row \in SessionRow
  BY SavedSession
<1> SUFFICES ASSUME NEW e \in Elements, weak'[e] # NoRow
             PROVE  \E i \in DOMAIN played' :
                      /\ played'[i].set = weak'[e].id
                      /\ weak'[e].miss
                           = SumFunction([j \in i .. Len(played') |-> played'[j].missed[e]])
  BY DEF MissCountExact
<1> DEFINE k == MissesOn(r, e)
           Then(i) == [j \in i .. (n + 1) |-> played'[j].missed[e]]
           Before(i) == [j \in i .. n |-> played[j].missed[e]]
<1>r. row.set = tx[r].set /\ row.missed[e] = k /\ k \in Nat
  BY CountType DEF Session, MissesOn
<1> HIDE DEF row
<1>m. \A j \in 1 .. n : played[j].missed[e] \in Int
  BY <1>p DEF SessionRow
<1>1. ASSUME NEW i \in 1 .. n PROVE SumFunction(Then(i)) = SumFunction(Before(i)) + k
  <2>1. /\ DOMAIN Before(i) = i .. n /\ DOMAIN Then(i) = i .. (n + 1)
        /\ Then(i)[n + 1] = k
        /\ \A j \in i .. n : Before(i)[j] \in Int /\ Then(i)[j] = Before(i)[j]
    BY <1>p, <1>r, <1>m
  <2>2. n \in Nat /\ k \in Int
    BY <1>p, <1>r
  <2> DEFINE f == Before(i)
             g == Then(i)
  <2>3. /\ DOMAIN f = i .. n /\ DOMAIN g = i .. (n + 1) /\ g[n + 1] = k
        /\ \A j \in i .. n : f[j] \in Int /\ g[j] = f[j]
    BY <2>1
  <2> HIDE DEF f, g, Then, Before, n, k
  <2>4. SumFunction(g) = SumFunction(f) + g[n + 1]
    BY <2>2, <2>3, SumFrom
  <2> QED BY <2>3, <2>4 DEF f, g
<1>2. SumFunction(Then(n + 1)) = k
  <2> DEFINE g == Then(n + 1)
  <2>1. DOMAIN g = (n + 1) .. (n + 1) /\ g[n + 1] = k /\ n \in Nat /\ k \in Int
    BY <1>p, <1>r
  <2> HIDE DEF g, Then, n, k
  <2>2. SumFunction(g) = g[n + 1]
    BY <2>1, SumLast
  <2> QED BY <2>1, <2>2 DEF g
<1>3. ASSUME weak[e] # NoRow
      PROVE  \E i \in 1 .. n : played[i].set = weak[e].id /\ weak[e].miss = SumFunction(Before(i))
  BY <1>3, <1>p DEF MissCountExact
<1>w. weak[e] # NoRow => weak[e].miss \in Int
  BY DEF IInv, TypeInv, TypeOK, WeakRow
<1>4. \/ weak'[e] = weak[e] /\ k = 0
      \/ Adds(weak'[e], weak[e], tx[r].set, k)
  BY CommitWeak
<1>5. \E i \in 1 .. (n + 1) : played'[i].set = weak'[e].id /\ weak'[e].miss = SumFunction(Then(i))
  <2> HIDE DEF Then, Before, k
  <2>1. CASE weak[e] = NoRow
    <3>1. weak'[e].id = tx[r].set /\ weak'[e].miss = k
      BY <1>4, <2>1 DEF Adds
    <3> QED BY <1>2, <1>p, <1>r, <3>1
  <2>2. CASE weak[e] # NoRow
    <3>1. weak'[e].id = weak[e].id /\ weak'[e].miss = weak[e].miss + k
      BY <1>4, <1>w, <2>2 DEF Adds
    <3>2. PICK i \in 1 .. n : played[i].set = weak[e].id /\ weak[e].miss = SumFunction(Before(i))
      BY <1>3, <2>2
    <3>3. played'[i].set = weak'[e].id /\ weak'[e].miss = SumFunction(Then(i))
      BY <1>1, <1>p, <3>1, <3>2
    <3> QED BY <1>p, <3>3
  <2> QED BY <2>1, <2>2
<1> QED BY <1>5, <1>p

LEMMA OthersKeepMisses ==
  ASSUME UNCHANGED played, \A e \in Elements : weak'[e] = weak[e] \/ weak'[e] = NoRow, MissCountExact
  PROVE  MissCountExact'
<1> SUFFICES ASSUME NEW e \in Elements, weak'[e] # NoRow
             PROVE  \E i \in DOMAIN played :
                      /\ played[i].set = weak[e].id
                      /\ weak[e].miss = SumFunction([j \in i .. Len(played) |-> played[j].missed[e]])
  BY DEF MissCountExact
<1>1. weak[e] # NoRow
  OBVIOUS
<1> QED BY <1>1 DEF MissCountExact

(* The steps of a request that touch the weak list or the history.          *)
LEMMA OnlyCommitSaves ==
  ASSUME IInv, [Next]_vars
  PROVE  \/ \E r \in Requests : Commit(r)
         \/ UNCHANGED played /\ \A e \in Elements : weak'[e] = weak[e] \/ weak'[e] = NoRow
<1>1. ASSUME NEW r \in Requests, Arrival(r) \/ Statement(r) \/ Rollback(r) \/ DeadlockVictim(r)
      PROVE  Commit(r) \/ UNCHANGED <<played, weak>>
  BY <1>1, RequestShape DEF IInv, Outside, Claims, Works, Writes, db
<1>2. CASE Environment
  <2>1. weak \in [Elements -> WeakRow \cup {NoRow}]
    BY DEF IInv, TypeInv, TypeOK
  <2> QED BY <1>2, <2>1 DEF Environment, ResetWeeklyScores, CleanupQuestionSets, DeleteWeakElement,
                CreateStatsAtLogin, Tick, db
<1> QED BY <1>1, <1>2 DEF Next, vars

LEMMA MissesNext == IInv /\ WeakInv /\ MissCountExact /\ [Next]_vars => MissCountExact'
<1> SUFFICES ASSUME IInv, WeakInv, MissCountExact, [Next]_vars PROVE MissCountExact'
  OBVIOUS
<1> QED BY OnlyCommitSaves, CommitKeepsMisses, OthersKeepMisses DEF WeakInv

(* A weak row's miss count is the sum of the wrong answers of the sessions  *)
(* since the one that added it: concurrent submissions, deletions and       *)
(* retries neither lose a miss nor count one twice.                         *)
THEOREM MissesAreCounted == Spec => []MissCountExact
BY MissesNext, WeakInit, WeakNext, Invariance, PTL DEF Spec

(* A saved session leaves every element it missed on the weak list with its *)
(* hits broken, whatever the other requests did to the row in between.      *)
THEOREM MissesAreListed == Spec => MissIsListed
<1>1. IInv /\ WeakInv /\ [Next]_vars =>
        (played' # played =>
           LET p == played'[Len(played')]
           IN \A e \in Elements : p.outcome[e] = "wrong" => weak'[e] # NoRow /\ weak'[e].hit = 0)
  <2> SUFFICES ASSUME IInv, WeakInv, [Next]_vars, played' # played,
                      NEW e \in Elements, played'[Len(played')].outcome[e] = "wrong"
               PROVE  weak'[e] # NoRow /\ weak'[e].hit = 0
    OBVIOUS
  <2>1. PICK r \in Requests : Commit(r)
    BY OnlyCommitSaves
  <2>2. played'[Len(played')] = Session(tx[r])
    BY <2>1, SavedSession
  <2>3. MissesOn(r, e) > 0
    <3>1. Outcome(Questions(r), tx[r].marks)[e] = "wrong"
      BY <2>2 DEF Session, Questions
    <3>2. MissesOn(r, e) # 0 /\ MissesOn(r, e) \in Nat
      BY <3>1, CountType DEF Outcome, MissesOn, Questions
    <3> QED BY <3>2
  <2>4. Adds(weak'[e], weak[e], tx[r].set, MissesOn(r, e))
    BY <2>1, <2>3, CommitWeak DEF WeakInv
  <2> QED BY <2>3, <2>4 DEF Adds
<1> QED BY <1>1, WeakInit, WeakNext, Invariance, PTL DEF Spec, MissIsListed

----------------------------------------------------------------------------
(* Requests served one at a time. What a statement makes of the numbers a  *)
(* request has read, when no other request is in the way.                  *)

Alone == \A r, q \in Requests : r = q

(* The statement leaves the session that is being saved as it is. *)
Carries(r) ==
  /\ UNCHANGED <<clock, db>>
  /\ tx'[r].now = tx[r].now /\ tx'[r].set = tx[r].set
  /\ tx'[r].mode = tx[r].mode /\ tx'[r].marks = tx[r].marks

(* The statement also leaves the loop over the elements alone. *)
Keeps(r) == Carries(r) /\ tx'[r].at = tx[r].at /\ tx'[r].weak = tx[r].weak

Saved(r) == Append(played, Session(tx[r]))

(* The statements before the loop, in the loop and after it. *)
Counts(r) ==
  /\ pc[r] = "before" /\ pc'[r] = "consume" /\ Keeps(r)
  /\ tx'[r].before = CountMasteredElements(played, AskedBy(r))

Begins(r) ==
  \/ pc[r] = "read" /\ pc'[r] = "before" /\ Keeps(r)
  \/ pc[r] = "consume" /\ pc'[r] = "weak" /\ Keeps(r) /\ tx'[r].before = tx[r].before

Loops(r) ==
  /\ pc[r] \in {"weak", "hit"} /\ pc'[r] \in {"weak", "hit", "after"}
  /\ Carries(r) /\ tx'[r].before = tx[r].before

Recounts(r) ==
  /\ pc[r] = "after" /\ pc'[r] = "readStats" /\ Keeps(r) /\ tx'[r].before = tx[r].before
  /\ tx'[r].after = CountMasteredElements(Saved(r), AskedBy(r))

CountsAll(r) ==
  /\ pc[r] = "countAll" /\ pc'[r] = "createStats" /\ Keeps(r)
  /\ tx'[r].before = tx[r].before /\ tx'[r].after = tx[r].after
  /\ tx'[r].onCreate = CountMasteredElements(Saved(r), Elements)

Branches(r) ==
  /\ tx'[r] = tx[r] /\ UNCHANGED <<clock, db>>
  /\ \/ pc[r] = "readStats" /\ pc'[r] = "countAll" /\ stats = NoRow
     \/ pc[r] = "createStats" /\ pc'[r] = "reread" /\ stats # NoRow
     \/ /\ pc[r] \in {"readStats", "reread", "replaceWeek"} /\ stats # NoRow
        /\ pc'[r] = IF stats.week = WeekOf(tx[r].now) THEN "increment" ELSE "replaceWeek"

Wrote(r) ==
  /\ pc'[r] = "commit" /\ Keeps(r)
  /\ tx'[r].before = tx[r].before /\ tx'[r].after = tx[r].after
  /\ \/ /\ pc[r] = "createStats" /\ stats = NoRow
        /\ tx'[r].stats = Counted(NewStats, tx[r], tx[r].onCreate, Score(tx[r].marks))
     \/ /\ pc[r] = "replaceWeek" /\ stats # NoRow /\ stats.week # WeekOf(tx[r].now)
        /\ tx'[r].stats = Counted(stats, tx[r], tx[r].after - tx[r].before, Score(tx[r].marks))
     \/ /\ pc[r] = "increment" /\ stats # NoRow
        /\ tx'[r].stats = Counted(stats, tx[r], tx[r].after - tx[r].before,
                                  stats.weekly + Score(tx[r].marks))

(* A request arrives, ends, or issues a set. *)
Arrives(r) ==
  /\ pc[r] = "idle" /\ pc'[r] \in {"issue", "read"} /\ tx'[r].now = clock
  /\ tx'[r].at = tx[r].at /\ tx'[r].weak = tx[r].weak /\ UNCHANGED <<clock, db>>

Ends(r) ==
  /\ pc'[r] = "idle" /\ tx'[r] = BlankTx /\ UNCHANGED <<clock, played, weak, stats>>

Turn(r) ==
  \/ Counts(r) \/ Begins(r) \/ Loops(r) \/ Recounts(r) \/ CountsAll(r) \/ Branches(r)
  \/ Wrote(r) \/ Arrives(r) \/ Ends(r) \/ Commit(r)

(* One field of a request's memory is set. *)
LEMMA FieldSet ==
  ASSUME TypeOK, NEW r \in Requests, NEW v
  PROVE  /\ tx' = [tx EXCEPT ![r].before = v] => tx'[r] = [tx[r] EXCEPT !.before = v]
         /\ tx' = [tx EXCEPT ![r].after = v] => tx'[r] = [tx[r] EXCEPT !.after = v]
         /\ tx' = [tx EXCEPT ![r].onCreate = v] => tx'[r] = [tx[r] EXCEPT !.onCreate = v]
         /\ tx' = [tx EXCEPT ![r].stats = v] => tx'[r] = [tx[r] EXCEPT !.stats = v]
         /\ tx' = [tx EXCEPT ![r].consumed = v] => tx'[r] = [tx[r] EXCEPT !.consumed = v]
         /\ tx' = [tx EXCEPT ![r].seen = v] => tx'[r] = [tx[r] EXCEPT !.seen = v]
BY DEF TypeOK

LEMMA LoopsOn ==
  ASSUME TypeInv, NEW r \in Requests, pc[r] \in {"weak", "hit"}, UNCHANGED <<clock, db>>,
         NEW t \in TxRow, NextElement(r, t), t.now = tx[r].now, t.set = tx[r].set,
         t.mode = tx[r].mode, t.marks = tx[r].marks, t.before = tx[r].before
  PROVE  Loops(r)
<1> DEFINE Later == {i \in FirstAsked(sets[t.set].questions) : i > t.at}
<1>t. pc \in [Requests -> Labels] /\ tx \in [Requests -> TxRow]
  BY DEF TypeInv, TypeOK
<1>1. CASE Later = {}
  BY <1>t, <1>1 DEF NextElement, Goto, Loops, Carries
<1>2. CASE Later # {}
  <2>1. PICK i \in Later : tx' = [tx EXCEPT ![r] = [t EXCEPT !.at = i]]
    BY <1>2 DEF NextElement
  <2>2. pc'[r] = "weak"
    BY <1>t, <1>2 DEF NextElement, Goto
  <2>3. tx'[r] = [t EXCEPT !.at = i]
    BY <1>t, <2>1
  <2> HIDE DEF Later
  <2>4. /\ tx'[r].now = t.now /\ tx'[r].set = t.set /\ tx'[r].mode = t.mode
        /\ tx'[r].marks = t.marks /\ tx'[r].before = t.before
    BY <2>3 DEF TxRow
  <2> QED BY <2>2, <2>4 DEF Loops, Carries
<1> QED BY <1>1, <1>2

LEMMA LoopTurns ==
  ASSUME TypeInv, NEW r \in Requests,
         UpsertMissedElement(r) \/ FindWeakElement(r) \/ HitWeakElement(r)
  PROVE  Loops(r) \/ Ends(r)
<1> USE DEF At
<1> DEFINE e == Question(r)
<1>t. /\ pc \in [Requests -> Labels] /\ tx \in [Requests -> TxRow] /\ tx[r] \in TxRow
      /\ Working(r) /\ pc[r] \in {"weak", "hit"} /\ UNCHANGED <<clock, db>>
  BY DEF TypeInv, TypeOK, UpsertMissedElement, FindWeakElement, HitWeakElement
<1>e. e \in Elements /\ MissesOn(r, e) \in Nat /\ tx[r].set \in SetIds
      /\ weak[e] \in WeakRow \cup {NoRow}
  BY <1>t, AskedType DEF TypeInv, TypeOK, Working
<1>v. ASSUME NEW v \in WeakRow \cup {NoRow}, NextElement(r, [tx[r] EXCEPT !.weak[e] = v])
      PROVE  Loops(r)
  <2> DEFINE t == [tx[r] EXCEPT !.weak[e] = v]
  <2>1. /\ t \in TxRow /\ t.now = tx[r].now /\ t.set = tx[r].set /\ t.mode = tx[r].mode
        /\ t.marks = tx[r].marks /\ t.before = tx[r].before
    BY <1>t, <1>e DEF TxRow
  <2> HIDE DEF t
  <2> QED BY <1>t, <1>v, <2>1, LoopsOn DEF t
<1>f. Finish(r) => Ends(r)
  BY <1>t DEF Finish, Ends, db
<1>1. CASE UpsertMissedElement(r)
  <2>1. PICK v : NextElement(r, [tx[r] EXCEPT !.weak[e] = v])
                 /\ v = IF weak[e] = NoRow
                          THEN [id |-> tx[r].set, miss |-> MissesOn(r, e), hit |-> 0]
                          ELSE [id |-> weak[e].id, miss |-> weak[e].miss + MissesOn(r, e), hit |-> 0]
    BY <1>1 DEF UpsertMissedElement
  <2>2. v \in WeakRow
    BY <1>e, <2>1 DEF WeakRow
  <2> QED BY <1>v, <2>1, <2>2
<1>2. CASE FindWeakElement(r)
  <2>1. CASE weak[e] = NoRow
    BY <1>2, <1>t, <2>1, LoopsOn DEF FindWeakElement
  <2>2. CASE weak[e] # NoRow
    <3>1. pc[r] = "weak" /\ pc'[r] = "hit" /\ tx' = [tx EXCEPT ![r].seen = weak[e]]
      BY <1>2, <1>t, <2>2 DEF FindWeakElement, Goto
    <3>2. tx'[r] = [tx[r] EXCEPT !.seen = weak[e]]
      BY <1>t, <3>1
    <3>3. /\ tx'[r].now = tx[r].now /\ tx'[r].set = tx[r].set /\ tx'[r].mode = tx[r].mode
          /\ tx'[r].marks = tx[r].marks /\ tx'[r].before = tx[r].before
      BY <1>t, <3>2 DEF TxRow
    <3> QED BY <1>t, <3>1, <3>3 DEF Loops, Carries
  <2> QED BY <2>1, <2>2
<1>3. CASE HitWeakElement(r)
  <2>1. CASE weak[e] = NoRow \/ weak[e].id # tx[r].seen.id
    BY <1>3, <1>f, <2>1 DEF HitWeakElement
  <2>2. CASE ~(weak[e] = NoRow \/ weak[e].id # tx[r].seen.id)
    <3>1. PICK v : NextElement(r, [tx[r] EXCEPT !.weak[e] = v])
                   /\ v = IF tx[r].seen.hit + 1 >= MasteredConsecutiveHits THEN NoRow
                          ELSE [weak[e] EXCEPT !.hit = weak[e].hit + 1]
      BY <1>3, <2>2 DEF HitWeakElement
    <3>2. weak[e] \in WeakRow
      BY <1>e, <2>2
    <3>3. v \in WeakRow \cup {NoRow}
      BY <3>1, <3>2 DEF WeakRow
    <3> QED BY <1>v, <3>1, <3>3
  <2> QED BY <2>1, <2>2
<1> QED BY <1>1, <1>2, <1>3

LEMMA TurnShape ==
  ASSUME TypeInv, NEW r \in Requests,
         Arrival(r) \/ Statement(r) \/ Rollback(r) \/ DeadlockVictim(r)
  PROVE  Turn(r)
<1> USE DEF At
<1>t. /\ pc \in [Requests -> Labels] /\ tx \in [Requests -> TxRow] /\ tx[r] \in TxRow
      /\ Working(r) /\ TypeOK
  BY DEF TypeInv, TypeOK
<1>f. Finish(r) /\ UNCHANGED <<clock, played, weak, stats>> => Ends(r)
  BY <1>t DEF Finish, Ends
<1>1. CASE Arrival(r)
  <2>1. pc[r] = "idle" /\ pc'[r] \in {"issue", "read"} /\ UNCHANGED <<clock, db>>
    BY <1>1, <1>t DEF Arrival, ReadCandidates, StartSubmit, Goto
  <2>2. ASSUME NEW m, ReadCandidates(r, m)
        PROVE  tx'[r].now = clock /\ tx'[r].at = tx[r].at /\ tx'[r].weak = tx[r].weak
    <3>1. PICK C : tx' = [tx EXCEPT ![r].now = clock, ![r].mode = m, ![r].candidates = C]
      BY <2>2 DEF ReadCandidates
    <3>2. tx'[r] = [[[tx[r] EXCEPT !.now = clock] EXCEPT !.mode = m] EXCEPT !.candidates = C]
      BY <1>t, <3>1
    <3> QED BY <1>t, <3>2 DEF TxRow
  <2>3. ASSUME NEW s, NEW m, NEW marks, StartSubmit(r, s, m, marks)
        PROVE  tx'[r].now = clock /\ tx'[r].at = tx[r].at /\ tx'[r].weak = tx[r].weak
    <3>1. tx'[r] = [[[[tx[r] EXCEPT !.now = clock] EXCEPT !.set = s] EXCEPT !.mode = m]
                      EXCEPT !.marks = marks]
      BY <1>t, <2>3 DEF StartSubmit
    <3> QED BY <1>t, <3>1 DEF TxRow
  <2>4. tx'[r].now = clock /\ tx'[r].at = tx[r].at /\ tx'[r].weak = tx[r].weak
    BY <1>1, <2>2, <2>3 DEF Arrival
  <2> QED BY <2>1, <2>4 DEF Turn, Arrives
<1>2. CASE Rollback(r) \/ DeadlockVictim(r) \/ Commit(r)
           \/ \E s \in SetIds, q \in [Indexes -> Elements] : IssueQuestionSet(r, s, q)
  BY <1>2, <1>f DEF Rollback, DeadlockVictim, IssueQuestionSet, db, Turn
<1>3. CASE ReadQuestionSet(r)
  <2>1. CASE Acceptable(r)
    BY <1>3, <1>t, <2>1 DEF ReadQuestionSet, Goto, Turn, Begins, Keeps, Carries
  <2>2. CASE ~Acceptable(r)
    BY <1>3, <1>f, <2>2 DEF ReadQuestionSet, db, Turn
  <2> QED BY <2>1, <2>2
<1>4. CASE CountMasteredBefore(r)
  <2>1. PICK n : n = CountMasteredElements(played, AskedBy(r)) /\ tx' = [tx EXCEPT ![r].before = n]
    BY <1>4 DEF CountMasteredBefore
  <2>2. tx'[r] = [tx[r] EXCEPT !.before = n]
    BY <1>t, <2>1, FieldSet
  <2>3. pc[r] = "before" /\ pc'[r] = "consume" /\ UNCHANGED <<clock, db>>
    BY <1>4, <1>t DEF CountMasteredBefore, Goto
  <2>4. Keeps(r) /\ tx'[r].before = n
    BY <1>t, <2>2, <2>3 DEF Keeps, Carries, TxRow
  <2> QED BY <2>1, <2>3, <2>4 DEF Turn, Counts
<1>5. CASE ConsumeQuestionSet(r)
  <2>1. CASE sets[tx[r].set].status = "open"
    <3>1. tx' = [tx EXCEPT ![r].consumed = TRUE]
      BY <1>5, <2>1 DEF ConsumeQuestionSet
    <3>2. tx'[r] = [tx[r] EXCEPT !.consumed = TRUE]
      BY <1>t, <3>1, FieldSet
    <3>3. pc[r] = "consume" /\ pc'[r] = "weak" /\ UNCHANGED <<clock, db>>
      BY <1>5, <1>t, <2>1 DEF ConsumeQuestionSet, Goto
    <3>4. Keeps(r) /\ tx'[r].before = tx[r].before
      BY <1>t, <3>2, <3>3 DEF Keeps, Carries, TxRow
    <3> QED BY <3>3, <3>4 DEF Turn, Begins
  <2>2. CASE sets[tx[r].set].status # "open"
    BY <1>5, <1>f, <2>2 DEF ConsumeQuestionSet, db, Turn
  <2> QED BY <2>1, <2>2
<1>6. CASE UpsertMissedElement(r) \/ FindWeakElement(r) \/ HitWeakElement(r)
  BY <1>6, LoopTurns DEF Turn
<1>7. CASE CountMasteredAfter(r)
  <2>1. PICK n : n = CountMasteredElements(Saved(r), AskedBy(r)) /\ tx' = [tx EXCEPT ![r].after = n]
    BY <1>7 DEF CountMasteredAfter, Saved
  <2>2. tx'[r] = [tx[r] EXCEPT !.after = n]
    BY <1>t, <2>1, FieldSet
  <2>3. pc[r] = "after" /\ pc'[r] = "readStats" /\ UNCHANGED <<clock, db>>
    BY <1>7, <1>t DEF CountMasteredAfter, Goto
  <2>4. Keeps(r) /\ tx'[r].after = n /\ tx'[r].before = tx[r].before
    BY <1>t, <2>2, <2>3 DEF Keeps, Carries, TxRow
  <2> QED BY <2>1, <2>3, <2>4 DEF Turn, Recounts
<1>8. CASE CountMasteredOnCreate(r)
  <2>1. PICK n : n = CountMasteredElements(Saved(r), Elements) /\ tx' = [tx EXCEPT ![r].onCreate = n]
    BY <1>8 DEF CountMasteredOnCreate, Saved
  <2>2. tx'[r] = [tx[r] EXCEPT !.onCreate = n]
    BY <1>t, <2>1, FieldSet
  <2>3. pc[r] = "countAll" /\ pc'[r] = "createStats" /\ UNCHANGED <<clock, db>>
    BY <1>8, <1>t DEF CountMasteredOnCreate, Goto
  <2>4. Keeps(r) /\ tx'[r].onCreate = n /\ tx'[r].before = tx[r].before /\ tx'[r].after = tx[r].after
    BY <1>t, <2>2, <2>3 DEF Keeps, Carries, TxRow
  <2> QED BY <2>1, <2>3, <2>4 DEF Turn, CountsAll
<1>9. CASE ReadStats(r) \/ RereadStats(r)
  BY <1>9, <1>t DEF ReadStats, RereadStats, BranchOnWeek, Goto, Turn, Branches, Working
<1>w. ASSUME NEW v, WriteStats(r, v), UNCHANGED <<clock, db>>
      PROVE  /\ pc'[r] = "commit" /\ Keeps(r) /\ tx'[r].stats = v
             /\ tx'[r].before = tx[r].before /\ tx'[r].after = tx[r].after
  <2>1. tx'[r] = [tx[r] EXCEPT !.stats = v]
    BY <1>t, <1>w, FieldSet DEF WriteStats
  <2>2. pc'[r] = "commit"
    BY <1>t, <1>w DEF WriteStats, Goto
  <2> QED BY <1>t, <1>w, <2>1, <2>2 DEF Keeps, Carries, TxRow
<1>10. CASE CreateStats(r)
  <2>1. CASE stats = NoRow
    BY <1>10, <1>w, <2>1 DEF CreateStats, Turn, Wrote
  <2>2. CASE stats # NoRow
    BY <1>10, <1>t, <2>2 DEF CreateStats, Goto, Turn, Branches
  <2> QED BY <2>1, <2>2
<1>11. CASE ReplaceStaleWeek(r)
  <2>1. CASE stats.week # WeekOf(tx[r].now)
    BY <1>11, <1>t, <1>w, <2>1 DEF ReplaceStaleWeek, Turn, Wrote, Working
  <2>2. CASE stats.week = WeekOf(tx[r].now)
    BY <1>11, <1>t, <2>2 DEF ReplaceStaleWeek, Goto, Turn, Branches, Working
  <2> QED BY <2>1, <2>2
<1>12. CASE IncrementStats(r)
  BY <1>12, <1>t, <1>w DEF IncrementStats, Turn, Wrote, Working
<1> QED
  BY <1>1, <1>2, <1>3, <1>4, <1>5, <1>6, <1>7, <1>8, <1>9, <1>10, <1>11, <1>12 DEF Statement

----------------------------------------------------------------------------
(* The weekly score of requests served one at a time. *)

LEMMA WeekMonotone ==
  ASSUME NEW t \in Nat, NEW u \in Nat, t <= u
  PROVE  WeekOf(t) \in Nat /\ WeekOf(t) <= WeekOf(u)
<1> DEFINE W == WeekLength
<1>1. W \in Nat /\ W > 0
  BY GameAssumption
<1> HIDE DEF W
<1>2. /\ t \div W \in Int /\ u \div W \in Int
      /\ t = W * (t \div W) + (t % W) /\ u = W * (u \div W) + (u % W)
      /\ 0 <= t % W /\ t % W < W /\ 0 <= u % W /\ u % W < W
  BY <1>1
<1>3. ASSUME NEW a \in Int, NEW b \in Int, W * a < W * (b + 1) PROVE a <= b
  <2>1. W * (a - b - 1) < 0
    BY <1>1, <1>3
  <2> SUFFICES ASSUME a - b - 1 >= 0 PROVE FALSE
    OBVIOUS
  <2>2. W * (a - b - 1) >= 0
    BY <1>1
  <2> QED BY <1>1, <2>1, <2>2
<1>4. t \div W <= u \div W
  BY <1>1, <1>2, <1>3
<1>5. 0 <= t \div W
  <2>1. W * 0 < W * ((t \div W) + 1)
    BY <1>1, <1>2
  <2> QED BY <1>2, <1>3, <2>1
<1> QED BY <1>2, <1>4, <1>5 DEF WeekOf, W

(* Sessions are saved in the order of their times, none in the future; and  *)
(* a request that is under way began after the last one.                   *)
Chronicle ==
  /\ \A i \in DOMAIN played : played[i].playedAt <= clock
  /\ \A i, j \in DOMAIN played : i <= j => played[i].playedAt <= played[j].playedAt

InTime(r) ==
  pc[r] # "idle" =>
    tx[r].now <= clock /\ \A i \in DOMAIN played : played[i].playedAt <= tx[r].now

Timely == Chronicle /\ \A r \in Requests : InTime(r)

(* The statements before the commit write nothing others see. *)
LEMMA TurnKeepsTables ==
  ASSUME NEW r \in Requests, Turn(r), ~Commit(r)
  PROVE  UNCHANGED <<clock, played, weak, stats>>
BY DEF Turn, Counts, Begins, Loops, Recounts, CountsAll, Branches, Wrote, Arrives, Ends, Keeps,
       Carries, db

LEMMA TimelyInit == Init => Timely
BY DEF Init, Timely, Chronicle, InTime

LEMMA CommitKeepsTimes ==
  ASSUME IInv, TypeInv', Timely, Alone, NEW r \in Requests, Commit(r)
  PROVE  Timely'
<1> DEFINE n == Len(played)
           row == Session(tx[r])
<1>p. /\ n \in Nat /\ DOMAIN played = 1 .. n /\ DOMAIN played' = 1 .. (n + 1)
      /\ \A i \in 1 .. n : played[i] \in SessionRow /\ played'[i] = played[i]
      /\ played'[n + 1] = row /\ row \in SessionRow
  BY SavedSession
<1>r. row.playedAt = tx[r].now
  BY DEF Session
<1> HIDE DEF row, n
<1>t. /\ clock \in Nat /\ clock' = clock /\ tx[r].now \in Nat /\ pc[r] = "commit"
      /\ \A i \in 1 .. n : played[i].playedAt \in Nat
  BY <1>p DEF Commit, At, IInv, TypeInv, TypeOK, TxRow, SessionRow
<1>i. tx[r].now <= clock /\ \A i \in 1 .. n : played[i].playedAt <= tx[r].now
  BY <1>p, <1>t DEF Timely, InTime
<1>1. \A q \in Requests : pc'[q] = "idle"
  BY DEF Alone, Commit, Finish, IInv, TypeInv, TypeOK
<1>2. Chronicle'
  <2>1. \A i, j \in 1 .. n : i <= j => played[i].playedAt <= played[j].playedAt
    BY <1>p DEF Timely, Chronicle
  <2>2. \A i \in 1 .. n : played'[i].playedAt = played[i].playedAt
    BY <1>p
  <2>3. played'[n + 1].playedAt = tx[r].now
    BY <1>p, <1>r
  <2>4. \A i \in 1 .. (n + 1) : i \in 1 .. n \/ i = n + 1
    BY <1>p
  <2>5. \A i \in 1 .. (n + 1) : played'[i].playedAt <= tx[r].now
    BY <1>t, <1>i, <2>2, <2>3, <2>4
  <2>6. \A i, j \in 1 .. (n + 1) : i <= j => played'[i].playedAt <= played'[j].playedAt
    <3> SUFFICES ASSUME NEW i \in 1 .. (n + 1), NEW j \in 1 .. (n + 1), i <= j
                 PROVE  played'[i].playedAt <= played'[j].playedAt
      OBVIOUS
    <3>1. CASE j \in 1 .. n
      BY <1>p, <2>1, <2>2, <3>1
    <3>2. CASE j = n + 1
      BY <2>3, <2>5, <3>2
    <3> QED BY <2>4, <3>1, <3>2
  <2>7. \A i \in 1 .. (n + 1) : played'[i].playedAt <= clock'
    <3>1. \A i \in 1 .. (n + 1) : played'[i].playedAt \in Nat
      BY <1>t, <2>2, <2>3, <2>4
    <3> QED BY <1>t, <1>i, <2>5, <3>1
  <2> QED BY <1>p, <2>6, <2>7 DEF Chronicle
<1> QED BY <1>1, <1>2 DEF Timely, InTime

LEMMA TurnKeepsTimes ==
  ASSUME IInv, Timely, Alone, NEW r \in Requests, Turn(r), ~Commit(r)
  PROVE  Timely'
<1>u. UNCHANGED <<clock, played>>
  BY TurnKeepsTables
<1>1. Chronicle'
  BY <1>u DEF Timely, Chronicle
<1>2. CASE Arrives(r)
  <2>1. \A i \in DOMAIN played : played[i].playedAt <= clock
    BY DEF Timely, Chronicle
  <2>2. clock \in Nat
    BY DEF IInv, TypeInv, TypeOK
  <2>3. InTime(r)'
    BY <1>u, <1>2, <2>1, <2>2 DEF Arrives, InTime
  <2> QED BY <1>1, <2>3 DEF Timely, Alone
<1>3. CASE Ends(r)
  BY <1>1, <1>3 DEF Timely, Alone, Ends, InTime
<1>4. CASE pc[r] # "idle" /\ tx'[r].now = tx[r].now
  BY <1>u, <1>1, <1>4 DEF Timely, Alone, InTime
<1>5. Arrives(r) \/ Ends(r) \/ (pc[r] # "idle" /\ tx'[r].now = tx[r].now)
  BY DEF Turn, Counts, Begins, Loops, Recounts, CountsAll, Branches, Wrote, Keeps, Carries
<1> QED BY <1>2, <1>3, <1>4, <1>5

LEMMA EnvironmentKeepsTimes ==
  ASSUME IInv, Timely, Environment
  PROVE  Timely'
<1>u. UNCHANGED <<pc, tx, played>>
  BY DEF Environment, ResetWeeklyScores, CleanupQuestionSets, DeleteWeakElement,
         CreateStatsAtLogin, Tick, db
<1>t. /\ clock \in Nat
      /\ \A i \in DOMAIN played : played[i].playedAt \in Nat /\ played[i].playedAt <= clock
      /\ \A r \in Requests : tx[r].now \in Nat /\ (pc[r] # "idle" => tx[r].now <= clock)
  <2>1. \A i \in DOMAIN played : played[i] \in SessionRow
    <3>1. played \in Seq(SessionRow)
      BY DEF IInv, TypeInv, TypeOK
    <3> QED BY <3>1, LenProperties, ElementOfSeq
  <2> QED BY <2>1 DEF Timely, Chronicle, InTime, SessionRow, IInv, TypeInv, TypeOK, TxRow
<1>1. CASE Tick
  <2>1. clock' = clock + 1
    BY <1>1 DEF Tick
  <2>2. Chronicle'
    BY <1>t, <1>u, <2>1 DEF Timely, Chronicle
  <2>3. \A r \in Requests : InTime(r)'
    BY <1>t, <1>u, <2>1 DEF Timely, InTime
  <2> QED BY <2>2, <2>3 DEF Timely
<1>2. CASE UNCHANGED clock
  BY <1>u, <1>2 DEF Timely, Chronicle, InTime
<1>3. Tick \/ UNCHANGED clock
  BY DEF Environment, ResetWeeklyScores, CleanupQuestionSets, DeleteWeakElement,
         CreateStatsAtLogin
<1> QED BY <1>1, <1>2, <1>3

LEMMA TimelyNext == Alone /\ IInv /\ Timely /\ [Next]_vars => Timely'
<1> SUFFICES ASSUME Alone, IInv, Timely, [Next]_vars PROVE Timely'
  OBVIOUS
<1>1. ASSUME NEW r \in Requests, Arrival(r) \/ Statement(r) \/ Rollback(r) \/ DeadlockVictim(r)
      PROVE  Timely'
  BY <1>1, TypeNext, TurnShape, TurnKeepsTimes, CommitKeepsTimes DEF IInv
<1>2. Environment => Timely'
  BY EnvironmentKeepsTimes
<1>3. UNCHANGED vars => Timely'
  BY DEF vars, Timely, Chronicle, InTime
<1> QED BY <1>1, <1>2, <1>3 DEF Next

(* The weekly score the user is shown now. *)
Shown == IF stats # NoRow /\ stats.week = WeekOf(clock) THEN stats.weekly ELSE 0

ThisWeek == {i \in DOMAIN played : WeekOf(played[i].playedAt) = WeekOf(clock)}

(* The branch on the week that was read is still the right one while the   *)
(* week lasts.                                                             *)
InWeek(r) ==
  WeekOf(tx[r].now) = WeekOf(clock) =>
    /\ pc[r] = "increment" => stats.week = WeekOf(clock)
    /\ pc[r] = "commit" => tx[r].stats.weekly = Shown + Score(tx[r].marks)

WeeklyInv ==
  /\ WeeklyMatchesHistory
  /\ stats # NoRow => stats.week <= WeekOf(clock)
  /\ \A r \in Requests :
       /\ InWeek(r)
       /\ pc[r] = "commit" => tx[r].stats.week = WeekOf(tx[r].now)

LEMMA WeeklyInit == Init => WeeklyInv
<1> SUFFICES ASSUME Init PROVE WeeklyInv
  OBVIOUS
<1>1. ThisWeek = {} /\ DOMAIN played = {}
  BY DEF Init, ThisWeek
<1>2. \A f : DOMAIN f = {} => SumFunction(f) = 0
  BY SumEmpty DEF SumFunction
<1>3. WeeklyMatchesHistory
  BY <1>1, <1>2 DEF Init, WeeklyMatchesHistory
<1> QED BY <1>1, <1>3 DEF Init, WeeklyInv, InWeek

LEMMA WeeklyMeans ==
  WeeklyMatchesHistory <=> Shown = SumFunction([i \in ThisWeek |-> played[i].score])
BY DEF WeeklyMatchesHistory, Shown, ThisWeek

LEMMA CommitKeepsWeek ==
  ASSUME IInv, TypeInv', Timely, WeeklyInv, Alone, NEW r \in Requests, Commit(r)
  PROVE  WeeklyInv'
<1> DEFINE n == Len(played)
           row == Session(tx[r])
<1>p. /\ n \in Nat /\ DOMAIN played = 1 .. n /\ DOMAIN played' = 1 .. (n + 1)
      /\ \A i \in 1 .. n : played[i] \in SessionRow /\ played'[i] = played[i]
      /\ played'[n + 1] = row /\ row \in SessionRow
  BY SavedSession
<1>r. row.playedAt = tx[r].now /\ row.score = Score(tx[r].marks)
  BY DEF Session
<1> HIDE DEF row, n
<1>t. /\ clock \in Nat /\ clock' = clock /\ tx[r] \in TxRow /\ tx[r].now \in Nat
      /\ pc[r] = "commit" /\ Score(tx[r].marks) \in Nat
      /\ \A i \in 1 .. n : played[i].playedAt \in Nat /\ played[i].score \in Nat
  BY <1>p, CountType DEF Commit, At, IInv, TypeInv, TypeOK, TxRow, SessionRow
<1>s. stats' = tx[r].stats /\ stats' \in StatsRow /\ stats' # NoRow
  BY CommitFacts, MarkerAssumption DEF Commit, At
<1>i. /\ tx[r].now <= clock /\ \A i \in 1 .. n : played[i].playedAt <= tx[r].now
      /\ stats'.week = WeekOf(tx[r].now)
      /\ WeekOf(tx[r].now) = WeekOf(clock) => stats'.weekly = Shown + Score(tx[r].marks)
  BY <1>p, <1>t, <1>s DEF Timely, WeeklyInv, InTime, InWeek
<1>w. WeekOf(tx[r].now) <= WeekOf(clock) /\ WeekOf(tx[r].now) \in Nat /\ WeekOf(clock) \in Nat
  BY <1>t, <1>i, WeekMonotone
<1>1. \A q \in Requests : pc'[q] = "idle"
  BY DEF Alone, Commit, Finish, IInv, TypeInv, TypeOK
<1>3. WeekOf(clock)' = WeekOf(clock) /\ ThisWeek \subseteq 1 .. n
      /\ ThisWeek' = {i \in 1 .. (n + 1) : WeekOf(played'[i].playedAt) = WeekOf(clock)}
  BY <1>p, <1>t DEF ThisWeek, WeekOf
<1>4. Shown = SumFunction([i \in ThisWeek |-> played[i].score])
  BY WeeklyMeans DEF WeeklyInv
<1>5. Shown' = SumFunction([i \in ThisWeek' |-> played'[i].score])
  <2>1. CASE WeekOf(tx[r].now) = WeekOf(clock)
    <3> DEFINE S == ThisWeek
               x == n + 1
               f == [i \in S |-> played[i].score]
               g == [i \in S \cup {x} |-> played'[i].score]
    <3>1. ThisWeek' = S \cup {x}
      <4>1. \A i \in 1 .. n : WeekOf(played'[i].playedAt) = WeekOf(played[i].playedAt)
        BY <1>p
      <4>2. WeekOf(played'[n + 1].playedAt) = WeekOf(clock)
        BY <1>p, <1>r, <2>1
      <4>3. ThisWeek = {i \in 1 .. n : WeekOf(played[i].playedAt) = WeekOf(clock)}
        BY <1>p DEF ThisWeek
      <4>4. 1 .. (n + 1) = (1 .. n) \cup {n + 1}
        BY <1>p
      <4> QED BY <1>3, <4>1, <4>2, <4>3, <4>4
    <3>2. IsFiniteSet(S) /\ x \notin S
      <4>1. IsFiniteSet(1 .. n)
        BY <1>p, FS_Interval
      <4>2. x \notin 1 .. n
        BY <1>p
      <4> QED BY <1>3, <4>1, <4>2, FS_Subset
    <3>3. /\ DOMAIN f = S /\ DOMAIN g = S \cup {x}
          /\ \A i \in S : f[i] \in Int /\ g[i] = f[i]
          /\ g[x] = Score(tx[r].marks)
      BY <1>p, <1>r, <1>t, <1>3
    <3> HIDE DEF S, f, g, x
    <3>4. SumFunctionOnSet(g, S \cup {x}) = SumFunctionOnSet(f, S) + g[x]
      BY <3>2, <3>3, <1>t, SumAdd
    <3>5. SumFunction(g) = SumFunction(f) + Score(tx[r].marks)
      BY <3>3, <3>4 DEF SumFunction
    <3>6. Shown' = stats'.weekly
      BY <1>s, <1>i, <1>3, <2>1 DEF Shown
    <3>7. Shown = SumFunction(f)
      BY <1>4 DEF f, S
    <3>8. Shown' = SumFunction(g)
      BY <1>i, <2>1, <3>5, <3>6, <3>7
    <3> QED BY <3>1, <3>8 DEF g
  <2>2. CASE WeekOf(tx[r].now) # WeekOf(clock)
    <3>1. \A i \in 1 .. (n + 1) : WeekOf(played'[i].playedAt) <= WeekOf(tx[r].now)
                                  /\ WeekOf(played'[i].playedAt) \in Nat
      <4>1. ASSUME NEW i \in 1 .. n
            PROVE  WeekOf(played'[i].playedAt) <= WeekOf(tx[r].now)
                   /\ WeekOf(played'[i].playedAt) \in Nat
        BY <1>p, <1>t, <1>i, <4>1, WeekMonotone
      <4>2. WeekOf(played'[n + 1].playedAt) = WeekOf(tx[r].now)
        BY <1>p, <1>r
      <4>3. \A i \in 1 .. (n + 1) : i \in 1 .. n \/ i = n + 1
        BY <1>p
      <4> QED BY <1>w, <4>1, <4>2, <4>3
    <3>2. ThisWeek' = {}
      BY <1>w, <1>3, <2>2, <3>1
    <3>3. Shown' = 0
      BY <1>i, <1>3, <2>2 DEF Shown
    <3>4. SumFunction([i \in {} |-> played'[i].score]) = 0
      BY SumEmpty DEF SumFunction
    <3> QED BY <3>2, <3>3, <3>4
  <2> QED BY <2>1, <2>2
<1>6. WeeklyMatchesHistory'
  <2>1. (WeeklyMatchesHistory <=> Shown = SumFunction([i \in ThisWeek |-> played[i].score]))'
    BY WeeklyMeans, PTL
  <2> QED BY <1>5, <2>1
<1> QED BY <1>1, <1>6, <1>s, <1>i, <1>w, <1>3 DEF WeeklyInv, InWeek

LEMMA TurnKeepsWeek ==
  ASSUME IInv, TypeInv', Timely, WeeklyInv, Alone, NEW r \in Requests, Turn(r), ~Commit(r)
  PROVE  WeeklyInv'
<1>u. UNCHANGED <<clock, played, weak, stats>>
  BY TurnKeepsTables
<1>t. /\ clock \in Nat /\ tx[r] \in TxRow /\ Working(r)
      /\ InWeek(r) /\ (pc[r] = "commit" => tx[r].stats.week = WeekOf(tx[r].now))
  BY DEF IInv, TypeInv, TypeOK, WeeklyInv
<1>1. Shown' = Shown /\ WeekOf(clock)' = WeekOf(clock) /\ WeeklyMatchesHistory'
  BY <1>u DEF Shown, WeekOf, WeeklyInv, WeeklyMatchesHistory
<1>2. (stats # NoRow => stats.week <= WeekOf(clock))'
  BY <1>u, <1>1 DEF WeeklyInv
<1>3. CASE Arrives(r)
  <2>1. pc'[r] \notin {"increment", "commit"}
    BY <1>3 DEF Arrives
  <2> QED BY <1>1, <1>2, <2>1 DEF Alone, WeeklyInv, InWeek
<1>4. CASE Ends(r)
  BY <1>1, <1>2, <1>4 DEF Ends, Alone, WeeklyInv, InWeek
<1>5. CASE /\ pc[r] # "idle" /\ tx'[r].now = tx[r].now
           /\ pc'[r] \notin {"increment", "commit"}
  BY <1>1, <1>2, <1>5 DEF Alone, WeeklyInv, InWeek
<1>6. CASE Branches(r)
  <2>1. tx'[r] = tx[r] /\ pc'[r] # "commit"
    BY <1>6 DEF Branches
  <2>2. pc'[r] = "increment" => stats.week = WeekOf(tx[r].now)
    BY <1>6 DEF Branches
  <2>3. InWeek(r)'
    BY <1>u, <1>1, <2>1, <2>2 DEF InWeek
  <2> QED BY <1>1, <1>2, <2>1, <2>3 DEF Alone, WeeklyInv
<1>7. CASE Wrote(r)
  <2>1. pc'[r] = "commit" /\ tx'[r].now = tx[r].now /\ tx'[r].marks = tx[r].marks
    BY <1>7 DEF Wrote, Keeps, Carries
  <2>2. tx'[r].stats.week = WeekOf(tx[r].now)
    BY <1>7 DEF Wrote, Counted
  <2>3. ASSUME WeekOf(tx[r].now) = WeekOf(clock)
        PROVE  tx'[r].stats.weekly = Shown + Score(tx[r].marks)
    <3>0. Score(tx[r].marks) \in Nat
      BY CountType
    <3>1. CASE pc[r] = "createStats" /\ stats = NoRow
      BY <1>7, <3>0, <3>1 DEF Wrote, Counted, Shown
    <3>2. CASE pc[r] = "replaceWeek" /\ stats.week # WeekOf(tx[r].now)
      BY <1>7, <2>3, <3>0, <3>2 DEF Wrote, Counted, Shown
    <3>3. CASE pc[r] = "increment" /\ stats # NoRow
      <4>1. stats.week = WeekOf(clock)
        BY <1>t, <2>3, <3>3 DEF InWeek
      <4> QED BY <1>7, <3>3, <4>1 DEF Wrote, Counted, Shown
    <3> QED BY <1>7, <3>1, <3>2, <3>3 DEF Wrote
  <2>4. InWeek(r)'
    BY <1>u, <1>1, <2>1, <2>3 DEF InWeek
  <2> QED BY <1>1, <1>2, <2>1, <2>2, <2>4 DEF Alone, WeeklyInv
<1>8. Counts(r) \/ Begins(r) \/ Loops(r) \/ Recounts(r) \/ CountsAll(r)
        => pc[r] # "idle" /\ tx'[r].now = tx[r].now /\ pc'[r] \notin {"increment", "commit"}
  BY DEF Counts, Begins, Loops, Recounts, CountsAll, Keeps, Carries
<1> QED BY <1>3, <1>4, <1>5, <1>6, <1>7, <1>8 DEF Turn

LEMMA EnvironmentKeepsWeek ==
  ASSUME IInv, TypeInv', Timely, WeeklyInv, Alone, JobLag = 0, Environment
  PROVE  WeeklyInv'
<1>u. UNCHANGED <<pc, tx, played>>
  BY DEF Environment, ResetWeeklyScores, CleanupQuestionSets, DeleteWeakElement,
         CreateStatsAtLogin, Tick, db
<1>t. clock \in Nat /\ stats \in StatsRow \cup {NoRow} /\ \A r \in Requests : Working(r)
  BY DEF IInv, TypeInv, TypeOK
<1>w. WeekOf(clock) \in Nat
  BY <1>t, WeekMonotone
<1>n. ASSUME StatsUnlocked, UNCHANGED clock, stats'.week <= WeekOf(clock), Shown' = Shown,
             \/ stats.week = WeekOf(clock) => stats'.week = WeekOf(clock)
             \/ stats = NoRow
      PROVE  WeeklyInv'
  <2>1. \A r \in Requests : pc'[r] # "commit"
    BY <1>u, <1>n, <1>t DEF StatsUnlocked, Working
  <2>2. \A r \in Requests : pc[r] = "increment" => stats # NoRow
    BY <1>t DEF Working
  <2>3. WeekOf(clock)' = WeekOf(clock) /\ ThisWeek' = ThisWeek
    BY <1>u, <1>n DEF WeekOf, ThisWeek
  <2>4. WeeklyMatchesHistory'
    <3>1. (WeeklyMatchesHistory <=> Shown = SumFunction([i \in ThisWeek |-> played[i].score]))'
      BY WeeklyMeans, PTL
    <3> QED BY <1>u, <1>n, <2>3, <3>1, WeeklyMeans DEF WeeklyInv
  <2>6. \A r \in Requests : InWeek(r)'
    BY <1>u, <1>n, <2>1, <2>2, <2>3 DEF WeeklyInv, InWeek
  <2> QED BY <1>n, <2>1, <2>3, <2>4, <2>6 DEF WeeklyInv
<1>1. ASSUME NEW t \in 0 .. MaxClock, clock - JobLag <= t, t <= clock, ResetWeeklyScores(t)
      PROVE  WeeklyInv'
  <2>1. t = clock
    BY <1>1, <1>t
  <2>2. stats \in StatsRow /\ stats.week # WeekOf(clock) /\ StatsUnlocked /\ clock' = clock
        /\ stats' = [stats EXCEPT !.weekly = 0, !.week = WeekOf(clock)]
    BY <1>1, <1>t, <2>1 DEF ResetWeeklyScores
  <2>3. stats'.week = WeekOf(clock) /\ stats'.weekly = 0
    BY <2>2 DEF StatsRow
  <2>4. Shown' = Shown
    BY <2>2, <2>3 DEF Shown, WeekOf
  <2> QED BY <1>n, <1>w, <2>2, <2>3, <2>4
<1>2. CASE CreateStatsAtLogin
  <2>1. stats = NoRow /\ stats' = NewStats /\ StatsUnlocked /\ clock' = clock
    BY <1>2 DEF CreateStatsAtLogin
  <2>2. stats'.week = -1 /\ stats'.weekly = 0
    BY <2>1 DEF NewStats, NullWeek
  <2>3. Shown' = Shown
    BY <1>w, <2>1, <2>2 DEF Shown
  <2> QED BY <1>n, <1>w, <2>1, <2>2, <2>3
<1>3. CASE Tick
  <2>1. clock' = clock + 1 /\ UNCHANGED <<stats, played>>
    BY <1>3 DEF Tick, db
  <2>2. WeekOf(clock) <= WeekOf(clock') /\ WeekOf(clock') \in Nat
    BY <1>t, <2>1, WeekMonotone
  <2>3. \A i \in DOMAIN played : played[i].playedAt \in Nat /\ played[i].playedAt <= clock
    <3>1. \A i \in DOMAIN played : played[i] \in SessionRow
      <4>1. played \in Seq(SessionRow)
        BY DEF IInv, TypeInv, TypeOK
      <4> QED BY <4>1, LenProperties, ElementOfSeq
    <3> QED BY <3>1 DEF Timely, Chronicle, SessionRow
  <2>4. \A r \in Requests : tx[r].now \in Nat /\ (pc[r] # "idle" => tx[r].now <= clock)
    BY DEF IInv, TypeInv, TypeOK, TxRow, Timely, InTime
  <2>7. CASE WeekOf(clock') = WeekOf(clock)
    <3>1. Shown' = Shown /\ ThisWeek' = ThisWeek /\ (WeekOf(clock))' = WeekOf(clock)
      BY <2>1, <2>7 DEF Shown, ThisWeek, WeekOf
    <3>2. WeeklyMatchesHistory'
      <4>1. (WeeklyMatchesHistory <=> Shown = SumFunction([i \in ThisWeek |-> played[i].score]))'
        BY WeeklyMeans, PTL
      <4> QED BY <2>1, <3>1, <4>1, WeeklyMeans DEF WeeklyInv
    <3>3. \A r \in Requests : InWeek(r)'
      BY <1>u, <2>1, <3>1 DEF WeeklyInv, InWeek
    <3> QED BY <1>u, <2>1, <3>1, <3>2, <3>3 DEF WeeklyInv
  <2>8. CASE WeekOf(clock') # WeekOf(clock)
    <3>1. WeekOf(clock) < WeekOf(clock') /\ WeekOf(clock) \in Nat
      BY <1>w, <2>2, <2>8
    <3>2. \A i \in DOMAIN played : WeekOf(played[i].playedAt) <= WeekOf(clock)
                                   /\ WeekOf(played[i].playedAt) \in Nat
      BY <1>t, <2>3, WeekMonotone
    <3>3. \A r \in Requests : pc[r] # "idle" => WeekOf(tx[r].now) <= WeekOf(clock)
                                                /\ WeekOf(tx[r].now) \in Nat
      BY <1>t, <2>4, WeekMonotone
    <3>4. WeekOf(clock)' = WeekOf(clock')
      BY DEF WeekOf
    <3>5. ThisWeek' = {}
      BY <2>1, <2>2, <3>1, <3>2, <3>4 DEF ThisWeek, WeekOf
    <3>6. stats # NoRow => stats.week \in Int /\ stats.week <= WeekOf(clock)
      BY <1>t DEF WeeklyInv, StatsRow
    <3>7. Shown' = 0
      BY <2>1, <2>2, <3>1, <3>4, <3>6 DEF Shown
    <3>8. WeeklyMatchesHistory'
      <4>1. (WeeklyMatchesHistory <=> Shown = SumFunction([i \in ThisWeek |-> played[i].score]))'
        BY WeeklyMeans, PTL
      <4>2. SumFunction([i \in {} |-> played'[i].score]) = 0
        BY SumEmpty DEF SumFunction
      <4> QED BY <3>5, <3>7, <4>1, <4>2
    <3>9. \A r \in Requests : InWeek(r)'
      <4>1. \A r \in Requests : pc'[r] \in {"increment", "commit"} =>
              WeekOf(tx'[r].now) # WeekOf(clock')
        BY <1>u, <3>1, <3>3
      <4>2. \A r \in Requests : WeekOf(tx[r].now)' = WeekOf(tx'[r].now)
        BY DEF WeekOf
      <4> QED BY <3>4, <4>1, <4>2 DEF InWeek
    <3>10. (stats # NoRow => stats.week <= WeekOf(clock))'
      BY <2>1, <2>2, <3>1, <3>4, <3>6
    <3>11. \A r \in Requests : (pc[r] = "commit" => tx[r].stats.week = WeekOf(tx[r].now))'
      BY <1>u DEF WeeklyInv, WeekOf
    <3> QED BY <3>8, <3>9, <3>10, <3>11 DEF WeeklyInv
  <2> QED BY <2>7, <2>8
<1>4. CASE UNCHANGED <<clock, stats>>
  BY <1>u, <1>4 DEF WeeklyInv, InWeek, Shown, WeeklyMatchesHistory, WeekOf
<1>5. ASSUME NEW t \in 0 .. MaxClock, CleanupQuestionSets(t) PROVE WeeklyInv'
  BY <1>4, <1>5 DEF CleanupQuestionSets
<1>6. ASSUME NEW e \in Elements, DeleteWeakElement(e) PROVE WeeklyInv'
  BY <1>4, <1>6 DEF DeleteWeakElement
<1> QED BY <1>1, <1>2, <1>3, <1>5, <1>6 DEF Environment

LEMMA WeeklyNext == Alone /\ JobLag = 0 /\ IInv /\ Timely /\ WeeklyInv /\ [Next]_vars => WeeklyInv'
<1> SUFFICES ASSUME Alone, JobLag = 0, IInv, Timely, WeeklyInv, [Next]_vars PROVE WeeklyInv'
  OBVIOUS
<1>t. TypeInv'
  BY TypeNext DEF IInv
<1>1. ASSUME NEW r \in Requests, Arrival(r) \/ Statement(r) \/ Rollback(r) \/ DeadlockVictim(r)
      PROVE  WeeklyInv'
  BY <1>1, <1>t, TurnShape, TurnKeepsWeek, CommitKeepsWeek DEF IInv
<1>2. Environment => WeeklyInv'
  BY <1>t, EnvironmentKeepsWeek
<1>3. UNCHANGED vars => WeeklyInv'
  BY DEF vars, WeeklyInv, InWeek, Shown, WeeklyMatchesHistory, WeekOf
<1> QED BY <1>1, <1>2, <1>3 DEF Next

----------------------------------------------------------------------------
(* The mastered elements of requests served one at a time. *)

(* A session that did not ask an element does not change its mastery.      *)
LEMMA MasteryStays ==
  ASSUME NEW h \in Seq(SessionRow), NEW s \in SessionRow, NEW e \in Elements, s.outcome[e] = "absent"
  PROVE  Mastered(Append(h, s), e) <=> Mastered(h, e)
<1> DEFINE n == Len(h)
           g == Append(h, s)
<1>1. /\ n \in Nat /\ DOMAIN h = 1 .. n /\ DOMAIN g = 1 .. (n + 1)
      /\ \A i \in 1 .. n : g[i] = h[i]
      /\ g[n + 1] = s
  <2>1. g \in Seq(SessionRow) /\ Len(g) = n + 1 /\ g[n + 1] = s /\ \A i \in 1 .. n : g[i] = h[i]
    BY AppendProperties
  <2> HIDE DEF g
  <2> QED BY <2>1, LenProperties
<1> HIDE DEF n, g
<1>2. SessionsOn(g, e) = SessionsOn(h, e)
  <2>1. 1 .. (n + 1) = (1 .. n) \cup {n + 1}
    BY <1>1
  <2> QED BY <1>1, <2>1 DEF SessionsOn
<1>3. \A i, j \in SessionsOn(h, e) : Newer(g, i, j) <=> Newer(h, i, j)
  BY <1>1 DEF SessionsOn, Newer
<1>4. \A i \in SessionsOn(h, e) :
        {j \in SessionsOn(h, e) : Newer(g, j, i)} = {j \in SessionsOn(h, e) : Newer(h, j, i)}
  BY <1>3
<1>5. LatestTwo(g, e) = LatestTwo(h, e)
  BY <1>2, <1>4 DEF LatestTwo
<1>6. \A i \in LatestTwo(h, e) : g[i] = h[i]
  BY <1>1 DEF LatestTwo, SessionsOn
<1>7. Mastered(g, e) <=> Mastered(h, e)
  BY <1>2, <1>5, <1>6 DEF Mastered
<1> QED BY <1>7 DEF g

LEMMA DisjointUnion ==
  ASSUME NEW S, NEW T, IsFiniteSet(S), IsFiniteSet(T), S \cap T = {}
  PROVE  Cardinality(S \cup T) = Cardinality(S) + Cardinality(T)
<1>1. Cardinality(S \cap T) = 0 /\ Cardinality(S) \in Nat /\ Cardinality(T) \in Nat
  BY FS_EmptySet, FS_CardinalityType
<1>2. Cardinality(S \cup T) = Cardinality(S) + Cardinality(T) - Cardinality(S \cap T)
  BY FS_Union
<1> QED BY <1>1, <1>2

(* So the elements that were asked account for the change of the count.    *)
LEMMA CountMoves ==
  ASSUME NEW h \in Seq(SessionRow), NEW s \in SessionRow, NEW A \in SUBSET Elements,
         \A e \in Elements \ A : s.outcome[e] = "absent"
  PROVE  CountMasteredElements(Append(h, s), Elements)
           = CountMasteredElements(h, Elements)
             + (CountMasteredElements(Append(h, s), A) - CountMasteredElements(h, A))
<1> DEFINE g == Append(h, s)
           M(x) == {e \in Elements : Mastered(x, e)}
           In(x) == {e \in A : Mastered(x, e)}
           Rest == {e \in Elements \ A : Mastered(h, e)}
<1>1. \A e \in Elements \ A : Mastered(g, e) <=> Mastered(h, e)
  BY MasteryStays
<1> HIDE DEF g
<1>2. M(h) = In(h) \cup Rest /\ In(h) \cap Rest = {}
      /\ M(g) = In(g) \cup Rest /\ In(g) \cap Rest = {}
  BY <1>1
<1>3. IsFiniteSet(In(h)) /\ IsFiniteSet(In(g)) /\ IsFiniteSet(Rest)
  <2>1. In(h) \in SUBSET Elements /\ In(g) \in SUBSET Elements /\ Rest \in SUBSET Elements
    OBVIOUS
  <2> HIDE DEF In, Rest
  <2> QED BY <2>1, FS_Subset, GameAssumption
<1> HIDE DEF M, In, Rest
<1>4. /\ Cardinality(M(h)) = Cardinality(In(h)) + Cardinality(Rest)
      /\ Cardinality(M(g)) = Cardinality(In(g)) + Cardinality(Rest)
  BY <1>2, <1>3, DisjointUnion
<1>5. Cardinality(In(h)) \in Nat /\ Cardinality(In(g)) \in Nat /\ Cardinality(Rest) \in Nat
  BY <1>3, FS_CardinalityType
<1>6. Cardinality(M(g)) = Cardinality(M(h)) + (Cardinality(In(g)) - Cardinality(In(h)))
  BY <1>4, <1>5
<1> QED BY <1>6 DEF M, In, g, CountMasteredElements

LEMMA NoneMastered == CountMasteredElements(<<>>, Elements) = 0
<1>1. \A e \in Elements : SessionsOn(<<>>, e) = {}
  BY DEF SessionsOn
<1>2. \A e \in Elements : ~Mastered(<<>>, e)
  BY <1>1, FS_EmptySet DEF Mastered
<1>3. {e \in Elements : Mastered(<<>>, e)} = {}
  BY <1>2
<1> QED BY <1>3, FS_EmptySet DEF CountMasteredElements

(* What a request has counted is the count of the history it will extend.  *)
MasteredTx(r) ==
  /\ pc[r] \in Scoring \cup {"consume"} =>
       tx[r].before = CountMasteredElements(played, AskedBy(r))
  /\ pc[r] \in Scoring \ {"weak", "hit", "after"} =>
       tx[r].after = CountMasteredElements(Saved(r), AskedBy(r))
  /\ pc[r] = "createStats" =>
       tx[r].onCreate = CountMasteredElements(Saved(r), Elements)
  /\ pc[r] = "commit" =>
       tx[r].stats.mastered = CountMasteredElements(Saved(r), Elements)

MasteredInv == MasteredCountExact /\ \A r \in Requests : MasteredTx(r)

LEMMA MasteredInit == Init => MasteredInv
BY DEF Init, MasteredInv, MasteredCountExact, MasteredTx, Scoring

LEMMA SessionStays ==
  ASSUME NEW r, tx'[r].now = tx[r].now, tx'[r].set = tx[r].set, tx'[r].mode = tx[r].mode,
         tx'[r].marks = tx[r].marks, sets'[tx[r].set].questions = sets[tx[r].set].questions,
         played' = played
  PROVE  AskedBy(r)' = AskedBy(r) /\ Saved(r)' = Saved(r)
BY DEF AskedBy, Asked, Saved, Session, Outcome, Incorrect

(* The statistics row that is about to be written counts the new session.  *)
LEMMA RowCounts ==
  ASSUME IInv, NEW r \in Requests, pc[r] \in Scoring, MasteredCountExact, stats # NoRow
  PROVE  CountMasteredElements(Saved(r), Elements)
           = stats.mastered + (CountMasteredElements(Saved(r), AskedBy(r))
                                 - CountMasteredElements(played, AskedBy(r)))
<1>1. tx[r] \in TxRow /\ tx[r].set \in SetIds /\ played \in Seq(SessionRow)
  BY DEF IInv, TypeInv, TypeOK, Working, Scoring
<1>2. Session(tx[r]) \in SessionRow
  BY <1>1, SessionType
<1>3. AskedBy(r) \in SUBSET Elements
  BY AskedType DEF IInv, Scoring
<1>4. \A e \in Elements \ AskedBy(r) : Session(tx[r]).outcome[e] = "absent"
  BY DEF AskedBy, Session, Outcome
<1>5. CountMasteredElements(Append(played, Session(tx[r])), Elements)
        = CountMasteredElements(played, Elements)
          + (CountMasteredElements(Append(played, Session(tx[r])), AskedBy(r))
               - CountMasteredElements(played, AskedBy(r)))
  BY <1>1, <1>2, <1>3, <1>4, CountMoves
<1> QED BY <1>5 DEF Saved, MasteredCountExact

LEMMA TurnKeepsMastered ==
  ASSUME IInv, TypeInv', MasteredInv, Alone, NEW r \in Requests, Turn(r)
  PROVE  MasteredInv'
<1>t. MasteredTx(r) /\ MasteredCountExact
  BY DEF MasteredInv
<1>1. CASE Commit(r)
  <2>1. pc[r] = "commit" /\ stats' = tx[r].stats /\ played' = Saved(r)
    BY <1>1 DEF Commit, At, Saved
  <2>2. MasteredCountExact'
    BY <1>t, <2>1 DEF MasteredTx, MasteredCountExact
  <2>3. pc'[r] = "idle"
    BY <1>1 DEF Commit, Finish, IInv, TypeInv, TypeOK
  <2> QED BY <2>2, <2>3 DEF MasteredInv, MasteredTx, Alone, Scoring
<1>2. CASE ~Commit(r)
  <2>u. UNCHANGED <<clock, played, weak, stats>>
    BY <1>2, TurnKeepsTables
  <2>m. MasteredCountExact'
    BY <1>t, <2>u DEF MasteredCountExact
  <2>1. CASE Arrives(r) \/ Ends(r)
    <3>1. pc'[r] \notin Scoring \cup {"consume"}
      BY <2>1 DEF Arrives, Ends, Scoring
    <3> QED BY <2>m, <3>1 DEF MasteredInv, MasteredTx, Alone, Scoring
  <2>2. CASE Carries(r) \/ Branches(r)
    <3>1. AskedBy(r)' = AskedBy(r) /\ Saved(r)' = Saved(r)
      BY <2>2, <2>u, SessionStays DEF Carries, Branches, db
    <3> SUFFICES MasteredTx(r)'
      BY <2>m DEF MasteredInv, Alone
    <3>2. CASE Counts(r)
      BY <2>u, <3>1, <3>2 DEF Counts, MasteredTx, Scoring
    <3>3. CASE Begins(r)
      BY <1>t, <2>u, <3>1, <3>3 DEF Begins, MasteredTx, Scoring
    <3>4. CASE Loops(r)
      BY <1>t, <2>u, <3>1, <3>4 DEF Loops, MasteredTx, Scoring
    <3>5. CASE Recounts(r)
      BY <1>t, <2>u, <3>1, <3>5 DEF Recounts, MasteredTx, Scoring
    <3>6. CASE CountsAll(r)
      BY <1>t, <2>u, <3>1, <3>6 DEF CountsAll, MasteredTx, Scoring
    <3>7. CASE Branches(r)
      BY <1>t, <2>u, <3>1, <3>7 DEF Branches, MasteredTx, Scoring
    <3>8. CASE Wrote(r)
      <4>1. pc[r] \in Scoring \ {"weak", "hit", "after"} /\ pc'[r] = "commit"
        BY <3>8 DEF Wrote, Scoring
      <4>2. /\ tx[r].before = CountMasteredElements(played, AskedBy(r))
            /\ tx[r].after = CountMasteredElements(Saved(r), AskedBy(r))
        BY <1>t, <4>1 DEF MasteredTx
      <4>3. tx'[r].stats.mastered = CountMasteredElements(Saved(r), Elements)
        <5>1. CASE pc[r] = "createStats" /\ stats = NoRow
          <6>1. tx[r].onCreate = CountMasteredElements(Saved(r), Elements)
            BY <1>t, <5>1 DEF MasteredTx
          <6>2. tx[r].onCreate \in Nat
            BY DEF IInv, TypeInv, TypeOK, TxRow
          <6> QED BY <3>8, <5>1, <6>1, <6>2 DEF Wrote, Counted, NewStats
        <5>2. CASE stats # NoRow
          BY <1>t, <3>8, <4>1, <4>2, <5>2, RowCounts DEF Wrote, Counted
        <5> QED BY <3>8, <5>1, <5>2 DEF Wrote
      <4>4. tx'[r].before = tx[r].before /\ tx'[r].after = tx[r].after
        BY <3>8 DEF Wrote
      <4> QED BY <2>u, <3>1, <4>1, <4>2, <4>3, <4>4 DEF MasteredTx, Scoring
    <3>9. CASE Arrives(r) \/ Ends(r)
      BY <2>1, <3>9 DEF MasteredInv
    <3> QED BY <1>2, <3>2, <3>3, <3>4, <3>5, <3>6, <3>7, <3>8, <3>9 DEF Turn
  <2>3. Arrives(r) \/ Ends(r) \/ Carries(r) \/ Branches(r)
    BY <1>2 DEF Turn, Counts, Begins, Loops, Recounts, CountsAll, Wrote, Keeps
  <2> QED BY <2>1, <2>2, <2>3
<1> QED BY <1>1, <1>2

LEMMA EnvironmentKeepsMastered ==
  ASSUME IInv, TotalsMatchHistory, MasteredInv, Environment
  PROVE  MasteredInv'
<1>1. UNCHANGED <<pc, tx, played>>
  BY DEF Environment, ResetWeeklyScores, CleanupQuestionSets, DeleteWeakElement,
         CreateStatsAtLogin, Tick, db
<1>2. ASSUME NEW r \in Requests PROVE MasteredTx(r)'
  <2>1. CASE pc[r] \in Scoring \cup {"consume"}
    <3>1. tx[r].set \in SetIds /\ Issued(tx[r].set)
      BY <2>1 DEF IInv, TypeInv, Working, Scoring
    <3>2. sets'[tx[r].set].questions = sets[tx[r].set].questions
      BY <3>1, QuestionsStay DEF Next
    <3>3. AskedBy(r)' = AskedBy(r) /\ Saved(r)' = Saved(r)
      BY <1>1, <3>2, SessionStays
    <3> QED BY <1>1, <3>3 DEF MasteredInv, MasteredTx
  <2>2. CASE pc[r] \notin Scoring \cup {"consume"}
    BY <1>1, <2>2 DEF MasteredTx, Scoring
  <2> QED BY <2>1, <2>2
<1>3. MasteredCountExact'
  <2>1. CASE CreateStatsAtLogin
    <3>1. stats = NoRow /\ stats'.mastered = 0
      BY <2>1 DEF CreateStatsAtLogin, NewStats
    <3>2. played = <<>>
      <4>1. Len(played) = 0 /\ played \in Seq(SessionRow)
        BY <3>1 DEF TotalsMatchHistory, CurrentStats, NewStats, IInv, TypeInv, TypeOK
      <4> QED BY <4>1, EmptySeq
    <3> QED BY <1>1, <3>1, <3>2, NoneMastered DEF MasteredCountExact
  <2>2. ASSUME NEW t, ResetWeeklyScores(t) PROVE MasteredCountExact'
    <3>1. stats \in StatsRow /\ stats' = [stats EXCEPT !.weekly = 0, !.week = WeekOf(t)]
      BY <2>2 DEF ResetWeeklyScores, IInv, TypeInv, TypeOK
    <3>2. stats # NoRow /\ stats'.mastered = stats.mastered
      BY <2>2, <3>1 DEF StatsRow, ResetWeeklyScores
    <3> QED BY <1>1, <3>2 DEF MasteredInv, MasteredCountExact
  <2>3. CASE UNCHANGED stats
    BY <1>1, <2>3 DEF MasteredInv, MasteredCountExact
  <2>4. CreateStatsAtLogin \/ (\E t : ResetWeeklyScores(t)) \/ UNCHANGED stats
    BY DEF Environment, CleanupQuestionSets, DeleteWeakElement, Tick, db
  <2> QED BY <2>1, <2>2, <2>3, <2>4
<1> QED BY <1>2, <1>3 DEF MasteredInv

LEMMA MasteredNext ==
  Alone /\ IInv /\ TotalsMatchHistory /\ MasteredInv /\ [Next]_vars => MasteredInv'
<1> SUFFICES ASSUME Alone, IInv, TotalsMatchHistory, MasteredInv, [Next]_vars PROVE MasteredInv'
  OBVIOUS
<1>1. ASSUME NEW r \in Requests, Arrival(r) \/ Statement(r) \/ Rollback(r) \/ DeadlockVictim(r)
      PROVE  MasteredInv'
  BY <1>1, TypeNext, TurnShape, TurnKeepsMastered DEF IInv
<1>2. Environment => MasteredInv'
  BY EnvironmentKeepsMastered
<1>3. UNCHANGED vars => MasteredInv'
  <2> SUFFICES ASSUME UNCHANGED vars PROVE MasteredInv'
    OBVIOUS
  <2>1. \A r \in Requests : MasteredTx(r)'
    <3> TAKE r \in Requests
    <3>1. AskedBy(r)' = AskedBy(r) /\ Saved(r)' = Saved(r)
      BY SessionStays DEF vars
    <3> QED BY <3>1 DEF MasteredInv, MasteredTx, vars
  <2> QED BY <2>1 DEF MasteredInv, MasteredCountExact, vars
<1> QED BY <1>1, <1>2, <1>3 DEF Next

----------------------------------------------------------------------------
(* The hits of a weak element when requests are served one at a time: the  *)
(* row counts the right sessions since the last wrong one.                 *)

HitRuns == \A e \in Elements : weak[e] # NoRow =>
  /\ weak[e].hit < MasteredConsecutiveHits
  /\ \E i \in SessionsOn(played, e) :
       /\ played[i].outcome[e] = "wrong"
       /\ Cardinality({j \in SessionsOn(played, e) : j > i}) = weak[e].hit

(* A written row of an element answered right is cleared or has one hit     *)
(* more than the committed one, which is still there.                       *)
Advances(row, old) ==
  /\ old # NoRow
  /\ row # NoRow => row.hit = old.hit + 1 /\ row.hit < MasteredConsecutiveHits

Fits(r) == \A e \in Elements : tx[r].weak[e] # Unwritten =>
  /\ e \in AskedBy(r)
  /\ MissesOn(r, e) = 0 => Advances(tx[r].weak[e], weak[e])

(* The row that was looked up is the committed one, unless it is deleted.   *)
Current(r) == pc[r] = "hit" => weak[Question(r)] \in {tx[r].seen, NoRow}

(* The loop writes the row of every weak element it has passed.             *)
Met(r) == pc[r] \in Scoring => \A i \in FirstAsked(Questions(r)) :
  MissesOn(r, Questions(r)[i]) = 0 /\ weak[Questions(r)[i]] # NoRow
    /\ (pc[r] \in {"weak", "hit"} => i < tx[r].at)
      => tx[r].weak[Questions(r)[i]] # Unwritten

HitsTx(r) == Fits(r) /\ Current(r) /\ Met(r)

HitsInv == HitRuns /\ \A r \in Requests : HitsTx(r)

LEMMA HitsInit == Init => HitsInv
BY DEF Init, HitsInv, HitRuns, HitsTx, Fits, Current, Met, BlankTx, Scoring

(* One turn of the loop. *)
LEMMA HitsTurn ==
  ASSUME IInv, NEW r \in Requests, Fits(r), Met(r), UNCHANGED <<clock, db>>,
         pc[r] \in {"weak", "hit"}, NEW t \in TxRow, NextElement(r, t),
         t.set = tx[r].set, t.marks = tx[r].marks, t.at = tx[r].at,
         \A e \in Elements \ {Question(r)} : t.weak[e] = tx[r].weak[e],
         MissesOn(r, Question(r)) = 0 /\ weak[Question(r)] # NoRow =>
           t.weak[Question(r)] # Unwritten,
         MissesOn(r, Question(r)) = 0 /\ t.weak[Question(r)] # tx[r].weak[Question(r)] =>
           Advances(t.weak[Question(r)], weak[Question(r)])
  PROVE  HitsTx(r)'
<1>t. tx[r] \in TxRow /\ TypeInv /\ Question(r) \in Elements
  BY AskedType DEF IInv, TypeInv, TypeOK
<1>1. /\ pc'[r] \in {"weak", "after"}
      /\ tx'[r].weak = t.weak /\ tx'[r].set = t.set /\ tx'[r].marks = t.marks
      /\ \A j \in FirstAsked(Questions(r)) :
           (pc'[r] = "weak" => j < tx'[r].at) => j < t.at \/ j = t.at
  BY <1>t, NextElementMoves
<1>2. /\ Questions(r)' = Questions(r) /\ \A e : MissesOn(r, e)' = MissesOn(r, e)
      /\ AskedBy(r)' = AskedBy(r) /\ weak' = weak
  BY <1>1 DEF Questions, AskedBy, Asked, MissesOn, Incorrect, db
<1>3. Fits(r)'
  <2>1. Question(r) \in AskedBy(r)
    BY <1>t DEF Question, AskedBy, Asked, TxRow
  <2> QED BY <1>1, <1>2, <2>1 DEF Fits
<1>4. Met(r)'
  <2> SUFFICES ASSUME NEW j \in FirstAsked(Questions(r)), MissesOn(r, Questions(r)[j]) = 0,
                      weak[Questions(r)[j]] # NoRow, pc'[r] = "weak" => j < tx'[r].at
               PROVE  t.weak[Questions(r)[j]] # Unwritten
    BY <1>1, <1>2 DEF Met
  <2>1. Questions(r)[j] \in Elements
    BY AskedType DEF IInv, Questions, SetRow, FirstAsked
  <2>2. CASE j < tx[r].at
    <3>1. tx[r].weak[Questions(r)[j]] # Unwritten
      BY <2>2 DEF Met, Scoring
    <3> QED BY <2>1, <3>1
  <2>3. CASE j = tx[r].at
    BY <2>3 DEF Question, Questions
  <2> QED BY <1>1, <2>2, <2>3
<1> QED BY <1>1, <1>3, <1>4 DEF HitsTx, Current

LEMMA LoopKeepsHits ==
  ASSUME IInv, NEW r \in Requests, HitsTx(r),
         UpsertMissedElement(r) \/ FindWeakElement(r) \/ HitWeakElement(r), ~Finish(r)
  PROVE  HitsTx(r)'
<1> USE DEF At
<1> DEFINE e == Question(r)
           n == MissesOn(r, e)
<1>t. /\ pc \in [Requests -> Labels] /\ tx \in [Requests -> TxRow] /\ tx[r] \in TxRow
      /\ TypeInv /\ Working(r) /\ pc[r] \in {"weak", "hit"} /\ UNCHANGED <<clock, db>>
  BY DEF IInv, TypeInv, TypeOK, UpsertMissedElement, FindWeakElement, HitWeakElement
<1>e. e \in Elements /\ n \in Nat /\ tx[r].set \in SetIds
      /\ weak[e] \in WeakRow \cup {NoRow}
  BY <1>t, AskedType DEF TypeInv, TypeOK, Working
<1>v. ASSUME NEW v \in WeakRow \cup {NoRow}, NextElement(r, [tx[r] EXCEPT !.weak[e] = v]),
             n = 0 => Advances(v, weak[e])
      PROVE  HitsTx(r)'
  <2> DEFINE t == [tx[r] EXCEPT !.weak[e] = v]
  <2>1. /\ t \in TxRow /\ t.set = tx[r].set /\ t.marks = tx[r].marks /\ t.at = tx[r].at
        /\ t.weak[e] = v /\ \A d \in Elements \ {e} : t.weak[d] = tx[r].weak[d]
    BY <1>t, <1>e DEF TxRow
  <2>2. v # Unwritten
    BY MarkerAssumption
  <2> HIDE DEF t
  <2>3. NextElement(r, t)
    BY <1>v DEF t
  <2> HIDE DEF e, n
  <2> QED BY <1>t, <1>v, <2>1, <2>2, <2>3, HitsTurn DEF e, n, HitsTx
<1>1. CASE UpsertMissedElement(r)
  <2>1. PICK v : NextElement(r, [tx[r] EXCEPT !.weak[e] = v])
                 /\ v = IF weak[e] = NoRow
                          THEN [id |-> tx[r].set, miss |-> n, hit |-> 0]
                          ELSE [id |-> weak[e].id, miss |-> weak[e].miss + n, hit |-> 0]
    BY <1>1 DEF UpsertMissedElement
  <2>2. v \in WeakRow
    BY <1>e, <2>1 DEF WeakRow
  <2>3. n # 0
    BY <1>1 DEF UpsertMissedElement
  <2> QED BY <1>v, <2>1, <2>2, <2>3
<1>2. CASE FindWeakElement(r)
  <2>1. CASE weak[e] = NoRow
    <3>1. NextElement(r, tx[r]) /\ n = 0
      BY <1>2, <2>1 DEF FindWeakElement
    <3> HIDE DEF e, n
    <3> QED BY <1>t, <2>1, <3>1, HitsTurn DEF e, n, HitsTx
  <2>2. CASE weak[e] # NoRow
    <3>1. /\ pc[r] = "weak" /\ pc'[r] = "hit"
          /\ tx' = [tx EXCEPT ![r].seen = weak[e]]
      BY <1>2, <1>t, <2>2 DEF FindWeakElement, Goto
    <3>2. /\ tx'[r].at = tx[r].at /\ tx'[r].weak = tx[r].weak /\ tx'[r].set = tx[r].set
          /\ tx'[r].marks = tx[r].marks /\ tx'[r].seen = weak[e]
      BY <1>t, <3>1 DEF TxRow
    <3>3. /\ Questions(r)' = Questions(r) /\ Question(r)' = Question(r) /\ weak' = weak
          /\ AskedBy(r)' = AskedBy(r) /\ \A d : MissesOn(r, d)' = MissesOn(r, d)
      BY <1>t, <3>2 DEF Questions, Question, AskedBy, Asked, MissesOn, Incorrect, db
    <3> QED BY <3>1, <3>2, <3>3 DEF HitsTx, Fits, Current, Met, Scoring
  <2> QED BY <2>1, <2>2
<1>3. CASE HitWeakElement(r)
  <2>1. weak[e] # NoRow
    BY <1>3 DEF HitWeakElement
  <2>2. PICK v : NextElement(r, [tx[r] EXCEPT !.weak[e] = v])
                 /\ v = IF tx[r].seen.hit + 1 >= MasteredConsecutiveHits THEN NoRow
                        ELSE [weak[e] EXCEPT !.hit = weak[e].hit + 1]
    BY <1>3 DEF HitWeakElement
  <2>3. weak[e] \in WeakRow /\ weak[e] = tx[r].seen
    BY <1>3, <1>e, <2>1 DEF HitWeakElement, HitsTx, Current
  <2>4. v \in WeakRow \cup {NoRow} /\ Advances(v, weak[e])
    BY <2>1, <2>2, <2>3 DEF WeakRow, Advances, MasteredConsecutiveHits
  <2> QED BY <1>v, <2>2, <2>4
<1> QED BY <1>1, <1>2, <1>3

LEMMA TurnKeepsHits ==
  ASSUME IInv, WeakInv, HitsInv, Alone, NEW r \in Requests, ~Commit(r),
         Arrival(r) \/ Statement(r) \/ Rollback(r) \/ DeadlockVictim(r)
  PROVE  HitsInv'
<1>t. TypeInv /\ Turn(r)
  BY TurnShape DEF IInv
<1>u. UNCHANGED <<clock, played, weak, stats>>
  BY <1>t, TurnKeepsTables
<1>w. /\ HitsTx(r) /\ WeakTx(r)
      /\ pc[r] \notin Scoring => tx[r].at = 1 /\ \A e \in Elements : tx[r].weak[e] = Unwritten
  BY DEF HitsInv, WeakInv, WeakTx, Unstarted
<1>s. SUFFICES HitsTx(r)'
  BY <1>u DEF HitsInv, HitRuns, Alone
<1>1. ASSUME \A e \in Elements : tx'[r].weak[e] = Unwritten,
             pc'[r] \notin Scoring \/ (pc'[r] = "weak" /\ tx'[r].at = 1)
      PROVE  HitsTx(r)'
  <2>1. pc'[r] = "weak" => \A i \in Indexes : ~(i < tx'[r].at)
    BY <1>1, GameAssumption DEF Indexes, Scoring
  <2>2. Fits(r)'
    BY <1>1 DEF Fits
  <2>4. Current(r)'
    BY <1>1 DEF Current, Scoring
  <2>3. Met(r)'
    <3>1. CASE pc'[r] \notin Scoring
      BY <3>1 DEF Met
    <3>2. CASE pc'[r] = "weak"
      <4>1. \A i \in FirstAsked(Questions(r)') : ~(i < tx'[r].at)
        BY <2>1, <3>2 DEF FirstAsked
      <4> QED BY <3>2, <4>1 DEF Met
    <3> QED BY <1>1, <3>1, <3>2
  <2> QED BY <2>2, <2>3, <2>4 DEF HitsTx
<1>2. CASE Ends(r)
  BY <1>1, <1>2 DEF Ends, BlankTx, Scoring
<1>3. CASE Arrives(r)
  BY <1>1, <1>3, <1>w DEF Arrives, Scoring
<1>4. CASE Counts(r) \/ Begins(r)
  BY <1>1, <1>4, <1>w DEF Counts, Begins, Keeps, Scoring
<1>5. CASE Loops(r)
  <2>1. pc[r] \in {"weak", "hit"} /\ ~Finish(r)
    BY <1>5 DEF Loops, Finish, IInv, TypeInv, TypeOK
  <2>2. Statement(r)
    BY <2>1 DEF Arrival, ReadCandidates, StartSubmit, Rollback, DeadlockVictim, At
  <2> QED BY <1>w, <2>1, <2>2, LoopStatements, LoopKeepsHits
<1>6. CASE Recounts(r) \/ CountsAll(r) \/ Branches(r) \/ Wrote(r)
  <2>1. /\ pc[r] \in Scoring \ {"weak", "hit"} /\ pc'[r] \in Scoring \ {"weak", "hit"}
        /\ UNCHANGED <<sets, weak>> /\ tx'[r].set = tx[r].set /\ tx'[r].marks = tx[r].marks
        /\ tx'[r].weak = tx[r].weak
    BY <1>6 DEF Recounts, CountsAll, Branches, Wrote, Keeps, Carries, db, Scoring
  <2>2. /\ Questions(r)' = Questions(r) /\ AskedBy(r)' = AskedBy(r)
        /\ \A d : MissesOn(r, d)' = MissesOn(r, d)
    BY <2>1 DEF Questions, AskedBy, Asked, MissesOn, Incorrect
  <2> QED BY <1>w, <2>1, <2>2 DEF HitsTx, Fits, Current, Met, Scoring
<1> QED BY <1>t, <1>2, <1>3, <1>4, <1>5, <1>6 DEF Turn

LEMMA EnvironmentKeepsHits ==
  ASSUME IInv, WeakInv, HitsInv, Environment
  PROVE  HitsInv'
<1>t. weak \in [Elements -> WeakRow \cup {NoRow}]
  BY DEF IInv, TypeInv, TypeOK
<1>1. /\ UNCHANGED <<pc, tx, played>>
      /\ \A e \in Elements : weak'[e] = weak[e] \/ weak'[e] = NoRow
      /\ \A e \in Elements, r \in Requests : tx[r].weak[e] # Unwritten => weak'[e] = weak[e]
  BY <1>t DEF Environment, ResetWeeklyScores, CleanupQuestionSets, DeleteWeakElement,
         CreateStatsAtLogin, Tick, db
<1>2. HitRuns'
  BY <1>1 DEF HitsInv, HitRuns, SessionsOn
<1>3. ASSUME NEW r \in Requests PROVE HitsTx(r)'
  <2>1. CASE pc[r] \in Scoring
    <3>1. tx[r].set \in SetIds /\ Issued(tx[r].set)
      BY <2>1 DEF IInv, TypeInv, Working, Scoring
    <3>2. Questions(r)' = Questions(r)
      BY <1>1, <3>1, QuestionsStay DEF Next, Questions
    <3>3. /\ Question(r)' = Question(r) /\ AskedBy(r)' = AskedBy(r)
          /\ \A d : MissesOn(r, d)' = MissesOn(r, d)
      BY <1>1, <3>2 DEF Questions, Question, AskedBy, Asked, MissesOn, Incorrect
    <3>4. Question(r) \in Elements /\ \A i \in FirstAsked(Questions(r)) : Questions(r)[i] \in Elements
      BY <2>1, AskedType DEF IInv, SetRow, Questions, FirstAsked, Scoring
    <3> QED BY <1>1, <3>2, <3>3, <3>4 DEF HitsInv, HitsTx, Fits, Current, Met
  <2>2. CASE pc[r] \notin Scoring
    BY <1>1, <2>2 DEF WeakInv, WeakTx, Unstarted, HitsTx, Fits, Current, Met, Scoring
  <2> QED BY <2>1, <2>2
<1> QED BY <1>2, <1>3 DEF HitsInv

LEMMA CommitKeepsHits ==
  ASSUME IInv, WeakInv, HitsInv, Alone, NEW r \in Requests, Commit(r)
  PROVE  HitsInv'
<1> DEFINE n == Len(played)
           row == Session(tx[r])
<1>t. /\ pc[r] = "commit" /\ pc[r] \in Scoring /\ WeakTx(r) /\ HitsTx(r)
      /\ weak' = [e \in Elements |-> IF tx[r].weak[e] = Unwritten THEN weak[e] ELSE tx[r].weak[e]]
  BY DEF Commit, At, Scoring, WeakInv, HitsInv
<1>p. /\ n \in Nat /\ DOMAIN played = 1 .. n /\ DOMAIN played' = 1 .. (n + 1)
      /\ \A i \in 1 .. n : played'[i] = played[i]
      /\ played'[n + 1] = row
  BY SavedSession
<1>o. ASSUME NEW e \in Elements
      PROVE  row.outcome[e] = IF e \notin AskedBy(r) THEN "absent"
                              ELSE IF MissesOn(r, e) = 0 THEN "right" ELSE "wrong"
  BY DEF Session, Outcome, AskedBy, MissesOn
<1> HIDE DEF n, row
<1>i. pc'[r] = "idle" /\ tx'[r] = BlankTx
  BY DEF Commit, Finish, IInv, TypeInv, TypeOK
<1>1. HitsTx(r)'
  BY <1>i DEF HitsTx, Fits, Current, Met, BlankTx, Scoring
<1>2. ASSUME NEW e \in Elements, weak'[e] # NoRow
      PROVE  /\ weak'[e].hit < MasteredConsecutiveHits
             /\ \E i \in SessionsOn(played', e) :
                  /\ played'[i].outcome[e] = "wrong"
                  /\ Cardinality({j \in SessionsOn(played', e) : j > i}) = weak'[e].hit
  <2> DEFINE H == SessionsOn(played, e)
             H1 == SessionsOn(played', e)
  <2>h. /\ H \subseteq 1 .. n
        /\ H1 = IF e \in AskedBy(r) THEN H \cup {n + 1} ELSE H
    <3>1. 1 .. (n + 1) = (1 .. n) \cup {n + 1}
      BY <1>p
    <3> QED BY <1>p, <1>o, <3>1 DEF SessionsOn
  <2>n. MissesOn(r, e) \in Nat
    BY CountType DEF MissesOn
  <2> HIDE DEF H, H1
  <2>1. CASE MissesOn(r, e) > 0
    <3>1. e \in AskedBy(r)
      BY <2>1, MissedIsAsked DEF FirstAsked, Questions, AskedBy, Asked
    <3>2. weak'[e].hit = 0
      BY <1>t, <2>1, <2>n, CommitWeak DEF Adds
    <3>3. n + 1 \in H1 /\ played'[n + 1].outcome[e] = "wrong"
      BY <1>p, <1>o, <2>1, <2>h, <3>1
    <3>4. {j \in H1 : j > n + 1} = {}
      <4>1. \A j \in H1 : j \in 1 .. n \/ j = n + 1
        BY <2>h
      <4> QED BY <1>p, <4>1
    <3> QED BY <3>2, <3>3, <3>4, FS_EmptySet DEF H1, MasteredConsecutiveHits
  <2>2. ASSUME weak[e] # NoRow
        PROVE  \E i \in H : /\ played[i].outcome[e] = "wrong" /\ played'[i].outcome[e] = "wrong"
                            /\ Cardinality({j \in H : j > i}) = weak[e].hit
    BY <1>p, <2>2, <2>h DEF HitsInv, HitRuns, H
  <2>3. CASE MissesOn(r, e) = 0 /\ e \notin AskedBy(r)
    <3>1. weak'[e] = weak[e] /\ H1 = H
      BY <1>t, <2>h, <2>3 DEF HitsTx, Fits
    <3> QED BY <1>2, <2>2, <3>1 DEF HitsInv, HitRuns, H1
  <2>4. CASE MissesOn(r, e) = 0 /\ e \in AskedBy(r)
    <3>1. weak[e] # NoRow => tx[r].weak[e] # Unwritten
      <4>1. PICK i \in Indexes : Questions(r)[i] = e
        BY <2>4 DEF AskedBy, Asked, Questions
      <4>2. PICK j \in FirstAsked(Questions(r)) : Questions(r)[j] = e
        BY <4>1, AskedFirst
      <4> QED BY <1>t, <2>4, <4>2 DEF HitsTx, Met
    <3>2. Advances(weak'[e], weak[e])
      BY <1>2, <1>t, <2>4, <3>1 DEF HitsTx, Fits
    <3>3. weak[e] # NoRow /\ weak'[e].hit = weak[e].hit + 1 /\ weak'[e].hit < MasteredConsecutiveHits
      BY <1>2, <3>2 DEF Advances
    <3>4. PICK i \in H : /\ played'[i].outcome[e] = "wrong"
                         /\ Cardinality({j \in H : j > i}) = weak[e].hit
      BY <2>2, <3>3
    <3>5. {j \in H1 : j > i} = {j \in H : j > i} \cup {n + 1} /\ n + 1 \notin {j \in H : j > i}
      BY <1>p, <2>4, <2>h
    <3>6. IsFiniteSet({j \in H : j > i})
      <4>1. IsFiniteSet(1 .. n)
        BY <1>p, FS_Interval
      <4>2. {j \in H : j > i} \subseteq 1 .. n
        BY <2>h
      <4> QED BY <4>1, <4>2, FS_Subset
    <3>7. Cardinality({j \in H1 : j > i}) = Cardinality({j \in H : j > i}) + 1
      BY <3>5, <3>6, FS_AddElement
    <3>8. i \in H1
      BY <2>4, <2>h
    <3> QED BY <3>3, <3>4, <3>7, <3>8 DEF H1
  <2>5. MissesOn(r, e) > 0 \/ MissesOn(r, e) = 0
    BY <2>n
  <2> QED BY <2>1, <2>3, <2>4, <2>5
<1>3. HitRuns'
  BY <1>2 DEF HitRuns
<1> QED BY <1>1, <1>3 DEF HitsInv, Alone

LEMMA HitsNext == Alone /\ IInv /\ WeakInv /\ HitsInv /\ [Next]_vars => HitsInv'
<1> SUFFICES ASSUME Alone, IInv, WeakInv, HitsInv, [Next]_vars PROVE HitsInv'
  OBVIOUS
<1>1. ASSUME NEW r \in Requests, Arrival(r) \/ Statement(r) \/ Rollback(r) \/ DeadlockVictim(r)
      PROVE  HitsInv'
  BY <1>1, TurnKeepsHits, CommitKeepsHits
<1>2. Environment => HitsInv'
  BY EnvironmentKeepsHits
<1>3. UNCHANGED vars => HitsInv'
  <2> SUFFICES ASSUME UNCHANGED vars PROVE HitsInv'
    OBVIOUS
  <2>1. ASSUME NEW r \in Requests PROVE HitsTx(r)'
    <3>1. /\ Questions(r)' = Questions(r) /\ Question(r)' = Question(r)
          /\ AskedBy(r)' = AskedBy(r) /\ \A d : MissesOn(r, d)' = MissesOn(r, d)
      BY DEF vars, Questions, Question, AskedBy, Asked, MissesOn, Incorrect
    <3> QED BY <3>1 DEF vars, HitsInv, HitsTx, Fits, Current, Met
  <2> QED BY <2>1 DEF vars, HitsInv, HitRuns, SessionsOn
<1> QED BY <1>1, <1>2, <1>3 DEF Next

(* An element whose latest two sessions were right has had its row cleared. *)
LEMMA MasteredMeans ==
  ASSUME IInv, Timely, HitRuns
  PROVE  MasteredNotWeak
<1> SUFFICES ASSUME NEW e \in Elements, Mastered(played, e), weak[e] # NoRow PROVE FALSE
  BY DEF MasteredNotWeak
<1>1. PICK i \in SessionsOn(played, e) :
        /\ played[i].outcome[e] = "wrong"
        /\ Cardinality({j \in SessionsOn(played, e) : j > i}) < MasteredConsecutiveHits
  BY DEF HitRuns
<1>2. /\ SessionsOn(played, e) \subseteq DOMAIN played /\ DOMAIN played \subseteq Nat
      /\ \A j \in DOMAIN played : played[j].playedAt \in Nat
  <2>1. played \in Seq(SessionRow)
    BY DEF IInv, TypeInv, TypeOK
  <2>2. DOMAIN played = 1 .. Len(played) /\ Len(played) \in Nat
    BY <2>1, LenProperties
  <2>3. \A j \in 1 .. Len(played) : played[j] \in SessionRow
    BY <2>1, ElementOfSeq
  <2> QED BY <2>2, <2>3 DEF SessionsOn, SessionRow
<1>3. \A j \in SessionsOn(played, e) : Newer(played, j, i) <=> j > i
  BY <1>2 DEF Timely, Chronicle, Newer
<1>4. {j \in SessionsOn(played, e) : Newer(played, j, i)}
        = {j \in SessionsOn(played, e) : j > i}
  BY <1>3
<1>5. i \in LatestTwo(played, e)
  BY <1>1, <1>4 DEF LatestTwo, MasteredConsecutiveHits
<1> QED BY <1>1, <1>5 DEF Mastered

----------------------------------------------------------------------------
(* What a user who sends one request at a time is shown. *)

(* The weekly score shown is the sum of the sessions saved in the current   *)
(* week, however a submission, the reset job on its scheduled week, a login *)
(* and the turn of the week follow each other                               *)
(* (updateExistingUserStatsForSession, resetWeeklyScores).                  *)
THEOREM WeeklyIsHistory ==
  ASSUME Alone, JobLag = 0
  PROVE  Spec => []WeeklyMatchesHistory
<1>1. WeeklyInv => WeeklyMatchesHistory
  BY DEF WeeklyInv
<1>2. IInv /\ Timely /\ [Next]_vars => Timely'
  BY TimelyNext
<1>3. IInv /\ Timely /\ WeeklyInv /\ [Next]_vars => WeeklyInv'
  BY WeeklyNext
<1> QED BY <1>1, <1>2, <1>3, TimelyInit, WeeklyInit, Invariance, PTL DEF Spec

(* masteredCount is the number of mastered elements, although it is moved   *)
(* by the difference of two counts or written by the row that creates it.   *)
THEOREM MasteredIsExact ==
  ASSUME Alone
  PROVE  Spec => []MasteredCountExact
<1>1. MasteredInv => MasteredCountExact
  BY DEF MasteredInv
<1>2. IInv /\ TotalsMatchHistory /\ MasteredInv /\ [Next]_vars => MasteredInv'
  BY MasteredNext
<1> QED BY <1>1, <1>2, MasteredInit, TotalsAreSums, Invariance, PTL DEF Spec

(* No row of the weak list is left with two hits in a row.                  *)
THEOREM TwoHitsAreCleared ==
  ASSUME Alone
  PROVE  Spec => []TwoHitsClear
<1>1. HitsInv => TwoHitsClear
  BY DEF HitsInv, HitRuns, TwoHitsClear
<1>2. IInv /\ WeakInv /\ HitsInv /\ [Next]_vars => HitsInv'
  BY HitsNext
<1> QED BY <1>1, <1>2, HitsInit, WeakInit, WeakNext, Invariance, PTL DEF Spec

(* No mastered element is on the weak list.                                 *)
THEOREM MasteredLeavesList ==
  ASSUME Alone
  PROVE  Spec => []MasteredNotWeak
<1>1. IInv /\ Timely /\ HitsInv => MasteredNotWeak
  BY MasteredMeans DEF HitsInv
<1>2. IInv /\ Timely /\ [Next]_vars => Timely'
  BY TimelyNext
<1>3. IInv /\ WeakInv /\ HitsInv /\ [Next]_vars => HitsInv'
  BY HitsNext
<1> QED BY <1>1, <1>2, <1>3, HitsInit, TimelyInit, WeakInit, WeakNext, Invariance, PTL DEF Spec
=============================================================================
