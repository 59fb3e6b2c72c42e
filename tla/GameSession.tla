---------------------------- MODULE GameSession ----------------------------
(***************************************************************************)
(* The game service of one user: question sets are issued, answered once   *)
(* and scored into the user's history, weak list and statistics.           *)
(*                                                                         *)
(* submitGameSession is one interactive PostgreSQL transaction at READ     *)
(* COMMITTED: every statement is a step of its own that sees what is       *)
(* committed when it runs (plus the transaction's own writes), and a row   *)
(* written by a transaction stays locked until that transaction ends.      *)
(* Several requests of the user may be in flight, next to the weekly       *)
(* reset job, the cleanup job, a login and a manual weak-list deletion.    *)
(***************************************************************************)
EXTENDS Integers, Sequences, FiniteSets

CONSTANTS
  SetIds,         \* ids a question set may get
  Elements,       \* chemical elements
  Requests,       \* requests of the user served at the same time
  QuestionCount,  \* questions of a set (GAME_QUESTION_COUNT)
  MinWeak,        \* weak elements a weak game needs (MIN_WEAK_ELEMENTS_FOR_GAME)
  ExpirySpan,     \* life of a question set (QUESTION_SET_EXPIRES_MS)
  WeekLength,     \* length of a ranking week
  JobLag,         \* how far a job's statement may trail its scheduledTime
  MaxClock,       \* bound on the clock
  NoRow,          \* a row that does not exist
  Unwritten       \* a row the transaction has not written

ASSUME GameAssumption ==
  /\ QuestionCount \in Nat \ {0} /\ MinWeak \in Nat /\ ExpirySpan \in Nat
  /\ WeekLength \in Nat \ {0} /\ JobLag \in Nat /\ MaxClock \in Nat
  /\ IsFiniteSet(Elements) /\ IsFiniteSet(SetIds)

Modes == {"normal", "weak"}
Indexes == 1 .. QuestionCount
Marks == [Indexes -> BOOLEAN]
BaseCorrectScore == 100
MasteredConsecutiveHits == 2
NullWeek == -1

VARIABLES
  clock,    \* the time new Date() returns
  sets,     \* GameQuestionSet by id, with the ids not used yet
  played,   \* GameSession and its answers, in commit order
  weak,     \* WeakElement by element
  stats,    \* the UserStats row
  pc,       \* the statement a request is about to run
  tx        \* what a request has read and written so far

vars == <<clock, sets, played, weak, stats, pc, tx>>
db == <<sets, played, weak, stats>>

----------------------------------------------------------------------------
(* Rows and the working memory of a request. *)

NoQuestions == [status |-> "unissued", mode |-> "normal",
                questions |-> <<>>, expiresAt |-> 0]

NewStats == [games |-> 0, correct |-> 0, answered |-> 0, mastered |-> 0,
             weekly |-> 0, week |-> NullWeek, allTime |-> 0]

BlankTx == [now |-> 0, set |-> NoRow, mode |-> "normal", candidates |-> {},
            marks |-> [i \in Indexes |-> FALSE], at |-> 1, seen |-> NoRow,
            before |-> 0, after |-> 0, onCreate |-> 0, consumed |-> FALSE,
            weak |-> [e \in Elements |-> Unwritten],
            stats |-> Unwritten]

CurrentStats == IF stats = NoRow THEN NewStats ELSE stats

WeekOf(t) == t \div WeekLength

Issued(s) == sets[s].status # "unissued"

----------------------------------------------------------------------------
(* Scoring of a set of questions. *)

(* buildQuestionElements draws without replacement and, when the candidates *)
(* run out, starts again from the first one drawn.                          *)
Draws(C) ==
  LET n == IF Cardinality(C) < QuestionCount THEN Cardinality(C) ELSE QuestionCount
  IN {q \in [Indexes -> C] :
        /\ \A i, j \in 1 .. n : i # j => q[i] # q[j]
        /\ \A i \in Indexes : q[i] = q[((i - 1) % n) + 1]}

Asked(q) == {q[i] : i \in Indexes}
Incorrect(q, marks, e) == Cardinality({i \in Indexes : q[i] = e /\ ~marks[i]})
CorrectCount(marks) == Cardinality({i \in Indexes : marks[i]})
Score(marks) == BaseCorrectScore * CorrectCount(marks)

(* summarizeResultsByElement: an element counts once per session, as right  *)
(* only if every question on it was answered right.                         *)
Outcome(q, marks) ==
  [e \in Elements |-> IF e \notin Asked(q) THEN "absent"
                      ELSE IF Incorrect(q, marks, e) = 0 THEN "right" ELSE "wrong"]

FirstAsked(q) == {i \in Indexes : \A j \in 1 .. (i - 1) : q[j] # q[i]}

Session(t) ==
  LET q == sets[t.set].questions
  IN [set |-> t.set, mode |-> t.mode, playedAt |-> t.now,
      correct |-> CorrectCount(t.marks), score |-> Score(t.marks),
      missed |-> [e \in Elements |-> Incorrect(q, t.marks, e)],
      outcome |-> Outcome(q, t.marks)]

----------------------------------------------------------------------------
(* Mastery: the latest two sessions that asked the element, by playedAt and *)
(* then id (a cuid grows with creation), were both right.                   *)

SessionsOn(h, e) == {i \in DOMAIN h : h[i].outcome[e] # "absent"}

Newer(h, i, j) ==
  h[i].playedAt > h[j].playedAt \/ (h[i].playedAt = h[j].playedAt /\ i > j)

(* Mutant: one right session is enough. *)
LatestOne(h, e) ==
  {i \in SessionsOn(h, e) : \A j \in SessionsOn(h, e) : ~Newer(h, j, i)}

LatestTwo(h, e) ==
  {i \in SessionsOn(h, e) : Cardinality({j \in SessionsOn(h, e) : Newer(h, j, i)}) < 2}

Mastered(h, e) ==
  /\ Cardinality(SessionsOn(h, e)) >= 2
  /\ \A i \in LatestTwo(h, e) : h[i].outcome[e] = "right"

CountMasteredElements(h, E) == Cardinality({e \in E : Mastered(h, e)})

----------------------------------------------------------------------------
(* Row locks. A request waits for another one when its next statement       *)
(* writes a row the other one has written and not committed.                *)

Question(r) == sets[tx[r].set].questions[tx[r].at]
AskedBy(r) == Asked(sets[tx[r].set].questions)
MissesOn(r, e) == Incorrect(sets[tx[r].set].questions, tx[r].marks, e)

StatsWrite(r) ==
  \/ pc[r] = "createStats" /\ stats = NoRow
  \/ pc[r] = "replaceWeek" /\ stats.week # WeekOf(tx[r].now)
  \/ pc[r] = "increment"

WaitsFor(r, q) ==
  \/ pc[r] = "consume" /\ tx[q].consumed /\ tx[q].set = tx[r].set
  \/ /\ \/ pc[r] = "weak" /\ MissesOn(r, Question(r)) > 0
        \/ pc[r] = "hit" /\ weak[Question(r)] # NoRow /\ weak[Question(r)].id = tx[r].seen.id
     /\ tx[q].weak[Question(r)] # Unwritten
  \/ StatsWrite(r) /\ tx[q].stats # Unwritten

Unblocked(r) == \A q \in Requests \ {r} : ~WaitsFor(r, q)

(* PostgreSQL's deadlock detector acts on a cycle of waits. *)
Deadlocked(r) ==
  \E S \in SUBSET Requests :
    /\ r \in S
    /\ \A p \in S : /\ \E q \in S \ {p} : WaitsFor(p, q)
                    /\ \E q \in S \ {p} : WaitsFor(q, p)

----------------------------------------------------------------------------
At(r, label) == pc[r] = label
Goto(r, label) == pc' = [pc EXCEPT ![r] = label]
Finish(r) == /\ pc' = [pc EXCEPT ![r] = "idle"]
             /\ tx' = [tx EXCEPT ![r] = BlankTx]

(* Bound: a question request starts only while an id is left for it. *)
IdLeft == Cardinality({s \in SetIds : ~Issued(s)})
            > Cardinality({q \in Requests : At(q, "issue")})

(* createGameQuestionSet reads the candidates ... *)
ReadCandidates(r, m) ==
  LET C == IF m = "weak" THEN {e \in Elements : weak[e] # NoRow} ELSE Elements
  IN /\ At(r, "idle") /\ IdLeft
     /\ m = "weak" => Cardinality(C) >= MinWeak
     /\ C # {}
     /\ Goto(r, "issue")
     /\ tx' = [tx EXCEPT ![r].now = clock, ![r].mode = m, ![r].candidates = C]
     /\ UNCHANGED <<clock, db>>

(* ... and then stores the questions drawn from them. *)
IssueQuestionSet(r, s, q) ==
  /\ At(r, "issue")
  /\ ~Issued(s)
  /\ q \in Draws(tx[r].candidates)
  /\ sets' = [sets EXCEPT ![s] = [status |-> "open", mode |-> tx[r].mode, questions |-> q,
                                  expiresAt |-> tx[r].now + ExpirySpan]]
  /\ Finish(r)
  /\ UNCHANGED <<clock, played, weak, stats>>

(* submitGameSession: now is fixed when the call starts. *)
StartSubmit(r, s, m, marks) ==
  /\ At(r, "idle")
  /\ Issued(s)
  /\ Goto(r, "read")
  /\ tx' = [tx EXCEPT ![r].now = clock, ![r].set = s, ![r].mode = m, ![r].marks = marks]
  /\ UNCHANGED <<clock, db>>

Acceptable(r) ==
  LET s == sets[tx[r].set]
  IN s.status = "open" /\ s.mode = tx[r].mode /\ s.expiresAt > tx[r].now

ReadQuestionSet(r) ==
  /\ At(r, "read")
  /\ IF Acceptable(r) THEN Goto(r, "before") /\ UNCHANGED tx ELSE Finish(r)
  /\ UNCHANGED <<clock, db>>

CountMasteredBefore(r) ==
  /\ At(r, "before")
  /\ Goto(r, "consume")
  /\ tx' = [tx EXCEPT ![r].before = CountMasteredElements(played, AskedBy(r))]
  /\ UNCHANGED <<clock, db>>

(* Mutant: the count deleteMany returns is not looked at. *)
ConsumeUnchecked(r) ==
  /\ At(r, "consume")
  /\ Unblocked(r)
  /\ Goto(r, "weak") /\ tx' = [tx EXCEPT ![r].consumed = TRUE]
  /\ UNCHANGED <<clock, db>>

(* deleteMany takes the right to score the set: count # 1 is a 409. The     *)
(* session and its answers are inserted next, unseen by others till commit. *)
ConsumeQuestionSet(r) ==
  /\ At(r, "consume")
  /\ Unblocked(r)
  /\ IF sets[tx[r].set].status = "open"
       THEN Goto(r, "weak") /\ tx' = [tx EXCEPT ![r].consumed = TRUE]
       ELSE Finish(r)
  /\ UNCHANGED <<clock, db>>

(* Mutant: the loop runs one element too far. *)
NextElementPastEnd(r, t) ==
  IF t.at > QuestionCount
    THEN Goto(r, "after") /\ tx' = [tx EXCEPT ![r] = t]
    ELSE Goto(r, "weak") /\ tx' = [tx EXCEPT ![r] = [t EXCEPT !.at = t.at + 1]]

(* The loop of updateWeakElementsForSession goes to the next element asked. *)
NextElement(r, t) ==
  LET Later == {i \in FirstAsked(sets[t.set].questions) : i > t.at}
  IN IF Later = {}
       THEN Goto(r, "after") /\ tx' = [tx EXCEPT ![r] = t]
       ELSE /\ Goto(r, "weak")
            /\ \E i \in Later : /\ \A j \in Later : i <= j
                               /\ tx' = [tx EXCEPT ![r] = [t EXCEPT !.at = i]]

(* Mutant: the miss count is overwritten. *)
UpsertForgettingMisses(r) ==
  LET e == Question(r)
      row == weak[e]
      n == MissesOn(r, e)
  IN /\ At(r, "weak") /\ n > 0
     /\ Unblocked(r)
     /\ NextElement(r, [tx[r] EXCEPT !.weak[e] =
          IF row = NoRow THEN [id |-> tx[r].set, miss |-> n, hit |-> 0]
                         ELSE [id |-> row.id, miss |-> n, hit |-> 0]])
     /\ UNCHANGED <<clock, db>>

(* Mutant: an update in the place of the upsert misses an absent row. *)
UpdateMissedElement(r) ==
  LET e == Question(r)
      row == weak[e]
      n == MissesOn(r, e)
  IN /\ At(r, "weak") /\ n > 0
     /\ Unblocked(r)
     /\ NextElement(r, IF row = NoRow THEN tx[r]
          ELSE [tx[r] EXCEPT !.weak[e] = [id |-> row.id, miss |-> row.miss + n, hit |-> 0]])
     /\ UNCHANGED <<clock, db>>

(* An element missed in the session is upserted: one INSERT ON CONFLICT. *)
UpsertMissedElement(r) ==
  LET e == Question(r)
      row == weak[e]
      n == MissesOn(r, e)
  IN /\ At(r, "weak") /\ n > 0
     /\ Unblocked(r)
     /\ NextElement(r, [tx[r] EXCEPT !.weak[e] =
          IF row = NoRow THEN [id |-> tx[r].set, miss |-> n, hit |-> 0]
                         ELSE [id |-> row.id, miss |-> row.miss + n, hit |-> 0]])
     /\ UNCHANGED <<clock, db>>

(* An element answered right is looked up ... *)
FindWeakElement(r) ==
  LET row == weak[Question(r)]
  IN /\ At(r, "weak") /\ MissesOn(r, Question(r)) = 0
     /\ IF row = NoRow THEN NextElement(r, tx[r])
                       ELSE Goto(r, "hit") /\ tx' = [tx EXCEPT ![r].seen = row]
     /\ UNCHANGED <<clock, db>>

(* Mutant: the threshold is off by one. *)
HitWeakElementLate(r) ==
  LET e == Question(r)
      row == weak[e]
  IN /\ At(r, "hit")
     /\ Unblocked(r)
     /\ IF row = NoRow \/ row.id # tx[r].seen.id
          THEN Finish(r)
          ELSE NextElement(r, [tx[r] EXCEPT !.weak[e] =
                 IF tx[r].seen.hit >= MasteredConsecutiveHits
                   THEN NoRow ELSE [row EXCEPT !.hit = row.hit + 1]])
     /\ UNCHANGED <<clock, db>>

(* ... and its row, found by id, is deleted or counted up by what was read. *)
(* A row that is gone by then is P2025 and rolls the transaction back.      *)
HitWeakElement(r) ==
  LET e == Question(r)
      row == weak[e]
      done == tx[r].seen.hit + 1 >= MasteredConsecutiveHits
  IN /\ At(r, "hit")
     /\ Unblocked(r)
     /\ IF row = NoRow \/ row.id # tx[r].seen.id
          THEN Finish(r)
          ELSE NextElement(r, [tx[r] EXCEPT !.weak[e] =
                 IF done THEN NoRow ELSE [row EXCEPT !.hit = row.hit + 1]])
     /\ UNCHANGED <<clock, db>>

(* Mutant: mastery is counted before the session is saved. *)
CountMasteredTooEarly(r) ==
  /\ At(r, "after")
  /\ Goto(r, "readStats")
  /\ tx' = [tx EXCEPT ![r].after = CountMasteredElements(played, AskedBy(r))]
  /\ UNCHANGED <<clock, db>>

CountMasteredAfter(r) ==
  /\ At(r, "after")
  /\ Goto(r, "readStats")
  /\ tx' = [tx EXCEPT ![r].after =
              CountMasteredElements(Append(played, Session(tx[r])), AskedBy(r))]
  /\ UNCHANGED <<clock, db>>

(* Mutant: the week of the row is not looked at. *)
IgnoreWeek(r) == Goto(r, "increment") /\ UNCHANGED tx

(* updateExistingUserStatsForSession branches on the week that was read. *)
BranchOnWeek(r) ==
  /\ Goto(r, IF stats.week = WeekOf(tx[r].now) THEN "increment" ELSE "replaceWeek")
  /\ UNCHANGED tx

ReadStats(r) ==
  /\ At(r, "readStats")
  /\ IF stats = NoRow THEN Goto(r, "countAll") /\ UNCHANGED tx ELSE BranchOnWeek(r)
  /\ UNCHANGED <<clock, db>>

CountMasteredOnCreate(r) ==
  /\ At(r, "countAll")
  /\ Goto(r, "createStats")
  /\ tx' = [tx EXCEPT ![r].onCreate =
              CountMasteredElements(Append(played, Session(tx[r])), Elements)]
  /\ UNCHANGED <<clock, db>>

(* Mutant: the lifetime score is set, not incremented. *)
CountedAfresh(row, t, mastered, weekly) ==
  [games |-> row.games + 1,
   correct |-> row.correct + CorrectCount(t.marks),
   answered |-> row.answered + QuestionCount,
   mastered |-> row.mastered + mastered,
   weekly |-> weekly,
   week |-> WeekOf(t.now),
   allTime |-> Score(t.marks)]

(* Mutant: the update does not set weeklyScoreWeekStart. *)
CountedInOldWeek(row, t, mastered, weekly) ==
  [games |-> row.games + 1,
   correct |-> row.correct + CorrectCount(t.marks),
   answered |-> row.answered + QuestionCount,
   mastered |-> row.mastered + mastered,
   weekly |-> weekly,
   week |-> row.week,
   allTime |-> row.allTime + Score(t.marks)]

Counted(row, t, mastered, weekly) ==
  [games |-> row.games + 1,
   correct |-> row.correct + CorrectCount(t.marks),
   answered |-> row.answered + QuestionCount,
   mastered |-> row.mastered + mastered,
   weekly |-> weekly,
   week |-> WeekOf(t.now),
   allTime |-> row.allTime + Score(t.marks)]

WriteStats(r, row) ==
  /\ Goto(r, "commit")
  /\ tx' = [tx EXCEPT ![r].stats = row]

(* Mutant: a skipped duplicate passes for a created row. *)
CreateStatsUnchecked(r) ==
  LET t == tx[r]
  IN /\ At(r, "createStats")
     /\ Unblocked(r)
     /\ WriteStats(r, IF stats = NoRow
                        THEN Counted(NewStats, t, t.onCreate, Score(t.marks)) ELSE stats)
     /\ UNCHANGED <<clock, db>>

(* createMany with skipDuplicates: a row committed meanwhile is re-read. *)
CreateStats(r) ==
  LET t == tx[r]
  IN /\ At(r, "createStats")
     /\ Unblocked(r)
     /\ IF stats = NoRow
          THEN WriteStats(r, Counted(NewStats, t, t.onCreate, Score(t.marks)))
          ELSE Goto(r, "reread") /\ UNCHANGED tx
     /\ UNCHANGED <<clock, db>>

RereadStats(r) ==
  /\ At(r, "reread")
  /\ BranchOnWeek(r)
  /\ UNCHANGED <<clock, db>>

(* updateMany on a stale week; count 0 falls through to the increment. *)
ReplaceStaleWeek(r) ==
  LET t == tx[r]
  IN /\ At(r, "replaceWeek")
     /\ Unblocked(r)
     /\ IF stats.week # WeekOf(t.now)
          THEN WriteStats(r, Counted(stats, t, t.after - t.before, Score(t.marks)))
          ELSE Goto(r, "increment") /\ UNCHANGED tx
     /\ UNCHANGED <<clock, db>>

IncrementStats(r) ==
  LET t == tx[r]
  IN /\ At(r, "increment")
     /\ Unblocked(r)
     /\ WriteStats(r, Counted(stats, t, t.after - t.before, stats.weekly + Score(t.marks)))
     /\ UNCHANGED <<clock, db>>

(* Mutant: the question set stays open. *)
CommitLeavingSet(r) ==
  /\ At(r, "commit")
  /\ played' = Append(played, Session(tx[r]))
  /\ weak' = [e \in Elements |->
                IF tx[r].weak[e] = Unwritten THEN weak[e] ELSE tx[r].weak[e]]
  /\ stats' = tx[r].stats
  /\ Finish(r)
  /\ UNCHANGED <<clock, sets>>

Commit(r) ==
  /\ At(r, "commit")
  /\ sets' = [sets EXCEPT ![tx[r].set].status = "gone"]
  /\ played' = Append(played, Session(tx[r]))
  /\ weak' = [e \in Elements |->
                IF tx[r].weak[e] = Unwritten THEN weak[e] ELSE tx[r].weak[e]]
  /\ stats' = tx[r].stats
  /\ Finish(r)
  /\ UNCHANGED clock

(* Mutant: the set is deleted outside the transaction. *)
RollbackLosingSet(r) ==
  /\ ~At(r, "idle")
  /\ sets' = IF tx[r].consumed THEN [sets EXCEPT ![tx[r].set].status = "gone"] ELSE sets
  /\ Finish(r)
  /\ UNCHANGED <<clock, played, weak, stats>>

(* The transaction's five seconds run out, or its connection is lost. *)
Rollback(r) ==
  /\ ~At(r, "idle")
  /\ Finish(r)
  /\ UNCHANGED <<clock, db>>

(* Mutant: nobody breaks a deadlock. *)
NoVictim(r) == FALSE /\ At(r, "idle") /\ UNCHANGED vars

DeadlockVictim(r) ==
  /\ Deadlocked(r)
  /\ Finish(r)
  /\ UNCHANGED <<clock, db>>

----------------------------------------------------------------------------
(* Actors next to the requests; each runs one autocommitted statement. *)

StatsUnlocked == \A q \in Requests : tx[q].stats = Unwritten

(* resetWeeklyScores, for the week of its scheduledTime. *)
ResetWeeklyScores(t) ==
  /\ stats # NoRow /\ stats.week # WeekOf(t) /\ StatsUnlocked
  /\ stats' = [stats EXCEPT !.weekly = 0, !.week = WeekOf(t)]
  /\ UNCHANGED <<clock, sets, played, weak, pc, tx>>

(* cleanupExpiredGameQuestionSets; it waits for sets being consumed. *)
CleanupQuestionSets(cutoff) ==
  LET expired == {s \in SetIds : sets[s].status = "open" /\ sets[s].expiresAt <= cutoff}
  IN /\ expired # {}
     /\ \A q \in Requests : ~(tx[q].consumed /\ tx[q].set \in expired)
     /\ sets' = [s \in SetIds |-> IF s \in expired THEN [sets[s] EXCEPT !.status = "gone"]
                                                   ELSE sets[s]]
     /\ UNCHANGED <<clock, played, weak, stats, pc, tx>>

(* deleteWeakElement, from the weak list's delete button. *)
DeleteWeakElement(e) ==
  /\ weak[e] # NoRow
  /\ \A q \in Requests : tx[q].weak[e] = Unwritten
  /\ weak' = [weak EXCEPT ![e] = NoRow]
  /\ UNCHANGED <<clock, sets, played, stats, pc, tx>>

(* updateLoginStreak upserts the row, without a week. *)
CreateStatsAtLogin ==
  /\ stats = NoRow /\ StatsUnlocked
  /\ stats' = NewStats
  /\ UNCHANGED <<clock, sets, played, weak, pc, tx>>

Tick ==
  /\ clock < MaxClock
  /\ clock' = clock + 1
  /\ UNCHANGED <<db, pc, tx>>

----------------------------------------------------------------------------
Init ==
  /\ clock = 0
  /\ sets = [s \in SetIds |-> NoQuestions]
  /\ played = <<>>
  /\ weak = [e \in Elements |-> NoRow]
  /\ stats = NoRow
  /\ pc = [r \in Requests |-> "idle"]
  /\ tx = [r \in Requests |-> BlankTx]

(* The next statement of a request that has been started. *)
Statement(r) ==
  \/ \E s \in SetIds, q \in [Indexes -> Elements] : IssueQuestionSet(r, s, q)
  \/ ReadQuestionSet(r)
  \/ CountMasteredBefore(r)
  \/ ConsumeQuestionSet(r)
  \/ UpsertMissedElement(r)
  \/ FindWeakElement(r)
  \/ HitWeakElement(r)
  \/ CountMasteredAfter(r)
  \/ ReadStats(r)
  \/ CountMasteredOnCreate(r)
  \/ CreateStats(r)
  \/ RereadStats(r)
  \/ ReplaceStaleWeek(r)
  \/ IncrementStats(r)
  \/ Commit(r)

Arrival(r) ==
  \/ \E m \in Modes : ReadCandidates(r, m)
  \/ \E s \in SetIds, m \in Modes, marks \in Marks : StartSubmit(r, s, m, marks)

Environment ==
  \/ \E t \in 0 .. MaxClock : clock - JobLag <= t /\ t <= clock /\ ResetWeeklyScores(t)
  \/ \E t \in 0 .. MaxClock : clock - JobLag <= t /\ t <= clock /\ CleanupQuestionSets(t)
  \/ \E e \in Elements : DeleteWeakElement(e)
  \/ CreateStatsAtLogin
  \/ Tick

Next ==
  \/ \E r \in Requests : Arrival(r) \/ Statement(r) \/ Rollback(r) \/ DeadlockVictim(r)
  \/ Environment

Spec == Init /\ [][Next]_vars

(* A started request keeps running its statements: lock queues are FIFO in  *)
(* PostgreSQL, so a waiter is not passed over for ever, and the detector    *)
(* breaks every deadlock.                                                   *)
Fairness ==
  \A r \in Requests : SF_vars(Statement(r)) /\ WF_vars(DeadlockVictim(r))

FairSpec == Spec /\ Fairness

----------------------------------------------------------------------------
(* Type invariant. *)

Labels == {"idle", "issue", "read", "before", "consume", "weak", "hit", "after",
           "readStats", "countAll", "createStats", "reread", "replaceWeek",
           "increment", "commit"}

SetRow ==
  [status : {"open", "gone"}, mode : Modes, questions : [Indexes -> Elements], expiresAt : Nat]
WeakRow == [id : SetIds, miss : Nat, hit : Nat]
StatsRow == [games : Nat, correct : Nat, answered : Nat, mastered : Int,
             weekly : Nat, week : Int, allTime : Nat]
SessionRow == [set : SetIds, mode : Modes, playedAt : Nat, correct : Nat, score : Nat,
               missed : [Elements -> Nat],
               outcome : [Elements -> {"absent", "right", "wrong"}]]
TxRow == [now : Nat, set : SetIds \cup {NoRow}, mode : Modes, candidates : SUBSET Elements,
          marks : Marks, at : Indexes, seen : WeakRow \cup {NoRow}, before : Nat, after : Nat,
          onCreate : Nat, consumed : BOOLEAN,
          weak : [Elements -> WeakRow \cup {NoRow, Unwritten}],
          stats : StatsRow \cup {Unwritten}]

(* The two markers are no rows. *)
ASSUME MarkerAssumption ==
  /\ NoRow \notin WeakRow \cup StatsRow
  /\ Unwritten \notin WeakRow \cup StatsRow \cup {NoRow}

TypeOK ==
  /\ clock \in Nat
  /\ sets \in [SetIds -> SetRow \cup {NoQuestions}]
  /\ played \in Seq(SessionRow)
  /\ weak \in [Elements -> WeakRow \cup {NoRow}]
  /\ stats \in StatsRow \cup {NoRow}
  /\ pc \in [Requests -> Labels]
  /\ tx \in [Requests -> TxRow]
=============================================================================
