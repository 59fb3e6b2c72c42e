------------------------------- MODULE MCUsers -----------------------------
(***************************************************************************)
(* The users for TLC: the accounts of three of them (Accounts itself), the *)
(* games of one over a longer time, requests one at a time over several    *)
(* weeks, two at a time for three games on one element and games that ask  *)
(* an element twice, the questions and answers of a game, the login        *)
(* streak, and what is read of games.                                      *)
(***************************************************************************)
EXTENDS Accounts, TLC

CONSTANTS
  SetIds, Elements, OneElement, OneRequest, Unwritten, \* the games
  Band, WeakCandidates, QuizQuestions, ChoiceCount,    \* the questions
  QuizMinWeak,
  MaxDay,                                              \* the login streak
  PageSize, MaxSessions,                               \* mastery, by pages
  NUsers, Askers, Limit, MaxScore, MaxWeek, MaxWrites, \* the rankings
  Counters, Weeks,                                     \* the answers
  None

VARIABLES
  which, \* the component of this behaviour
  turnClock, turnSets, turnPlayed, turnWeak, turnStats, turnPc, turnTx,
  raceClock, raceSets, racePlayed, raceWeak, raceStats, racePc, raceTx,
  twiceClock, twiceSets, twicePlayed, twiceWeak, twiceStats, twicePc, twiceTx,
  quizPhase, quizCandidates, quizRemaining, quizDrawn, quizQuestions,
  quizSent, quizResults, quizSaved, quizRestored,
  streakDay, streakStats, streakRead, streakGames, streakLogins,
  streakActive, streakLate,
  scanSessions, scanScan, scanBegun,
  rankingStats, rankingWeek, rankingRequest, rankingWritten,
  replyRow, replyWeek

turnVars ==
  <<turnClock, turnSets, turnPlayed, turnWeak, turnStats, turnPc, turnTx>>
raceVars ==
  <<raceClock, raceSets, racePlayed, raceWeak, raceStats, racePc, raceTx>>
twiceVars ==
  <<twiceClock, twiceSets, twicePlayed, twiceWeak, twiceStats, twicePc, twiceTx>>
quizVars ==
  <<quizPhase, quizCandidates, quizRemaining, quizDrawn, quizQuestions,
    quizSent, quizResults, quizSaved, quizRestored>>
streakVars ==
  <<streakDay, streakStats, streakRead, streakGames, streakLogins,
    streakActive, streakLate>>
scanVars ==
  <<scanSessions, scanScan, scanBegun>>
rankingVars ==
  <<rankingStats, rankingWeek, rankingRequest, rankingWritten>>
replyVars ==
  <<replyRow, replyWeek>>
allVars ==
  <<which, vars, turnVars, raceVars, twiceVars, quizVars, streakVars, scanVars,
    rankingVars, replyVars>>

InTurn == INSTANCE GameSessionProperties WITH
    Requests <- OneRequest, QuestionCount <- 1, MinWeak <- 1, ExpirySpan <- 2,
    WeekLength <- 1, JobLag <- 0, MaxClock <- 1, clock <- turnClock,
    sets <- turnSets, played <- turnPlayed, weak <- turnWeak,
    stats <- turnStats, pc <- turnPc, tx <- turnTx
RaceGame == INSTANCE GameSessionProperties WITH
    Elements <- OneElement, QuestionCount <- 1, MinWeak <- 1, ExpirySpan <- 1,
    WeekLength <- 1, JobLag <- 0, MaxClock <- 0, clock <- raceClock,
    sets <- raceSets, played <- racePlayed, weak <- raceWeak,
    stats <- raceStats, pc <- racePc, tx <- raceTx
Twice == INSTANCE GameSessionProperties WITH
    Requests <- OneRequest, Elements <- OneElement, QuestionCount <- 2,
    MinWeak <- 1, ExpirySpan <- 1, WeekLength <- 1, JobLag <- 0, MaxClock <- 1,
    clock <- twiceClock, sets <- twiceSets, played <- twicePlayed,
    weak <- twiceWeak, stats <- twiceStats, pc <- twicePc, tx <- twiceTx
Quiz == INSTANCE QuestionSet WITH
    WeakLists <- WeakCandidates, QuestionCount <- QuizQuestions,
    MinWeak <- QuizMinWeak, phase <- quizPhase,
    candidates <- quizCandidates, remaining <- quizRemaining,
    drawn <- quizDrawn, questions <- quizQuestions, sent <- quizSent,
    results <- quizResults, saved <- quizSaved, restored <- quizRestored
Streak == INSTANCE LoginStreak WITH
    day <- streakDay, stats <- streakStats, read <- streakRead,
    games <- streakGames, logins <- streakLogins, active <- streakActive,
    late <- streakLate
Scan == INSTANCE MasteryScan WITH
    sessions <- scanSessions, scan <- scanScan, begun <- scanBegun
Ranks == INSTANCE Ranking WITH
    stats <- rankingStats, week <- rankingWeek, request <- rankingRequest,
    written <- rankingWritten
Replies == INSTANCE Responses WITH
    row <- replyRow, week <- replyWeek

(* What the modules take for granted of their constants, and that one      *)
(* request is one.                                                         *)
ASSUME InstancesAssumption ==
  /\ InTurn!GameAssumption /\ InTurn!MarkerAssumption
  /\ RaceGame!GameAssumption /\ RaceGame!MarkerAssumption
  /\ Twice!GameAssumption /\ Twice!MarkerAssumption
  /\ \A r, q \in OneRequest : r = q
  /\ Quiz!QuestionSetAssumption /\ Streak!LoginStreakAssumption
  /\ Scan!MasteryScanAssumption /\ Ranks!RankingAssumption
  /\ Replies!CountersAssumption

TurnRests ==
  /\ turnClock = None /\ turnSets = None /\ turnPlayed = None
  /\ turnWeak = None /\ turnStats = None /\ turnPc = None /\ turnTx = None

RaceRests ==
  /\ raceClock = None /\ raceSets = None /\ racePlayed = None
  /\ raceWeak = None /\ raceStats = None /\ racePc = None /\ raceTx = None

TwiceRests ==
  /\ twiceClock = None /\ twiceSets = None /\ twicePlayed = None
  /\ twiceWeak = None /\ twiceStats = None /\ twicePc = None /\ twiceTx = None

QuizRests ==
  /\ quizPhase = None /\ quizCandidates = None /\ quizRemaining = None
  /\ quizDrawn = None /\ quizQuestions = None /\ quizSent = None
  /\ quizResults = None /\ quizSaved = None /\ quizRestored = None

StreakRests ==
  /\ streakDay = None /\ streakStats = None /\ streakRead = None
  /\ streakGames = None /\ streakLogins = None /\ streakActive = None
  /\ streakLate = None

ScanRests ==
  /\ scanSessions = None /\ scanScan = None /\ scanBegun = None

RankingRests ==
  /\ rankingStats = None /\ rankingWeek = None /\ rankingRequest = None
  /\ rankingWritten = None

ResponsesRests ==
  /\ replyRow = None /\ replyWeek = None

(* All start, and then only one component moves. *)
AllInit ==
  /\ which \in {"accounts", "turn", "race", "twice", "quiz", "streak", "scan",
               "ranking", "responses"}
  /\ Init
  /\ IF which = "turn" THEN InTurn!Init ELSE TurnRests
  /\ IF which = "race" THEN RaceGame!Init ELSE RaceRests
  /\ IF which = "twice" THEN Twice!Init ELSE TwiceRests
  /\ IF which = "quiz" THEN Quiz!Init ELSE QuizRests
  /\ IF which = "streak" THEN Streak!Init ELSE StreakRests
  /\ IF which = "scan" THEN Scan!Init ELSE ScanRests
  /\ IF which = "ranking" THEN Ranks!Init ELSE RankingRests
  /\ IF which = "responses" THEN Replies!Init ELSE ResponsesRests

AllNext ==
  \/ /\ which = "accounts" /\ Next
     /\ UNCHANGED <<which, turnVars, raceVars, twiceVars, quizVars, streakVars,
                  scanVars, rankingVars, replyVars>>
  \/ /\ which = "turn" /\ InTurn!Next
     /\ UNCHANGED <<which, vars, raceVars, twiceVars, quizVars, streakVars,
                  scanVars, rankingVars, replyVars>>
  \/ /\ which = "race" /\ RaceGame!Next
     /\ UNCHANGED <<which, vars, turnVars, twiceVars, quizVars, streakVars,
                  scanVars, rankingVars, replyVars>>
  \/ /\ which = "twice" /\ Twice!Next
     /\ UNCHANGED <<which, vars, turnVars, raceVars, quizVars, streakVars,
                  scanVars, rankingVars, replyVars>>
  \/ /\ which = "quiz" /\ Quiz!Next
     /\ UNCHANGED <<which, vars, turnVars, raceVars, twiceVars, streakVars,
                  scanVars, rankingVars, replyVars>>
  \/ /\ which = "streak" /\ Streak!Next
     /\ UNCHANGED <<which, vars, turnVars, raceVars, twiceVars, quizVars,
                  scanVars, rankingVars, replyVars>>
  \/ /\ which = "scan" /\ Scan!Next
     /\ UNCHANGED <<which, vars, turnVars, raceVars, twiceVars, quizVars,
                  streakVars, rankingVars, replyVars>>
  \/ /\ which = "ranking" /\ Ranks!Next
     /\ UNCHANGED <<which, vars, turnVars, raceVars, twiceVars, quizVars,
                  streakVars, scanVars, replyVars>>
  \/ /\ which = "responses" /\ Replies!Next
     /\ UNCHANGED <<which, vars, turnVars, raceVars, twiceVars, quizVars,
                  streakVars, scanVars, rankingVars>>

AllSpec == AllInit /\ [][AllNext]_allVars

(* Served one at a time, over several weeks, games leave the weekly score, *)
(* the mastered count and the weak list as the history tells; and three    *)
(* games on one element, two of them at a time, are scored once and whole, *)
(* and their misses counted once, also on a row that was deleted and came  *)
(* back. The first holds as well of games that ask their only element      *)
(* twice, which counts as one hit and one step to mastery, and as a miss   *)
(* for each wrong answer (updateUserStatsForSession,                       *)
(* updateWeakElementsForSession).                                          *)
HistoryKept ==
  /\ (which = "turn" => InTurn!WeeklyMatchesHistory)
  /\ (which = "turn" => InTurn!MasteredCountExact)
  /\ (which = "turn" => InTurn!TwoHitsClear)
  /\ (which = "turn" => InTurn!MasteredNotWeak)
  /\ (which = "twice" => Twice!WeeklyMatchesHistory)
  /\ (which = "twice" => Twice!MasteredCountExact)
  /\ (which = "twice" => Twice!TwoHitsClear)
  /\ (which = "twice" => Twice!MasteredNotWeak)
  /\ (which = "twice" => Twice!MissCountExact)
  /\ (which = "race" => RaceGame!ScoredOnce)
  /\ (which = "race" => RaceGame!NoSetLost)
  /\ (which = "race" => RaceGame!TotalsMatchHistory)
  /\ (which = "race" => RaceGame!MissCountExact)

(* Questions are fair, the result is the one of the answers in whatever    *)
(* order they are sent, and a login streak is earned by the days of the    *)
(* logins.                                                                 *)
EarnedFairly ==
  /\ (which = "quiz" => Quiz!FairAndRight)
  /\ (which = "streak" => Streak!StreakEarned)

(* What is read piece by piece beside writers agrees with the data: a      *)
(* mastery with the sessions of some moment while it was read, a rank with *)
(* the list up to the rows written meanwhile, an answer with its row       *)
(* (getElementMasteryStatusMap, getMyRank, normalizeCountPair).            *)
ReadsAgree ==
  /\ (which = "scan" => Scan!ScanAgrees)
  /\ (which = "ranking" => Ranks!RanksAgree)
  /\ (which = "responses" => Replies!AnswersAccepted)

(* Candidates of a weak game, most missed first; counters of a row.        *)
SmallWeakCandidates == {<<4>>, <<3, 1>>, <<1, 4, 2>>}
SmallCounters == {-1, 0, 2}

(* Only one component moves, so what is alike in two of them is exchanged  *)
(* at once: each keeps all its symmetries, and TLC has fewer to try.       *)
Exchange(two) == CHOOSE p \in Permutations(two) : \A x \in two : p[x] # x

Symmetry ==
  {Exchange(Requests) @@ Exchange(Elements)}
  \cup {Exchange(SetIds \ {s}) @@ Exchange(Admins) : s \in SetIds}

=============================================================================
