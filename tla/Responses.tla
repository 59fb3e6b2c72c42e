------------------------------ MODULE Responses ------------------------------
(***************************************************************************)
(* The numbers the server answers with and those the client accepts: what  *)
(* backend/src/lib/stats.ts and the services make of a row of user_stats,  *)
(* and the checks of frontend/src/lib/api/ that turn an answer of another  *)
(* shape into an error. Names and dates are left out.                      *)
(***************************************************************************)
EXTENDS Integers

CONSTANTS
  Counters,  \* the values of a counter of a row
  Weeks    \* the weeks a row may have been written in

CountersAssumption == Counters \subseteq Int /\ 0 \in Counters

VARIABLES
  row,   \* a row of user_stats
  week   \* the week of the request

vars == <<row, week>>

(* The columns of a row; week stands for weeklyScoreWeekStart. *)
StatsRow ==
  [totalGames : Counters, totalCorrect : Counters, totalAnswered : Counters, masteredCount : Counters,
   currentStreak : Counters, weeklyScore : Counters, allTimeScore : Counters, week : Weeks]

----------------------------------------------------------------------------
(* stats.ts.                                                                *)

NormalizeNonNegativeCount(value) == IF value > 0 THEN value ELSE 0

NormalizeCountPair(correct, total) ==
  LET most == NormalizeNonNegativeCount(total)
      least == NormalizeNonNegativeCount(correct)
  IN [correctCount |-> IF least < most THEN least ELSE most, totalCount |-> most]

(* Mutant: the counts as they are in the row. *)
RateOfRow(correct, total) == IF total <= 0 THEN 0 ELSE (200 * correct + total) \div (2 * total)

(* Math.round, halves up. *)
CalculateAccuracyRate(correct, total) ==
  LET pair == NormalizeCountPair(correct, total)
  IN IF pair.totalCount = 0 THEN 0
     ELSE (200 * pair.correctCount + pair.totalCount) \div (2 * pair.totalCount)

----------------------------------------------------------------------------
(* What the services answer.                                                *)

(* getCurrentUserStats: another week's score is none of this week. *)
CurrentUserStats(r, now) ==
  LET pair == NormalizeCountPair(r.totalCorrect, r.totalAnswered)
  IN [totalGames |-> NormalizeNonNegativeCount(r.totalGames),
      totalCorrect |-> pair.correctCount, totalAnswered |-> pair.totalCount,
      averageAccuracyRate |-> CalculateAccuracyRate(pair.correctCount, pair.totalCount),
      masteredCount |-> NormalizeNonNegativeCount(r.masteredCount),
      currentStreak |-> NormalizeNonNegativeCount(r.currentStreak),
      weeklyScore |-> IF r.week = now THEN NormalizeNonNegativeCount(r.weeklyScore) ELSE 0,
      allTimeScore |-> NormalizeNonNegativeCount(r.allTimeScore)]

(* An item of the recent accuracy trend, from the counts of a session. *)
AccuracyTrendItem(correct, total) ==
  LET pair == NormalizeCountPair(correct, total)
  IN [correctCount |-> pair.correctCount, totalCount |-> pair.totalCount,
      accuracyRate |-> CalculateAccuracyRate(pair.correctCount, pair.totalCount)]

ToAdminUserListItem(r) ==
  [totalGames |-> NormalizeNonNegativeCount(r.totalGames),
   accuracyRate |-> CalculateAccuracyRate(r.totalCorrect, r.totalAnswered),
   weeklyScore |-> NormalizeNonNegativeCount(r.weeklyScore),
   allTimeScore |-> NormalizeNonNegativeCount(r.allTimeScore)]

ToAdminUserDetail(r) ==
  [totalGames |-> NormalizeNonNegativeCount(r.totalGames),
   totalCorrect |-> NormalizeNonNegativeCount(r.totalCorrect),
   totalAnswered |-> NormalizeNonNegativeCount(r.totalAnswered),
   accuracyRate |-> CalculateAccuracyRate(r.totalCorrect, r.totalAnswered),
   masteredCount |-> NormalizeNonNegativeCount(r.masteredCount),
   currentStreak |-> NormalizeNonNegativeCount(r.currentStreak),
   weeklyScore |-> NormalizeNonNegativeCount(r.weeklyScore),
   allTimeScore |-> NormalizeNonNegativeCount(r.allTimeScore)]

(* getAdminStats, from the sums over all rows. *)
AdminStats(correct, answered, mastered) ==
  [totalAnswered |-> NormalizeNonNegativeCount(answered),
   averageAccuracyRate |-> CalculateAccuracyRate(NormalizeNonNegativeCount(correct),
                                                 NormalizeNonNegativeCount(answered)),
   totalMasteredCount |-> NormalizeNonNegativeCount(mastered)]

RankingEntry(r, score) ==
  [score |-> NormalizeNonNegativeCount(score),
   totalGames |-> NormalizeNonNegativeCount(r.totalGames),
   accuracyRate |-> CalculateAccuracyRate(r.totalCorrect, r.totalAnswered)]

----------------------------------------------------------------------------
(* What the client accepts.                                                 *)

IsNonNegativeInteger(value) == value \in Nat
IsAccuracyRate(value) == value \in 0 .. 100

IsValidCountPair(correct, total) ==
  IsNonNegativeInteger(correct) /\ IsNonNegativeInteger(total) /\ correct <= total

IsMyStatsSummary(stats) ==
  /\ IsValidCountPair(stats.totalCorrect, stats.totalAnswered)
  /\ IsAccuracyRate(stats.averageAccuracyRate)
  /\ \A count \in {stats.totalGames, stats.masteredCount, stats.currentStreak, stats.weeklyScore,
                   stats.allTimeScore} : IsNonNegativeInteger(count)

IsMyAccuracyTrendItem(item) ==
  IsValidCountPair(item.correctCount, item.totalCount) /\ IsAccuracyRate(item.accuracyRate)

IsAdminUserListItem(stats) ==
  /\ IsAccuracyRate(stats.accuracyRate)
  /\ \A count \in {stats.totalGames, stats.weeklyScore, stats.allTimeScore} : IsNonNegativeInteger(count)

IsAdminUserDetail(stats) ==
  /\ IsAdminUserListItem(stats)
  /\ \A count \in {stats.totalCorrect, stats.totalAnswered, stats.masteredCount,
                   stats.currentStreak} : IsNonNegativeInteger(count)

IsAdminStats(stats) ==
  /\ IsNonNegativeInteger(stats.totalAnswered) /\ IsNonNegativeInteger(stats.totalMasteredCount)
  /\ IsAccuracyRate(stats.averageAccuracyRate)

IsRankingEntry(entry) ==
  /\ IsNonNegativeInteger(entry.totalGames) /\ IsNonNegativeInteger(entry.score)
  /\ IsAccuracyRate(entry.accuracyRate)

----------------------------------------------------------------------------
(* A game or a login writes the row, by hand it may be set to anything.     *)
NewRow ==
  [totalGames |-> 0, totalCorrect |-> 0, totalAnswered |-> 0, masteredCount |-> 0,
   currentStreak |-> 0, weeklyScore |-> 0, allTimeScore |-> 0, week |-> week]

Init == week \in Weeks /\ row = NewRow

Write ==
  /\ \/ \E f \in DOMAIN row \ {"week"}, c \in Counters : row' = [row EXCEPT ![f] = c]
     \/ row' = [row EXCEPT !.week = week]
  /\ UNCHANGED week

WeekPasses == week' \in Weeks /\ UNCHANGED row

Next == Write \/ WeekPasses
Spec == Init /\ [][Next]_vars

(* The client accepts every answer the server makes of a row, whatever the  *)
(* row holds, and the user reads the same accuracy in all of them.          *)
AnswersAccepted ==
  LET mine == CurrentUserStats(row, week)
      item == ToAdminUserListItem(row)
      detail == ToAdminUserDetail(row)
      entry == RankingEntry(row, row.allTimeScore)
  IN /\ IsMyStatsSummary(mine)
     /\ IsMyAccuracyTrendItem(AccuracyTrendItem(row.totalCorrect, row.totalAnswered))
     /\ IsAdminUserListItem(item) /\ IsAdminUserDetail(detail)
     /\ IsAdminStats(AdminStats(row.totalCorrect, row.totalAnswered, row.masteredCount))
     /\ IsRankingEntry(entry)
     /\ {item.accuracyRate, detail.accuracyRate, entry.accuracyRate} = {mine.averageAccuracyRate}
=============================================================================
