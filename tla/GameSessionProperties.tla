----------------------- MODULE GameSessionProperties -----------------------
(***************************************************************************)
(* What the game service must keep true of a user's history, weak list and *)
(* statistics, and how it implements the question set ledger.              *)
(***************************************************************************)
EXTENDS GameSession, Functions

(* A question set is scored at most once, and once scored it is no longer  *)
(* offered, however often and however concurrently it is submitted:        *)
(* deleteMany is the only right to score (game.service.ts, count !== 1).   *)
ScoredOnce ==
  /\ \A i, j \in DOMAIN played : i # j => played[i].set # played[j].set
  /\ \A i \in DOMAIN played : sets[played[i].set].status = "gone"

(* A question set leaves the table only by being scored or after its       *)
(* expiry; a rejected, rolled back or deadlocked submission gives it back. *)
NoSetLost ==
  \A s \in SetIds : sets[s].status = "gone" =>
    \/ \E i \in DOMAIN played : played[i].set = s
    \/ sets[s].expiresAt <= clock

(* The lifetime totals of UserStats are the sums over the saved sessions,  *)
(* whichever of the create, re-read, replace and increment paths ran.      *)
TotalsMatchHistory ==
  /\ CurrentStats.games = Len(played)
  /\ CurrentStats.answered = QuestionCount * Len(played)
  /\ CurrentStats.correct = SumFunction([i \in DOMAIN played |-> played[i].correct])
  /\ CurrentStats.allTime = SumFunction([i \in DOMAIN played |-> played[i].score])

(* The weekly score is never more than the lifetime score, whatever order  *)
(* submissions of two weeks and the reset job write the row in.            *)
WeeklyWithinAllTime ==
  stats # NoRow => stats.weekly <= stats.allTime

(* The weekly score shown to the user, who sees 0 for a row of another      *)
(* week, is what the user scored in the current week.                      *)
WeeklyMatchesHistory ==
  LET shown == IF stats # NoRow /\ stats.week = WeekOf(clock) THEN stats.weekly ELSE 0
      thisWeek == {i \in DOMAIN played : WeekOf(played[i].playedAt) = WeekOf(clock)}
  IN shown = SumFunction([i \in thisWeek |-> played[i].score])

(* masteredCount is the number of elements that are mastered.              *)
MasteredCountExact ==
  stats # NoRow => stats.mastered = CountMasteredElements(played, Elements)

(* A row of the weak list counts every wrong answer on its element since   *)
(* the session that added it, none twice (missCount: increment).           *)
MissCountExact ==
  \A e \in Elements : weak[e] # NoRow =>
    \E i \in DOMAIN played :
      /\ played[i].set = weak[e].id
      /\ weak[e].miss = SumFunction([j \in i .. Len(played) |-> played[j].missed[e]])

(* Two right sessions in a row take an element off the weak list, so no    *)
(* row is ever left with two consecutive hits.                             *)
TwoHitsClear ==
  \A e \in Elements : weak[e] # NoRow => weak[e].hit < MasteredConsecutiveHits

(* The weak list and the mastery badge agree: a mastered element is not    *)
(* listed as weak.                                                         *)
MasteredNotWeak ==
  \A e \in Elements : Mastered(played, e) => weak[e] = NoRow

(* Saving a session leaves every element it missed on the weak list with   *)
(* its run of hits broken, whatever other requests did to the row.         *)
MissIsListed ==
  [][played' # played =>
       LET p == played'[Len(played')]
       IN \A e \in Elements :
            p.outcome[e] = "wrong" => weak'[e] # NoRow /\ weak'[e].hit = 0]_vars

(* An element leaves the weak list only when the user deletes it, or with  *)
(* a weak game.                                                            *)
OnlyWeakGamesClear ==
  [][\A e \in Elements : weak[e] # NoRow /\ weak'[e] = NoRow /\ played' # played =>
       played'[Len(played')].mode = "weak"]_vars

(* A request always ends: row locks never leave two submissions waiting    *)
(* for each other for ever.                                                *)
RequestsEnd == \A r \in Requests : pc[r] # "idle" ~> pc[r] = "idle"

LedgerStatus ==
  [s \in SetIds |-> IF sets[s].status # "gone" THEN sets[s].status
                    ELSE IF \E i \in DOMAIN played : played[i].set = s THEN "scored" ELSE "dropped"]

LedgerTotals ==
  [games |-> CurrentStats.games, correct |-> CurrentStats.correct,
   answered |-> CurrentStats.answered, score |-> CurrentStats.allTime]

Ledger == INSTANCE QuestionSetLedger WITH
            PointsPerHit <- BaseCorrectScore, status <- LedgerStatus, totals <- LedgerTotals

(* The game service implements the ledger.                                 *)
LedgerSpec == Ledger!Spec
=============================================================================
