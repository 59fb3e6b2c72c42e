------------------------------ MODULE Ranking ------------------------------
(***************************************************************************)
(* The rankings (backend/src/services/ranking.service.ts): one request     *)
(* reads the list and, in statements of their own that run beside it, the  *)
(* rank of the user who asks, while games are saved, users are suspended   *)
(* or deleted and weeks pass.                                              *)
(***************************************************************************)
EXTENDS Integers, FiniteSets, Sequences

CONSTANTS
  NUsers,    \* the users are 1 .. NUsers, in the order of their ids
  Askers,    \* bound: those of them who ask
  Limit,     \* RANKING_LIMIT
  MaxScore,  \* bound on a score
  MaxWeek,   \* bound on the clock, in weeks
  MaxWrites, \* bound on the rows written beside a request
  None

RankingAssumption ==
  /\ NUsers \in Nat \ {0} /\ Limit \in Nat \ {0} /\ Askers \subseteq 1 .. NUsers
  /\ MaxScore \in Nat /\ MaxWeek \in Nat /\ MaxWrites \in Nat

VARIABLES
  stats,    \* the row of each user, None when it has none
  week,     \* the week it is
  request,  \* the request for a ranking
  written   \* the rows written since the request began (observed by the property only)

vars == <<stats, week, request, written>>

UserIds == 1 .. NUsers
Periods == {"weekly", "alltime"}
NewRow == [weekly |-> 0, week |-> None, allTime |-> 0, games |-> 0, active |-> TRUE]
NoRequest == [at |-> "idle", period |-> "weekly", user |-> None, week |-> 0,
              list |-> None, mine |-> "ranked", score |-> 0, myRank |-> None]

Lesser(a, b) == IF a < b THEN a ELSE b

----------------------------------------------------------------------------
(* Which rows a ranking is about.                                           *)

(* activeRankingTargetWhere, isActiveRankingTarget: played and not suspended. *)
IsActiveRankingTarget(u) == stats[u] # None /\ stats[u].games > 0 /\ stats[u].active

(* A row counts for the week it was last written in. *)
IsTarget(u, period, w) ==
  IsActiveRankingTarget(u) /\ (period = "weekly" => stats[u].week = w)

Targets(period, w) == {u \in UserIds : IsTarget(u, period, w)}

(* getScoreField. *)
Score(u, period) == IF period = "weekly" THEN stats[u].weekly ELSE stats[u].allTime

(* Ordered by score, then by id. *)
Precedes(u, v, period) ==
  \/ Score(u, period) > Score(v, period)
  \/ Score(u, period) = Score(v, period) /\ u < v

----------------------------------------------------------------------------
(* The request.                                                             *)

Ask(user, period) ==
  /\ request.at = "idle"
  /\ request' = [at |-> "reading", period |-> period, user |-> user, week |-> week,
                 list |-> None, mine |-> IF user = None THEN "ranked" ELSE "unread",
                 score |-> 0, myRank |-> None]
  /\ written' = {}
  /\ UNCHANGED <<stats, week>>

(* Mutant: the rank of a row is its place in the list. *)
RankByPlace(ordered, i, period) == i

(* Equal scores share the rank of the first of them. *)
Rank(ordered, i, period) ==
  CHOOSE k \in 1 .. i :
    /\ \A j \in k .. i : Score(ordered[j], period) = Score(ordered[i], period)
    /\ k > 1 => Score(ordered[k - 1], period) # Score(ordered[i], period)

(* The i-th of some users in the order of a ranking. *)
Ordered(users, period, i) ==
  CHOOSE u \in users : Cardinality({v \in users : Precedes(v, u, period)}) = i - 1

(* findMany with take. *)
ReadList ==
  LET period == request.period
      targets == Targets(period, request.week)
      ordered == [i \in 1 .. Cardinality(targets) |-> Ordered(targets, period, i)]
      taken == SubSeq(ordered, 1, Lesser(Limit, Cardinality(targets)))
  IN /\ request.at = "reading" /\ request.list = None
     /\ request' = [request EXCEPT !.list =
          [i \in DOMAIN taken |->
             [user |-> taken[i], score |-> Score(taken[i], period), rank |-> Rank(taken, i, period)]]]
     /\ UNCHANGED <<stats, week, written>>

(* getMyRank: the row of the user, then the rows above it. *)
ReadMine ==
  /\ request.at = "reading" /\ request.mine = "unread"
  /\ request' = IF IsTarget(request.user, request.period, request.week)
                THEN [request EXCEPT !.mine = "counting", !.score = Score(request.user, request.period)]
                ELSE [request EXCEPT !.mine = "ranked"]
  /\ UNCHANGED <<stats, week, written>>

(* Mutant: rows with the same score are above, too. *)
HigherOrEqual(score) ==
  {u \in Targets(request.period, request.week) : Score(u, request.period) >= score}

Higher(score) == {u \in Targets(request.period, request.week) : Score(u, request.period) > score}

CountHigher ==
  /\ request.at = "reading" /\ request.mine = "counting"
  /\ request' = [request EXCEPT !.myRank = Cardinality(Higher(request.score)) + 1,
                               !.mine = "ranked", !.score = 0]
  /\ UNCHANGED <<stats, week, written>>

Answer ==
  /\ request.at = "reading" /\ request.list # None /\ request.mine = "ranked"
  /\ request' = [request EXCEPT !.at = "answered"]
  /\ UNCHANGED <<stats, week, written>>

----------------------------------------------------------------------------
(* Beside it.                                                               *)

Written(u) ==
  IF request.at = "idle" THEN UNCHANGED written
  ELSE /\ request.at = "reading" /\ written' = written \cup {u}
       /\ Cardinality(written') <= MaxWrites

(* The first game of a week starts the weekly score anew. *)
Play(u, points) ==
  LET row == IF stats[u] = None THEN NewRow ELSE stats[u]
      weekly == points + IF row.week = week THEN row.weekly ELSE 0
  IN /\ row.active /\ row.allTime + points <= MaxScore
     /\ stats' = [stats EXCEPT ![u] =
          [row EXCEPT !.weekly = weekly, !.week = week, !.allTime = @ + points, !.games = 1]]
     /\ Written(u) /\ UNCHANGED <<week, request>>

(* A login creates the row, too, to keep its streak. *)
Login(u) ==
  /\ stats[u] = None
  /\ stats' = [stats EXCEPT ![u] = NewRow]
  /\ Written(u) /\ UNCHANGED <<week, request>>

SetActive(u) ==
  /\ stats[u] # None
  /\ stats' = [stats EXCEPT ![u].active = ~@]
  /\ Written(u) /\ UNCHANGED <<week, request>>

Delete(u) ==
  /\ stats[u] # None
  /\ stats' = [stats EXCEPT ![u] = None]
  /\ Written(u) /\ UNCHANGED <<week, request>>

WeekPasses ==
  /\ week < MaxWeek /\ week' = week + 1
  /\ UNCHANGED <<stats, request, written>>

Init == stats = [u \in UserIds |-> None] /\ week = 0 /\ request = NoRequest /\ written = {}

Next ==
  \/ \E user \in Askers \cup {None}, period \in Periods : Ask(user, period)
  \/ ReadList \/ ReadMine \/ CountHigher \/ Answer
  \/ \E u \in UserIds : \/ \E points \in 0 .. MaxScore : Play(u, points)
                      \/ Login(u) \/ SetActive(u) \/ Delete(u)
  \/ WeekPasses

Spec == Init /\ [][Next]_vars

----------------------------------------------------------------------------
Apart(a, b) == IF a < b THEN b - a ELSE a - b

(* The ranks of a list are those of its scores, each a user of its own. The *)
(* rank of a user whose own row was not written meanwhile is off the one in *)
(* the list by at most the number of rows that were. When none was, a user  *)
(* beyond the list ranks at least where the list ends, and one without a    *)
(* rank is not listed.                                                      *)
RanksAgree ==
  request.at = "answered" =>
    LET list == request.list
        listed == {i \in DOMAIN list : list[i].user = request.user}
    IN /\ \A i \in DOMAIN list :
            list[i].rank = 1 + Cardinality({j \in DOMAIN list : list[j].score > list[i].score})
       /\ \A i, j \in DOMAIN list : i # j => list[i].user # list[j].user
       /\ request.user \notin written =>
            \A i \in listed :
              request.myRank # None /\ Apart(request.myRank, list[i].rank) <= Cardinality(written)
       /\ written = {} /\ listed = {} /\ request.myRank # None =>
            Len(list) = Limit /\ request.myRank >= list[Limit].rank
=============================================================================
