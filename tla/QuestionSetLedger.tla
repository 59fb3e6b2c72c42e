------------------------- MODULE QuestionSetLedger -------------------------
(***************************************************************************)
(* What the game service promises about question sets: a set is issued,    *)
(* then either scored once or dropped, and the user's totals move exactly  *)
(* when a set is scored, by that set's answers.                            *)
(***************************************************************************)
EXTENDS Naturals

CONSTANTS
  SetIds,         \* ids a question set may get
  QuestionCount,  \* questions of a set
  PointsPerHit    \* score of a right answer

VARIABLES
  status,  \* life of each question set
  totals   \* games, right answers, answers and score of the user

ledger == <<status, totals>>

Statuses == {"unissued", "open", "scored", "dropped"}

Init ==
  /\ status = [s \in SetIds |-> "unissued"]
  /\ totals = [games |-> 0, correct |-> 0, answered |-> 0, score |-> 0]

Issue(s) ==
  /\ status[s] = "unissued"
  /\ status' = [status EXCEPT ![s] = "open"]
  /\ UNCHANGED totals

Score(s, hits) ==
  /\ status[s] = "open"
  /\ status' = [status EXCEPT ![s] = "scored"]
  /\ totals' = [games |-> totals.games + 1,
                correct |-> totals.correct + hits,
                answered |-> totals.answered + QuestionCount,
                score |-> totals.score + PointsPerHit * hits]

Drop(S) ==
  /\ \A s \in S : status[s] = "open"
  /\ status' = [s \in SetIds |-> IF s \in S THEN "dropped" ELSE status[s]]
  /\ UNCHANGED totals

Next ==
  \/ \E s \in SetIds : Issue(s)
  \/ \E s \in SetIds, hits \in 0 .. QuestionCount : Score(s, hits)
  \/ \E S \in SUBSET SetIds : Drop(S)

Spec == Init /\ [][Next]_ledger
=============================================================================
