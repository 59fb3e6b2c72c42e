---------------------------- MODULE QuestionSet ----------------------------
(***************************************************************************)
(* How a game's questions are drawn, how its answers are scored and how    *)
(* its result is read back: the algorithms of game.service.ts, one draw    *)
(* of a random index at a time.                                            *)
(***************************************************************************)
EXTENDS Integers, Sequences, SequencesExt, FiniteSets, Functions

CONSTANTS
  Band,          \* the elements of a normal mode, 1..Band, by id
  WeakLists,     \* the weak lists a user may have, latest first
  QuestionCount, \* GAME_QUESTION_COUNT
  ChoiceCount,   \* GAME_CHOICE_COUNT
  MinWeak,       \* MIN_WEAK_ELEMENTS_FOR_GAME
  None           \* no answer

QuestionSetAssumption ==
  /\ Band \in Nat /\ QuestionCount \in Nat /\ ChoiceCount \in Nat /\ MinWeak \in Nat
  /\ Band >= ChoiceCount /\ MinWeak >= ChoiceCount
  /\ WeakLists \subseteq Seq(Nat \ {0})
  /\ \A list \in WeakLists : \A i, j \in 1 .. Len(list) : list[i] = list[j] => i = j
  /\ None \notin Nat

PointsPerHit == 100
Indexes == 1 .. QuestionCount

VARIABLES
  phase,      \* where the game is
  candidates, \* the elements asked for, in the order the query gives them
  remaining,  \* those not drawn yet
  drawn,      \* the elements drawn
  questions,  \* the stored questions: element and choices
  sent,       \* what the player chose for each question
  results,    \* the results of the submission, in the order of the questions
  saved,      \* the rows of the answers
  restored    \* the result read back

vars == <<phase, candidates, remaining, drawn, questions, sent, results, saved, restored>>

----------------------------------------------------------------------------
(* getCandidateElements *)
Start ==
  /\ phase = "start"
  /\ \E list \in {[i \in 1 .. Band |-> i]} \cup WeakLists :
       IF list \in WeakLists /\ Len(list) < MinWeak
         THEN phase' = "refused" /\ UNCHANGED <<candidates, remaining>>
         ELSE phase' = "draw" /\ candidates' = list /\ remaining' = list
  /\ UNCHANGED <<drawn, questions, sent, results, saved, restored>>

(* Mutant: the element drawn is not taken out. *)
DrawAgain ==
  /\ phase = "draw" /\ remaining # <<>> /\ Len(drawn) < QuestionCount
  /\ \E i \in 1 .. Len(remaining) :
       /\ drawn' = Append(drawn, remaining[i])
       /\ remaining' = Tail(remaining)
  /\ UNCHANGED <<phase, candidates, questions, sent, results, saved, restored>>

(* buildQuestionElements: draws without replacement ... *)
Draw ==
  /\ phase = "draw" /\ remaining # <<>> /\ Len(drawn) < QuestionCount
  /\ \E i \in 1 .. Len(remaining) :
       /\ drawn' = Append(drawn, remaining[i])
       /\ remaining' = RemoveAt(remaining, i)
  /\ UNCHANGED <<phase, candidates, questions, sent, results, saved, restored>>

(* ... and goes round when there are fewer elements than questions. *)
Element(i) == drawn[((i - 1) % Len(drawn)) + 1]

(* The k-th of a set of places. *)
Kth(places, k) == CHOOSE i \in places : Cardinality({j \in places : j < i}) = k - 1

(* buildChoices: the first other candidates, the right one put among them. *)
BuildChoices(e, at) ==
  LET places == {i \in DOMAIN candidates : candidates[i] # e}
      others == [k \in 1 .. Cardinality(places) |-> candidates[Kth(places, k)]]
  IN InsertAt(SubSeq(others, 1, ChoiceCount - 1), at, e)

BuildQuestion ==
  /\ phase = "draw" /\ (remaining = <<>> \/ Len(drawn) = QuestionCount)
  /\ Len(questions) < QuestionCount
  /\ \E at \in 1 .. ChoiceCount :
       LET e == Element(Len(questions) + 1)
       IN questions' = Append(questions, [element |-> e, choices |-> BuildChoices(e, at)])
  /\ phase' = IF Len(questions') = QuestionCount THEN "answer" ELSE phase
  /\ UNCHANGED <<candidates, remaining, drawn, sent, results, saved, restored>>

----------------------------------------------------------------------------
(* An answer to question q: the right choice, a wrong one, none in time, or  *)
(* an id that is not among the choices.                                     *)
Choice(q, kind) ==
  CASE kind = "right" -> questions[q].element
    [] kind = "wrong" -> CHOOSE c \in ToSet(questions[q].choices) : c # questions[q].element
    [] kind = "none"  -> None
    [] kind = "other" -> 0

(* The questions answered: each once in some order, or one of them twice,   *)
(* one unknown, one left out.                                               *)
Orders == {p \in [Indexes -> Indexes] : \A i, j \in Indexes : p[i] = p[j] => i = j}
Orderings ==
  Orders \cup {[p EXCEPT ![1] = p[2]] : p \in Orders} \cup {[p EXCEPT ![1] = 0] : p \in Orders}
         \cup {SubSeq(p, 1, QuestionCount - 1) : p \in Orders}

(* validateAnswerSet and the choices buildSessionResults looks up. *)
Accepted(answers) ==
  /\ Len(answers) = QuestionCount
  /\ \A i \in DOMAIN answers :
       /\ answers[i].question \in Indexes
       /\ \A j \in 1 .. i - 1 : answers[j].question # answers[i].question
       /\ answers[i].chosen # None =>
            Contains(questions[answers[i].question].choices, answers[i].chosen)

(* Mutant: the answers are taken in the order they were sent. *)
ResultsAsSent(answers) ==
  [q \in Indexes |->
     LET a == answers[q]
     IN [question |-> q, element |-> questions[q].element, chosen |-> a.chosen,
         correct |-> a.chosen = questions[q].element,
         score |-> IF a.chosen = questions[q].element THEN PointsPerHit ELSE 0]]

(* buildSessionResults: the answer to each question, by its id. *)
Results(answers) ==
  [q \in Indexes |->
     LET a == CHOOSE x \in ToSet(answers) : x.question = q
     IN [question |-> q, element |-> questions[q].element, chosen |-> a.chosen,
         correct |-> a.chosen = questions[q].element,
         score |-> IF a.chosen = questions[q].element THEN PointsPerHit ELSE 0]]

(* calculateMaxStreak: <<the streak so far, the longest>> over the results. *)
CountStreak(streak, result) ==
  IF result.correct
    THEN <<streak[1] + 1, IF streak[1] + 1 > streak[2] THEN streak[1] + 1 ELSE streak[2]>>
    ELSE <<0, streak[2]>>

MaxStreak(rs) ==
  LET count[i \in 0 .. Len(rs)] == IF i = 0 THEN <<0, 0>> ELSE CountStreak(count[i - 1], rs[i])
  IN count[Len(rs)][2]

Hits(rs) == Cardinality({q \in DOMAIN rs : rs[q].correct})

(* What submitGameSession answers and saves of a game. *)
Summary(rs) ==
  [correctCount |-> Hits(rs), totalCount |-> Len(rs), maxStreak |-> MaxStreak(rs),
   totalScore |-> SumFunction([q \in DOMAIN rs |-> rs[q].score]), results |-> rs]

Submit ==
  /\ phase = "answer"
  /\ \E order \in Orderings, kind \in [Indexes -> {"right", "wrong", "none", "other"}] :
       LET answers == [i \in 1 .. Len(order) |->
                         [question |-> order[i],
                          chosen |-> IF order[i] = 0 THEN None ELSE Choice(order[i], kind[order[i]])]]
       IN IF Accepted(answers)
            THEN /\ phase' = "saved"
                 /\ sent' = [q \in Indexes |-> Choice(q, kind[q])]
                 /\ results' = Summary(Results(answers))
                 /\ saved' = {[index |-> q, row |-> Results(answers)[q]] : q \in Indexes}
            ELSE phase' = "invalid" /\ UNCHANGED <<sent, results, saved>>
  /\ UNCHANGED <<candidates, remaining, drawn, questions, restored>>

(* getGameSessionResult: the rows sorted by their index, the saved totals. *)
Restore ==
  /\ phase = "saved"
  /\ LET sorted(i) == CHOOSE r \in saved : Cardinality({x \in saved : x.index < r.index}) = i - 1
     IN restored' = [results EXCEPT !.results = [i \in 1 .. Cardinality(saved) |-> sorted(i).row]]
  /\ phase' = "restored"
  /\ UNCHANGED <<candidates, remaining, drawn, questions, sent, results, saved>>

----------------------------------------------------------------------------
Init ==
  /\ phase = "start"
  /\ candidates = <<>> /\ remaining = <<>> /\ drawn = <<>> /\ questions = <<>>
  /\ sent = None /\ results = None /\ saved = {} /\ restored = None

Next == Start \/ Draw \/ BuildQuestion \/ Submit \/ Restore

Spec == Init /\ [][Next]_vars

----------------------------------------------------------------------------
Times(e) == Cardinality({q \in Indexes : questions[q].element = e})

(* A run of right answers. *)
Run(rs, first, last) == \A q \in first .. last : rs[q].correct

(* The questions are fair and the score is right: as many different elements *)
(* as there can be, none asked two times more than another, each question    *)
(* with as many different choices of its own list as it should have and the  *)
(* right one among them; the result counts each answer against its own       *)
(* question in whatever order it was sent, its streak is the longest run,    *)
(* and reading it back gives the same (buildStoredQuestions,                 *)
(* buildSessionResults, calculateMaxStreak, getGameSessionResult).           *)
FairAndRight ==
  /\ phase \in {"answer", "saved", "restored"} =>
       /\ \A d, e \in ToSet(candidates) :
            Times(d) - Times(e) \in -1 .. 1
       /\ \A q \in Indexes :
            LET choices == questions[q].choices
            IN /\ Cardinality(ToSet(choices)) = ChoiceCount /\ Len(choices) = ChoiceCount
               /\ ToSet(choices) \subseteq ToSet(candidates)
               /\ questions[q].element \in ToSet(choices)
  /\ phase \in {"saved", "restored"} =>
       /\ \A q \in Indexes :
            /\ results.results[q].element = questions[q].element
            /\ results.results[q].chosen = sent[q]
            /\ results.results[q].correct <=> sent[q] = questions[q].element
       /\ results.totalScore = PointsPerHit * Cardinality({q \in Indexes : results.results[q].correct})
       /\ results.maxStreak =
            CHOOSE n \in 0 .. QuestionCount :
              /\ n = 0 \/ \E q \in Indexes : q + n - 1 <= QuestionCount /\ Run(results.results, q, q + n - 1)
              /\ \A q \in Indexes : q + n <= QuestionCount => ~Run(results.results, q, q + n)
  /\ phase = "restored" => restored = results
=============================================================================
