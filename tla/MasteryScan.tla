---------------------------- MODULE MasteryScan ----------------------------
(***************************************************************************)
(* getElementMasteryStatusMap (backend/src/services/element-mastery        *)
(* .service.ts): the sessions of a user are read newest first, page by     *)
(* page and by offset, until every element asked for has its two latest    *)
(* outcomes. Other requests of the user save sessions between two pages.   *)
(***************************************************************************)
EXTENDS Integers, FiniteSets, Sequences, SequencesExt

CONSTANTS
  Elements,
  PageSize,    \* GAME_SESSION_PAGE_SIZE
  MaxSessions  \* bound on the sessions of the user

MasteryScanAssumption == PageSize \in Nat \ {0} /\ MaxSessions \in Nat

VARIABLES
  sessions,  \* newest first: for each element whether its answers were right, {} when not asked
  scan,      \* the request: offset, elements that need answers, outcomes read so far, status
  begun      \* the number of sessions when the request began

vars == <<sessions, scan, begun>>

RequiredConsecutiveCorrectCount == 2

Idle == [at |-> "idle", skip |-> 0, needing |-> {}, more |-> FALSE,
         recent |-> [e \in {} |-> <<>>], status |-> [e \in {} |-> "unlearned"]]

(* summarizeSessionAnswersByElement: right when every answer is. *)
Outcome(answers) == FALSE \notin answers

(* The sessions of a page that ask for an element, and the k-th of them.    *)
Asked(page, e) == {i \in DOMAIN page : page[i][e] # {}}
Kth(places, k) == CHOOSE i \in places : Cardinality({j \in places : j < i}) = k - 1

Outcomes(page, e) ==
  [k \in 1 .. Cardinality(Asked(page, e)) |-> Outcome(page[Kth(Asked(page, e), k)][e])]

FirstTwo(outcomes) == SubSeq(outcomes, 1, RequiredConsecutiveCorrectCount)

Latest(outcomes) ==
  IF Len(outcomes) < RequiredConsecutiveCorrectCount THEN outcomes ELSE FirstTwo(outcomes)

(* resolveMasteryStatus. *)
Status(outcomes) ==
  IF outcomes = <<>> THEN "unlearned"
  ELSE IF Len(outcomes) = RequiredConsecutiveCorrectCount /\ FALSE \notin ToSet(outcomes)
  THEN "mastered" ELSE "learning"

StartScan(targets) ==
  /\ scan.at # "reading" /\ begun' = Len(sessions)
  /\ scan' = [at |-> "reading", skip |-> 0, needing |-> targets, more |-> TRUE,
              recent |-> [e \in targets |-> <<>>], status |-> [e \in {} |-> "unlearned"]]
  /\ UNCHANGED sessions

(* Mutant: the next page begins at the last session of this one. *)
OffsetOverlapping(page) == scan.skip + Len(page) - 1

Offset(page) == scan.skip + Len(page)

(* One findMany and what is kept of its page. *)
ReadPage ==
  /\ scan.at = "reading" /\ scan.needing # {} /\ scan.more
  /\ LET rest == SubSeq(sessions, scan.skip + 1, Len(sessions))
         page == IF Len(rest) < PageSize THEN rest ELSE SubSeq(rest, 1, PageSize)
         recent == [e \in DOMAIN scan.recent |->
                      IF e \in scan.needing THEN Latest(scan.recent[e] \o Outcomes(page, e))
                      ELSE scan.recent[e]]
     IN scan' = [scan EXCEPT !.skip = Offset(page), !.more = Len(page) = PageSize, !.recent = recent,
                  !.needing = {e \in @ : Len(recent[e]) < RequiredConsecutiveCorrectCount}]
  /\ UNCHANGED <<sessions, begun>>

Report ==
  /\ scan.at = "reading" /\ (scan.needing = {} \/ ~scan.more)
  /\ scan' = [scan EXCEPT !.at = "done", !.needing = {}, !.more = FALSE, !.skip = 0,
                !.status = [e \in DOMAIN scan.recent |-> Status(scan.recent[e])]]
  /\ UNCHANGED <<sessions, begun>>

(* Another request of the user commits a session. *)
Save(session) ==
  /\ Len(sessions) < MaxSessions
  /\ sessions' = <<session>> \o sessions
  /\ UNCHANGED <<scan, begun>>

Init == sessions = <<>> /\ scan = Idle /\ begun = 0

Next ==
  \/ \E targets \in SUBSET Elements \ {{}} : StartScan(targets)
  \/ ReadPage \/ Report
  \/ \E session \in [Elements -> SUBSET BOOLEAN] : Save(session)

Spec == Init /\ [][Next]_vars

(* The status the history gives an element: docs/04_api.md, mastered when   *)
(* its two latest outcomes are right.                                       *)
StatusNow(e) == Status(Latest(Outcomes(sessions, e)))

(* The same when only the k oldest sessions had been saved.                 *)
OutcomesAt(e, k) == Outcomes(SubSeq(sessions, Len(sessions) - k + 1, Len(sessions)), e)

(* Whatever the page borders, the pages give each element the status of its *)
(* history when nothing was saved meanwhile. When something was, a status   *)
(* is still never out of nothing: "unlearned" had no answer at the start,   *)
(* "mastered" was right the last time it was asked, at some moment since,   *)
(* and "learning" was at some moment since not mastered.                    *)
ScanAgrees ==
  scan.at = "done" =>
    \A e \in DOMAIN scan.status :
      /\ Len(sessions) = begun => scan.status[e] = StatusNow(e)
      /\ scan.status[e] = "unlearned" => OutcomesAt(e, begun) = <<>>
      /\ scan.status[e] # "unlearned" => Outcomes(sessions, e) # <<>>
      /\ scan.status[e] = "mastered" =>
           \E k \in begun .. Len(sessions) : OutcomesAt(e, k) # <<>> /\ OutcomesAt(e, k)[1]
      /\ scan.status[e] = "learning" =>
           \E k \in begun .. Len(sessions) : Status(Latest(OutcomesAt(e, k))) # "mastered"

(* Mastered are elements with two right sessions (docs/04_api.md). Violated: *)
(* a session saved between two pages moves the last session of the first     *)
(* page to the second, where it is counted once more.                        *)
MasteredTwice ==
  scan.at = "done" =>
    \A e \in DOMAIN scan.status :
      scan.status[e] = "mastered" =>
        Len(SelectSeq(Outcomes(sessions, e), LAMBDA right : right)) >= 2
=============================================================================
