------------------------------ MODULE Fixtures ------------------------------
(***************************************************************************)
(* The fixed synthetic users of staging (the three of the clean-up job's   *)
(* rehearsal, the two of the administration end-to-end test): prepare      *)
(* replaces them, remove deletes them, both in one READ COMMITTED          *)
(* transaction of several statements, while the tests, the clean-up job    *)
(* and other users change the table between the statements.                *)
(***************************************************************************)
EXTENDS Integers, FiniteSets

CONSTANTS
  Names,    \* the identifiers of the fixtures
  Workers,  \* commands that may run at the same time
  MaxMoves, \* bound on the changes others make
  None      \* no row

(* A row under a fixture's identifiers is exactly the fixture, or a fixture *)
(* that a test has changed, or somebody else's account.                     *)
FixtureRows == {"exact", "changed", "foreign"}

FixturesAssumption ==
  /\ IsFiniteSet(Names) /\ MaxMoves \in Nat
  /\ None \notin Workers /\ None \notin FixtureRows \cup {"refused", "done"}

VARIABLES
  table,  \* per identifier, the row that holds it
  work,   \* per worker, its command, its step and what it found
  moves   \* changes made by others

vars == <<table, work, moves>>

Idle == [cmd |-> None, at |-> "idle", found |-> {}, deleted |-> {}, result |-> None]
Goto(w, at) == work' = [work EXCEPT ![w].at = at]
Held == {n \in Names : table[n] # None}
Exact == {n \in Names : table[n] = "exact"}

(* A row one transaction has deleted and not committed keeps the others waiting. *)
Blocked(w, n) == \E v \in Workers \ {w} : n \in work[v].deleted

Refuse(w) == work' = [work EXCEPT ![w] = [Idle EXCEPT !.cmd = work[w].cmd, !.at = "done", !.result = "refused"]]

(* A worker's own view: its uncommitted deletions are gone. *)
View(w) == Held \ work[w].deleted

Begin(w, cmd) ==
  /\ work[w].at = "idle"
  /\ work' = [work EXCEPT ![w] = [Idle EXCEPT !.cmd = cmd, !.at = "find"]]
  /\ UNCHANGED <<table, moves>>

(* findIdentifierRows and assertRowsAreExactFixtures. *)
Find(w) ==
  /\ work[w].at = "find"
  /\ IF Held \subseteq Exact
       THEN work' = [work EXCEPT ![w].found = Held, ![w].at = "delete"]
       ELSE Refuse(w)
  /\ UNCHANGED <<table, moves>>

(* Mutant: the count of the deletion is not looked at. *)
AnyNumber(w, deleted) == TRUE

(* deleteMany of the exact rows there are now; their number must be the     *)
(* number of rows found.                                                    *)
SameNumber(w, deleted) == Cardinality(deleted) = Cardinality(work[w].found)

Delete(w) ==
  /\ work[w].at = "delete"
  /\ \A n \in Exact : ~Blocked(w, n)
  /\ IF SameNumber(w, Exact)
       THEN work' = [work EXCEPT ![w].deleted = Exact,
                       ![w].at = IF work[w].cmd = "prepare" THEN "create" ELSE "commit"]
       ELSE Refuse(w)
  /\ UNCHANGED <<table, moves>>

(* createMany fails on an identifier that is taken; it waits for a row that *)
(* another transaction is about to delete.                                  *)
Create(w) ==
  /\ work[w].at = "create"
  /\ \A n \in Names : ~Blocked(w, n)
  /\ IF View(w) = {} THEN Goto(w, "commit") ELSE Refuse(w)
  /\ UNCHANGED <<table, moves>>

Commit(w) ==
  /\ work[w].at = "commit"
  /\ table' = [n \in Names |->
                 IF work[w].cmd = "prepare" THEN "exact"
                 ELSE IF n \in work[w].deleted THEN None ELSE table[n]]
  /\ work' = [work EXCEPT ![w] = [Idle EXCEPT !.cmd = work[w].cmd, !.at = "done", !.result = "done"]]
  /\ UNCHANGED moves

Again(w) ==
  /\ work[w].at = "done"
  /\ work' = [work EXCEPT ![w] = Idle]
  /\ UNCHANGED <<table, moves>>

(* Others: a test changes or deletes a fixture, the clean-up job deletes    *)
(* the legacy one, somebody registers under a free identifier.              *)
Creating(n) == \E w \in Workers : work[w].cmd = "prepare" /\ work[w].at = "commit"

Move(n) ==
  /\ moves < MaxMoves /\ ~Blocked(None, n) /\ ~Creating(n)
  /\ \/ table[n] = "exact" /\ table' = [table EXCEPT ![n] = "changed"]
     \/ table[n] \in {"exact", "changed"} /\ table' = [table EXCEPT ![n] = None]
     \/ table[n] = None /\ table' = [table EXCEPT ![n] = "foreign"]
  /\ moves' = moves + 1
  /\ UNCHANGED work

Init ==
  /\ table \in [Names -> FixtureRows \cup {None}]
  /\ work = [w \in Workers |-> Idle]
  /\ moves = 0

Worker(w) ==
  \/ \E cmd \in {"prepare", "remove"} : Begin(w, cmd)
  \/ Find(w) \/ Delete(w) \/ Create(w) \/ Commit(w) \/ Again(w)

Next == (\E w \in Workers : Worker(w)) \/ (\E n \in Names : Move(n))

Spec == Init /\ [][Next]_vars

----------------------------------------------------------------------------
(* Only the fixtures are replaced and removed, and all of them: whatever    *)
(* happens between the statements of a command, no commit takes away a row  *)
(* that is somebody else's or was changed, a preparation that reports       *)
(* success leaves every fixture as prepared, and a removal leaves none of   *)
(* those it found (prepare... and remove...Fixtures).                       *)
FixturesReplaced ==
  [][/\ \A n \in Names :
          table[n] \in {"changed", "foreign"} /\ table'[n] # table[n] => moves' = moves + 1
     /\ \A w \in Workers :
          work[w].at = "commit" /\ work'[w].result = "done" =>
            \/ work[w].cmd = "prepare" /\ \A n \in Names : table'[n] = "exact"
            \/ work[w].cmd = "remove" /\ \A n \in work[w].found : table'[n] # "exact"]_vars
=============================================================================
