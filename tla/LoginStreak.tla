---------------------------- MODULE LoginStreak ----------------------------
(***************************************************************************)
(* The login streak of a user (updateLoginStreak in backend/src/services/  *)
(* auth.service.ts). lastActiveDate is also written by every game that is  *)
(* saved, which leaves the streak alone. The update of the user's row, in  *)
(* the same transaction, keeps two logins apart; a transaction lasts       *)
(* seconds, so at most one midnight passes while it is under way.          *)
(***************************************************************************)
EXTENDS Integers, FiniteSets

CONSTANTS
  MaxDay,  \* bound on the days
  None

LoginStreakAssumption ==
  /\ MaxDay \in Nat
  /\ None \notin [streak : Nat, last : Nat]

VARIABLES
  day,     \* days since the account was made, UTC
  stats,   \* currentStreak and lastActiveDate, or None before the first login or game
  read,    \* the day and the row the login under way has read, or None
  games,   \* days on which the games under way began
  logins,  \* days with a login (observed by the properties only)
  active,  \* days with a login or a game (observed by the properties only)
  late     \* a game moved lastActiveDate back (observed by the properties only)

vars == <<day, stats, read, games, logins, active, late>>

LoginRead ==
  /\ read = None /\ read' = [today |-> day, stats |-> stats]
  /\ UNCHANGED <<day, stats, games, logins, active, late>>

(* Mutant: the day before yesterday will do. *)
NewStreakWithGaps(today, row) ==
  IF row # None /\ today - row.last \in {1, 2} THEN row.streak + 1 ELSE 1

NewStreak(today, row) == IF row # None /\ today - row.last = 1 THEN row.streak + 1 ELSE 1

(* Nothing is written when the row has the date of the day; otherwise the   *)
(* streak, as an absolute value, with the date of the write.                *)
LoginWrite ==
  /\ read # None /\ read' = None
  /\ stats' = IF read.stats # None /\ read.stats.last = read.today THEN stats
              ELSE [streak |-> NewStreak(read.today, read.stats), last |-> day]
  /\ logins' = logins \cup {read.today} /\ active' = active \cup {read.today, day}
  /\ UNCHANGED <<day, games, late>>

(* The transaction of the login is rolled back. *)
LoginFails ==
  /\ read # None /\ read' = None
  /\ UNCHANGED <<day, stats, games, logins, active, late>>

(* A submission begins: its now is taken. *)
GameBegins ==
  /\ games' = games \cup {day}
  /\ UNCHANGED <<day, stats, read, logins, active, late>>

(* The submission is saved: updateUserStatsForSession. *)
GameSaved(now) ==
  /\ now \in games /\ games' = games \ {now}
  /\ stats' = IF stats = None THEN [streak |-> 0, last |-> now] ELSE [stats EXCEPT !.last = now]
  /\ active' = active \cup {now}
  /\ late' = (late \/ (stats # None /\ now < stats.last))
  /\ UNCHANGED <<day, read, logins>>

Tick ==
  /\ day < MaxDay /\ (read # None => read.today = day) /\ games \subseteq {day}
  /\ day' = day + 1
  /\ UNCHANGED <<stats, read, games, logins, active, late>>

Init ==
  /\ day = 0 /\ stats = None /\ read = None /\ games = {}
  /\ logins = {} /\ active = {} /\ late = FALSE

Next ==
  \/ LoginRead \/ LoginWrite \/ LoginFails \/ GameBegins
  \/ \E now \in games : GameSaved(now)
  \/ Tick

Spec == Init /\ [][Next]_vars

(* However logins, games and midnights interleave, a streak counts a login  *)
(* day once, and beyond the first only when the day before it was active    *)
(* too, unless a game that began before midnight moved lastActiveDate back. *)
StreakEarned ==
  stats # None /\ ~late =>
    stats.streak <= 1 + Cardinality({d \in logins : d - 1 \in active})
=============================================================================
