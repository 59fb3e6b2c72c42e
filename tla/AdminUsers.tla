----------------------------- MODULE AdminUsers -----------------------------
(***************************************************************************)
(* The administrators' list of users, read page by page with a cursor that *)
(* is the id of the last user shown, while users register, are changed and *)
(* are deleted between the pages.                                          *)
(***************************************************************************)
EXTENDS Integers, Sequences, FiniteSets

CONSTANTS
  Ids,        \* ids of users, numbers because the list is ordered by them
  MaxTime,    \* bound on createdAt
  Limits,     \* limits a request may ask for
  MaxLimit,   \* ADMIN_USERS_MAX_LIMIT
  MaxChanges, \* bound on the changes made meanwhile
  None        \* no row, no cursor, no filter

AdminUsersAssumption ==
  /\ Ids \subseteq Nat /\ IsFiniteSet(Ids) /\ None \notin Ids /\ MaxTime \in Nat /\ MaxLimit \in Nat \ {0} /\ MaxChanges \in Nat
  /\ Limits \subseteq Int

VARIABLES
  table,   \* the users table: createdAt, role, isActive
  clock,   \* the time of the next registration
  changes, \* changes so far
  walk     \* the list being read: its filters, cursor, the users shown

vars == <<table, clock, changes, walk>>

UserRows == [at : 0 .. MaxTime, role : {"USER", "ADMIN"}, active : BOOLEAN]
Held == {u \in Ids : table[u] # None}

(* A place in the list: orderBy createdAt desc, id desc. *)
Before(a, b) == a.at > b.at \/ (a.at = b.at /\ a.id > b.id)
Place(u) == [id |-> u, at |-> table[u].at]

(* normalizeLimit *)
NormalizeLimit(asked) == IF asked < 1 THEN 1 ELSE IF asked > MaxLimit THEN MaxLimit ELSE asked

Matches(row, filter) ==
  /\ row # None
  /\ filter.role # None => row.role = filter.role
  /\ filter.status # None => row.active = (filter.status = "active")

(* Mutant: the cursor compares only createdAt. *)
AfterTime(u, cursor) == cursor = None \/ table[u].at < table[cursor].at

(* buildAdminUsersWhere: what lies after the cursor. *)
After(u, cursor) == cursor = None \/ Before(Place(cursor), Place(u))

Wanted(filter, cursor) == {u \in Held : Matches(table[u], filter) /\ After(u, cursor)}

(* The rows of a query are all it wants, in the order of the list. *)
Lists(rows, users) ==
  /\ users = {rows[i] : i \in DOMAIN rows}
  /\ \A i, j \in DOMAIN rows : i < j => Before(Place(rows[i]), Place(rows[j]))

(* getAdminUsers: one row more than asked for tells whether there is a next page. *)
Page(rows, limit) ==
  IF Len(rows) > limit THEN [users |-> SubSeq(rows, 1, limit), next |-> rows[limit]]
                       ELSE [users |-> rows, next |-> None]

----------------------------------------------------------------------------
(* A list begins: nobody shown, and everybody steady so far. *)
Begin ==
  /\ walk = None
  /\ \E role \in {"USER", "ADMIN", None}, status \in {"active", "suspended", "deleted", None} :
       walk' = [filter |-> [role |-> role, status |-> status], cursor |-> None, shown |-> <<>>,
                end |-> "more",
                steady |-> {u \in Held : Matches(table[u], [role |-> role, status |-> status])}]
  /\ UNCHANGED <<table, clock, changes>>

(* No user has status deleted; a cursor whose user is gone is refused. *)
ReadPage ==
  /\ walk # None /\ walk.end = "more"
  /\ IF walk.filter.status = "deleted" THEN walk' = [walk EXCEPT !.end = "done", !.steady = {}]
     ELSE IF walk.cursor # None /\ table[walk.cursor] = None THEN walk' = [walk EXCEPT !.end = "refused"]
     ELSE LET wanted == Wanted(walk.filter, walk.cursor)
          IN \E asked \in Limits, rows \in [1 .. Cardinality(wanted) -> wanted] :
               /\ Lists(rows, wanted)
               /\ LET page == Page(rows, NormalizeLimit(asked))
                  IN walk' = [walk EXCEPT !.shown = @ \o [i \in DOMAIN page.users |-> Place(page.users[i])],
                                          !.cursor = page.next,
                                          !.end = IF page.next = None THEN "done" ELSE "more"]
  /\ UNCHANGED <<table, clock, changes>>

(* Others: a registration, a suspension, a role change, a deletion. An id is *)
(* never used again.                                                        *)
Change(u, row) ==
  /\ walk # None /\ changes < MaxChanges
  /\ table' = [table EXCEPT ![u] = row]
  /\ changes' = changes + 1
  /\ walk' = [walk EXCEPT !.steady = {v \in @ : v # u \/ Matches(row, walk.filter)}]

Register(u) ==
  /\ table[u] = None /\ walk # None
  /\ \A i \in DOMAIN walk.shown : walk.shown[i].id # u
  /\ Change(u, [at |-> clock, role |-> "USER", active |-> TRUE])
  /\ UNCHANGED clock

Alter(u) ==
  /\ table[u] # None
  /\ \/ Change(u, [table[u] EXCEPT !.active = ~@])
     \/ Change(u, [table[u] EXCEPT !.role = IF @ = "USER" THEN "ADMIN" ELSE "USER"])
     \/ Change(u, None)
  /\ UNCHANGED clock

Tick ==
  /\ clock < MaxTime
  /\ clock' = clock + 1
  /\ UNCHANGED <<table, changes, walk>>

Init ==
  /\ clock = MaxTime - 1
  /\ table \in [Ids -> {row \in UserRows : row.at <= MaxTime - 1} \cup {None}]
  /\ changes = 0
  /\ walk = None

Next == Begin \/ ReadPage \/ Tick \/ \E u \in Ids : Register(u) \/ Alter(u)

Spec == Init /\ [][Next]_vars

----------------------------------------------------------------------------
(* Whatever happens between the pages, the list shows nobody twice, in one   *)
(* order over all its pages, and once it ends it has shown everybody who     *)
(* belonged to it all the time (getAdminUsers, buildAdminUsersWhere).        *)
ListsEveryoneOnce ==
  walk # None =>
    /\ \A i, j \in DOMAIN walk.shown : i < j => Before(walk.shown[i], walk.shown[j])
    /\ walk.end = "done" => walk.steady \subseteq {walk.shown[i].id : i \in DOMAIN walk.shown}
=============================================================================
