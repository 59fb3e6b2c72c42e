------------------------------ MODULE Accounts ------------------------------
(***************************************************************************)
(* The users table under administration and self-service: suspension,      *)
(* reactivation, role change, forced deletion, self deletion, password     *)
(* change and the lock a failed login sets.                                *)
(*                                                                         *)
(* Every request first passes the authentication middleware, which reads   *)
(* the caller's row on its own; the mutation then runs later, most of them *)
(* as one SERIALIZABLE transaction that is retried once when PostgreSQL    *)
(* reports a serialization failure (Prisma's P2034).                       *)
(***************************************************************************)
EXTENDS Integers, FiniteSets

CONSTANTS
  Users,       \* ids of the registered users
  Admins,      \* the users whose role is ADMIN at the start
  Unverified,  \* the users who have not verified their address
  Lockable,    \* users whose login may fail the fifth time in a row
  Changers,    \* users who may change their password
  Requests,    \* requests served at the same time
  LockSpan,    \* how long such a lock lasts (LOCK_DURATION_MS)
  MaxClock,    \* bound on the clock
  MaxHash,     \* bound on the password changes of a user
  MaxOverlap,  \* bound on the rows written beside an open transaction
  NoRow        \* a row that does not exist

ASSUME AccountsAssumption ==
  /\ Admins \subseteq Users /\ Unverified \subseteq Users /\ Lockable \subseteq Users
  /\ Changers \subseteq Users
  /\ LockSpan \in Nat /\ MaxClock \in Nat /\ MaxHash \in Nat /\ MaxOverlap \in Nat
  /\ IsFiniteSet(Users)

MaxAttempts == 2
AdminKinds == {"suspend", "reactivate", "promote", "demote", "forceDelete"}
Kinds == AdminKinds \cup {"selfDelete", "changePassword", "failLogin"}
NotLocked == 0

VARIABLES
  clock,  \* the time new Date() returns
  user,   \* the users table; a password hash is a number, never used twice
  pc,     \* where a request is
  tx      \* the request and what its transaction has read

vars == <<clock, user, pc, tx>>

----------------------------------------------------------------------------
(* isUsableAccount and isUsableAdmin, and the rows getUsableAdminWhere finds. *)

UsableAccount(row, now) ==
  row # NoRow /\ row.active /\ row.verified /\ row.lockedUntil <= now

UsableAdmin(row, now) == UsableAccount(row, now) /\ row.role = "ADMIN"

UsableAdmins(table, now) == {u \in Users : UsableAdmin(table[u], now)}

Blank == [kind |-> "suspend", actor |-> NoRow, target |-> NoRow, hash |-> 0, attempt |-> 1,
          snap |-> [u \in Users |-> NoRow], print |-> NoRow, since |-> {}, touched |-> {}]

At(r, label) == pc[r] = label
Goto(r, label) == pc' = [pc EXCEPT ![r] = label]
Finish(r) == /\ pc' = [pc EXCEPT ![r] = "idle"]
             /\ tx' = [tx EXCEPT ![r] = Blank]

InTransaction(r) == pc[r] \in {"decide", "commit"}

----------------------------------------------------------------------------
After(row, kind) ==
  CASE kind = "suspend"     -> [row EXCEPT !.active = FALSE, !.lockedUntil = NotLocked]
    [] kind = "reactivate"  -> [row EXCEPT !.active = TRUE, !.lockedUntil = NotLocked]
    [] kind = "promote"     -> [row EXCEPT !.role = "ADMIN"]
    [] kind = "demote"      -> [row EXCEPT !.role = "USER"]
    [] kind \in {"forceDelete", "selfDelete"} -> NoRow

(* Removing a usable admin counts the usable admins of the snapshot. *)
Counts(t, now) ==
  /\ t.kind \in {"suspend", "demote", "forceDelete", "selfDelete"}
  /\ UsableAdmin(t.snap[t.target], now)

(* SERIALIZABLE. A transaction leaves a footprint: the rows it read by id,  *)
(* whether it counted the usable admins, the row it writes, and whether     *)
(* that write changes who is a usable admin.                                *)
Footprint(t, now) ==
  LET row == t.snap[t.target]
  IN [reads |-> IF t.kind = "forceDelete" THEN {t.actor, t.target} ELSE {t.target},
      counted |-> Counts(t, now),
      target |-> t.target,
      moves |-> UsableAdmin(row, now) # UsableAdmin(After(row, t.kind), now)]

(* Transaction a read what transaction b overwrites. *)
ReadBefore(a, b) == b.target \in a.reads \/ (a.counted /\ b.moves)

(* Mutant: PostgreSQL's default isolation level; only a vanished row fails. *)
ReadCommitted(r) == user[tx[r].target] = NoRow

(* When a commit must fail: another transaction has written the same row    *)
(* since the snapshot, or one that committed since would have to come both  *)
(* before and after this one. PostgreSQL also rejects longer cycles and     *)
(* some harmless commits; the model only relies on pairs.                   *)
MustFail(r) ==
  LET mine == tx[r].print
  IN \/ tx[r].target \in tx[r].touched
     \/ \E other \in tx[r].since : ReadBefore(mine, other) /\ ReadBefore(other, mine)

(* A write of row u that ends request r, seen by the other transactions. *)
Write(r, u, row, footprints) ==
  /\ user' = [user EXCEPT ![u] = row]
  /\ pc' = [pc EXCEPT ![r] = "idle"]
  /\ tx' = [q \in Requests |->
              IF q = r THEN Blank
              ELSE IF InTransaction(q)
                THEN [tx[q] EXCEPT !.since = @ \cup footprints, !.touched = @ \cup {u}]
                ELSE tx[q]]

----------------------------------------------------------------------------
(* A request arrives: the middleware finds the caller usable, and an ADMIN  *)
(* where the route asks for one; nobody administrates their own account.    *)
Receive(r, k, a, x) ==
  /\ At(r, "idle")
  /\ UsableAccount(user[a], clock)
  /\ IF k \in AdminKinds THEN user[a].role = "ADMIN" /\ a # x ELSE a = x
  /\ k = "failLogin" => a \in Lockable
  /\ k = "changePassword" => a \in Changers /\ user[a].hash < MaxHash
  /\ \A q \in Requests : Cardinality(tx[q].touched) < MaxOverlap
  /\ Goto(r, CASE k \in AdminKinds -> "begin"
               [] k = "failLogin"  -> "lock"
               [] OTHER            -> "verify")
  /\ tx' = [tx EXCEPT ![r] = [Blank EXCEPT !.kind = k, !.actor = a, !.target = x]]
  /\ UNCHANGED <<clock, user>>

(* deleteCurrentUser and changeCurrentPassword compare the password with    *)
(* the hash they read outside of any transaction.                           *)
VerifyPassword(r) ==
  /\ At(r, "verify")
  /\ IF user[tx[r].actor] = NoRow
       THEN Finish(r)
       ELSE /\ Goto(r, IF tx[r].kind = "selfDelete" THEN "begin" ELSE "replace")
            /\ tx' = [tx EXCEPT ![r].hash = user[tx[r].actor].hash]
  /\ UNCHANGED <<clock, user>>

(* changeCurrentPassword replaces the hash it has compared, or answers 409. *)
ReplaceHash(r) ==
  LET a == tx[r].actor
      row == user[a]
  IN /\ At(r, "replace")
     /\ IF row # NoRow /\ row.hash = tx[r].hash
          THEN Write(r, a, [row EXCEPT !.hash = row.hash + 1], {})
          ELSE Finish(r) /\ UNCHANGED user
     /\ UNCHANGED clock

(* login locks the account after the fifth wrong password; a row that is    *)
(* gone by then is P2025.                                                   *)
LockAccount(r) ==
  LET a == tx[r].actor
  IN /\ At(r, "lock")
     /\ IF user[a] # NoRow
          THEN Write(r, a, [user[a] EXCEPT !.lockedUntil = clock + LockSpan], {})
          ELSE Finish(r) /\ UNCHANGED user
     /\ UNCHANGED clock

(* The first statement of the transaction takes its snapshot ... *)
Begin(r) ==
  /\ At(r, "begin")
  /\ Goto(r, "decide")
  /\ tx' = [tx EXCEPT ![r].snap = user]
  /\ UNCHANGED <<clock, user>>

(* Mutant: the middleware's look at the actor is enough. *)
AcceptedUnchecked(t, now) ==
  LET row == t.snap[t.target]
  IN /\ row # NoRow
     /\ t.kind \in {"promote", "demote"} => row.active
     /\ t.kind = "selfDelete" => row.hash = t.hash /\ UsableAccount(row, now)
     /\ Counts(t, now) => Cardinality(UsableAdmins(t.snap, now)) > 1
     /\ t.kind = "promote" => row.verified

(* Mutant: the hash compared before the transaction is not compared again. *)
AcceptedOldPassword(t, now) ==
  LET row == t.snap[t.target]
  IN /\ row # NoRow
     /\ t.kind = "forceDelete" => UsableAdmin(t.snap[t.actor], now)
     /\ t.kind \in {"promote", "demote"} => row.active
     /\ t.kind = "selfDelete" => UsableAccount(row, now)
     /\ Counts(t, now) => Cardinality(UsableAdmins(t.snap, now)) > 1
     /\ t.kind = "promote" => row.verified

(* The checks of updateAdminUserStatus, updateAdminUserRole,                *)
(* forceDeleteAdminUser and deleteCurrentUser.                              *)
Accepted(t, now) ==
  LET row == t.snap[t.target]
  IN /\ row # NoRow
     /\ t.kind = "forceDelete" => UsableAdmin(t.snap[t.actor], now)
     /\ t.kind \in {"promote", "demote"} => row.active
     /\ t.kind = "selfDelete" => row.hash = t.hash /\ UsableAccount(row, now)
     /\ Counts(t, now) => Cardinality(UsableAdmins(t.snap, now)) > 1
     /\ t.kind = "promote" => row.verified

(* ... and its checks and its write follow, with one new Date(). *)
Decide(r) ==
  /\ At(r, "decide")
  /\ IF Accepted(tx[r], clock)
       THEN /\ Goto(r, "commit")
            /\ tx' = [tx EXCEPT ![r].print = Footprint(tx[r], clock),
                                ![r].snap = Blank.snap]
       ELSE Finish(r)
  /\ UNCHANGED <<clock, user>>

Commit(r) ==
  LET t == tx[r]
  IN /\ At(r, "commit")
     /\ ~MustFail(r)
     /\ Write(r, t.target, After(user[t.target], t.kind), {t.print})
     /\ UNCHANGED clock

(* Mutant: the retry does not count its attempts. *)
FailSerializationForever(r) ==
  /\ InTransaction(r)
  /\ Goto(r, "begin")
  /\ tx' = [tx EXCEPT ![r] = [Blank EXCEPT
               !.kind = tx[r].kind, !.actor = tx[r].actor, !.target = tx[r].target,
               !.hash = tx[r].hash, !.attempt = tx[r].attempt + 1]]
  /\ UNCHANGED <<clock, user>>

(* P2034: everything is read again, once; the second time it is a 409. Any *)
(* transaction on the table may cause it, also one that is not modelled (a *)
(* login, a username change).                                              *)
FailSerialization(r) ==
  /\ InTransaction(r)
  /\ IF tx[r].attempt < MaxAttempts
       THEN /\ Goto(r, "begin")
            /\ tx' = [tx EXCEPT ![r] = [Blank EXCEPT
                         !.kind = tx[r].kind, !.actor = tx[r].actor, !.target = tx[r].target,
                         !.hash = tx[r].hash, !.attempt = tx[r].attempt + 1]]
       ELSE Finish(r)
  /\ UNCHANGED <<clock, user>>

(* The transaction times out or its connection is lost. *)
Abandon(r) ==
  /\ ~At(r, "idle")
  /\ Finish(r)
  /\ UNCHANGED <<clock, user>>

Tick ==
  /\ clock < MaxClock
  /\ clock' = clock + 1
  /\ UNCHANGED <<user, pc, tx>>

----------------------------------------------------------------------------
Init ==
  /\ clock = 0
  /\ user = [u \in Users |->
               [role |-> IF u \in Admins THEN "ADMIN" ELSE "USER", active |-> TRUE,
                verified |-> u \notin Unverified, lockedUntil |-> NotLocked, hash |-> 0]]
  /\ pc = [r \in Requests |-> "idle"]
  /\ tx = [r \in Requests |-> Blank]

Next ==
  \/ \E r \in Requests :
       \/ \E k \in Kinds, a, x \in Users : Receive(r, k, a, x)
       \/ VerifyPassword(r) \/ ReplaceHash(r) \/ LockAccount(r)
       \/ Begin(r) \/ Decide(r) \/ Commit(r) \/ FailSerialization(r)
       \/ Abandon(r)
  \/ Tick

Spec == Init /\ [][Next]_vars

----------------------------------------------------------------------------
Labels == {"idle", "verify", "replace", "lock", "begin", "decide", "commit"}

Row == [role : {"ADMIN", "USER"}, active : BOOLEAN, verified : BOOLEAN,
        lockedUntil : Nat, hash : Nat]
Table == [Users -> Row \cup {NoRow}]
FootprintType == [reads : SUBSET Users, counted : BOOLEAN, target : Users, moves : BOOLEAN]
TxType == [kind : Kinds, actor : Users \cup {NoRow}, target : Users \cup {NoRow}, hash : Nat,
           attempt : 1 .. MaxAttempts, snap : Table, print : FootprintType \cup {NoRow},
           since : SUBSET FootprintType, touched : SUBSET Users]

(* NoRow marks an absent row and an absent user. *)
ASSUME NoRowAssumption == NoRow \notin Row \cup Users

TypeOK ==
  /\ clock \in Nat
  /\ user \in Table
  /\ pc \in [Requests -> Labels]
  /\ tx \in [Requests -> TxType]

----------------------------------------------------------------------------
Administrator(row) == row # NoRow /\ row.role = "ADMIN" /\ row.active /\ row.verified

(* However suspensions, demotions and deletions interleave, an active,     *)
(* verified administrator remains: the count of each of them and its write *)
(* are one serializable step (runAdminMutationTransaction).                *)
AdminRemains == \E u \in Users : Administrator(user[u])

Committing(r) == pc[r] = "commit" /\ pc'[r] = "idle" /\ user' # user

(* Whoever has another administrator deleted is an administrator when the  *)
(* deletion commits: two who delete each other do not both succeed, and    *)
(* one demoted meanwhile does not (forceDeleteAdminUser reads the actor).  *)
DeleterStays ==
  [][\A r \in Requests :
       /\ Committing(r) /\ tx[r].kind = "forceDelete"
       /\ Administrator(user[tx[r].target]) /\ user'[tx[r].target] = NoRow
       => Administrator(user[tx[r].actor])]_vars

(* A user's own deletion takes effect only on an active account that still *)
(* has the password the user typed, also on the second attempt.            *)
SelfDeleteKnowsPassword ==
  [][\A r \in Requests :
       /\ Committing(r) /\ tx[r].kind = "selfDelete"
       => LET row == user[tx[r].actor]
          IN row # NoRow /\ row.active /\ row.hash = tx[r].hash]_vars

(* No role changes on an account that has been suspended or deleted by the *)
(* time the change commits.                                                *)
RoleChangeOnActive ==
  [][\A u \in Users : user[u] # NoRow /\ user'[u] # NoRow /\ user'[u].role # user[u].role
       => user[u].active]_vars

(* A suspension, demotion or deletion that would leave no usable admin is   *)
(* refused with 409: the last one is protected, whatever locks are set      *)
(* beside the transaction.                                                 *)
RemovalKeepsAdmin ==
  [][\A r \in Requests :
       Committing(r) /\ UsableAdmins(user, clock) # {} => UsableAdmins(user', clock) # {}]_vars
=============================================================================
