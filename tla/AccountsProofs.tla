--------------------------- MODULE AccountsProofs ---------------------------
(***************************************************************************)
(* Proofs about Accounts, for any users, requests and bounds.              *)
(***************************************************************************)
EXTENDS Accounts, FiniteSetTheorems, TLAPS

TransactionKinds == AdminKinds \cup {"selfDelete"}

(* What a request carries from one step to the next. *)
Carried(r) ==
  /\ pc[r] # "idle" => tx[r].actor \in Users /\ tx[r].target \in Users
  /\ pc[r] \in {"begin", "decide", "commit"} => tx[r].kind \in TransactionKinds
  /\ tx[r].kind = "selfDelete" => tx[r].actor = tx[r].target

(* A snapshot is the table but for the rows written since. *)
Fresh(r) ==
  pc[r] = "decide" => \A u \in Users : u \notin tx[r].touched => tx[r].snap[u] = user[u]

(* What Decide has checked still holds of a row nobody has written since. *)
Checked(r) ==
  pc[r] = "commit" =>
    /\ tx[r].print \in FootprintType /\ tx[r].print.target = tx[r].target
    /\ tx[r].target \notin tx[r].touched =>
         LET row == user[tx[r].target]
         IN /\ row # NoRow
            /\ tx[r].kind = "selfDelete" => row.active /\ row.hash = tx[r].hash
            /\ tx[r].kind \in {"promote", "demote"} => row.active

IInv == TypeOK /\ \A r \in Requests : Carried(r) /\ Fresh(r) /\ Checked(r)

----------------------------------------------------------------------------
LEMMA BlankType == Blank \in TxType
BY DEF Blank, TxType, Kinds, AdminKinds, Table, MaxAttempts

LEMMA AfterType ==
  ASSUME NEW row \in Row, NEW k \in TransactionKinds
  PROVE  After(row, k) \in Row \cup {NoRow}
BY DEF After, Row, TransactionKinds, AdminKinds, NotLocked

LEMMA FootprintTyped ==
  ASSUME NEW t \in TxType, NEW now \in Nat, t.target \in Users, t.actor \in Users
  PROVE  Footprint(t, now) \in FootprintType /\ Footprint(t, now).target = t.target
<1>1. Counts(t, now) \in BOOLEAN
  BY DEF Counts
<1>2. \A a, b : (UsableAdmin(a, now) # UsableAdmin(b, now)) \in BOOLEAN
  OBVIOUS
<1> QED BY <1>1, <1>2 DEF Footprint, FootprintType

(* A write of one row keeps what every transaction relies on. *)
LEMMA WriteKeeps ==
  ASSUME IInv, NEW r \in Requests, NEW u \in Users, NEW row \in Row \cup {NoRow},
         NEW F \in SUBSET FootprintType, Write(r, u, row, F), UNCHANGED clock
  PROVE  IInv'
<1>1. /\ pc' = [pc EXCEPT ![r] = "idle"] /\ user' = [user EXCEPT ![u] = row]
      /\ pc'[r] = "idle" /\ tx'[r] = Blank
  BY DEF Write, IInv, TypeOK
<1>2. \A q \in Requests : q # r => pc'[q] = pc[q]
  BY <1>1 DEF IInv, TypeOK
<1>3. \A q \in Requests : q # r =>
        tx'[q] = IF InTransaction(q)
                   THEN [tx[q] EXCEPT !.since = @ \cup F, !.touched = @ \cup {u}] ELSE tx[q]
  BY DEF Write
<1>4. \A q \in Requests : q # r /\ InTransaction(q) =>
        /\ tx'[q].kind = tx[q].kind /\ tx'[q].actor = tx[q].actor
        /\ tx'[q].target = tx[q].target /\ tx'[q].hash = tx[q].hash
        /\ tx'[q].snap = tx[q].snap /\ tx'[q].print = tx[q].print
        /\ tx'[q].touched = tx[q].touched \cup {u}
  BY <1>3 DEF IInv, TypeOK, TxType
<1>5. TypeOK'
  <2>1. user' \in Table
    BY <1>1 DEF IInv, TypeOK, Table
  <2>2. \A q \in Requests : tx'[q] \in TxType
    <3>1. \A q \in Requests : tx[q] \in TxType
      BY DEF IInv, TypeOK
    <3>2. \A q \in Requests : [tx[q] EXCEPT !.since = @ \cup F, !.touched = @ \cup {u}] \in TxType
      BY <3>1 DEF TxType
    <3> QED BY <1>1, <1>3, <3>1, <3>2, BlankType
  <2>3. tx' \in [Requests -> TxType]
    BY <2>2 DEF Write
  <2> QED BY <1>1, <2>1, <2>3 DEF IInv, TypeOK, Labels
<1>6. ASSUME NEW q \in Requests PROVE Carried(q)' /\ Fresh(q)' /\ Checked(q)'
  <2>1. CASE q = r
    BY <1>1, <2>1 DEF Carried, Fresh, Checked, Blank
  <2>2. CASE q # r /\ ~InTransaction(q)
    BY <1>2, <1>3, <2>2 DEF IInv, Carried, Fresh, Checked, InTransaction
  <2>3. CASE q # r /\ InTransaction(q)
    <3>1. \A v \in Users : v \notin tx'[q].touched => user'[v] = user[v]
      BY <1>1, <1>4, <2>3 DEF IInv, TypeOK, Table
    <3>2. Carried(q)'
      BY <1>2, <1>4, <2>3 DEF IInv, Carried
    <3>3. Fresh(q)'
      BY <1>2, <1>4, <2>3, <3>1 DEF IInv, Fresh
    <3>4. Checked(q)'
      <4> SUFFICES ASSUME pc[q] = "commit" PROVE Checked(q)'
        BY <1>2, <2>3 DEF Checked
      <4>1. tx[q].target \in Users
        BY DEF IInv, Carried
      <4>2. tx'[q].target \notin tx'[q].touched =>
              tx[q].target \notin tx[q].touched /\ user'[tx[q].target] = user[tx[q].target]
        BY <1>4, <2>3, <3>1, <4>1
      <4> QED BY <1>4, <2>3, <4>2 DEF IInv, Checked
    <3> QED BY <3>2, <3>3, <3>4
  <2> QED BY <2>1, <2>2, <2>3
<1> QED BY <1>5, <1>6 DEF IInv

(* A step that leaves the table alone and moves one request. *)
LEMMA MoveKeeps ==
  ASSUME IInv, NEW r \in Requests, NEW l \in Labels, NEW t \in TxType,
         pc' = [pc EXCEPT ![r] = l], tx' = [tx EXCEPT ![r] = t], UNCHANGED <<clock, user>>,
         (Carried(r) /\ Fresh(r) /\ Checked(r))'
  PROVE  IInv'
<1>1. TypeOK'
  BY DEF IInv, TypeOK
<1>2. \A q \in Requests \ {r} : pc'[q] = pc[q] /\ tx'[q] = tx[q]
  BY DEF IInv, TypeOK
<1>3. \A q \in Requests \ {r} : (Carried(q) /\ Fresh(q) /\ Checked(q))'
  BY <1>2 DEF IInv, Carried, Fresh, Checked
<1> QED BY <1>1, <1>3 DEF IInv

LEMMA FinishKeeps ==
  ASSUME IInv, NEW r \in Requests, Finish(r), UNCHANGED <<clock, user>>
  PROVE  IInv'
<1>1. pc'[r] = "idle" /\ tx'[r] = Blank
  BY DEF Finish, IInv, TypeOK
<1>2. (Carried(r) /\ Fresh(r) /\ Checked(r))'
  BY <1>1 DEF Carried, Fresh, Checked, Blank
<1>3. "idle" \in Labels
  BY DEF Labels
<1> QED BY <1>2, <1>3, BlankType, MoveKeeps DEF Finish

----------------------------------------------------------------------------
LEMMA InitHolds == Init => IInv
<1> SUFFICES ASSUME Init PROVE IInv
  OBVIOUS
<1>1. TypeOK
  <2>1. user \in Table
    BY DEF Init, Table, Row, NotLocked
  <2> QED BY <2>1, BlankType DEF Init, TypeOK, Labels
<1>2. \A r \in Requests : Carried(r) /\ Fresh(r) /\ Checked(r)
  BY DEF Init, Blank, Carried, Fresh, Checked
<1> QED BY <1>1, <1>2 DEF IInv

LEMMA StepKeeps == IInv /\ [Next]_vars => IInv'
<1> SUFFICES ASSUME IInv, [Next]_vars PROVE IInv'
  OBVIOUS
<1> USE DEF At, Goto
<1>1. ASSUME NEW r \in Requests, NEW k \in Kinds, NEW a \in Users, NEW x \in Users,
             Receive(r, k, a, x)
      PROVE  IInv'
  <2> DEFINE l == CASE k \in AdminKinds -> "begin"
                    [] k = "failLogin"  -> "lock"
                    [] OTHER            -> "verify"
             t == [Blank EXCEPT !.kind = k, !.actor = a, !.target = x]
  <2>1. l \in Labels /\ l \in {"begin", "lock", "verify"} /\ (l = "begin" => k \in AdminKinds)
    BY DEF Labels
  <2>2. t \in TxType /\ t.kind = k /\ t.actor = a /\ t.target = x
    BY BlankType DEF TxType
  <2>3. k = "selfDelete" => a = x
    BY <1>1 DEF Receive, AdminKinds
  <2>4. pc' = [pc EXCEPT ![r] = l] /\ tx' = [tx EXCEPT ![r] = t] /\ UNCHANGED <<clock, user>>
    BY <1>1 DEF Receive
  <2>5. pc'[r] = l /\ tx'[r] = t
    BY <2>4 DEF IInv, TypeOK
  <2> HIDE DEF l, t
  <2>6. (Carried(r) /\ Fresh(r) /\ Checked(r))'
    BY <2>1, <2>2, <2>3, <2>5 DEF Carried, Fresh, Checked, TransactionKinds
  <2> QED BY <2>1, <2>2, <2>4, <2>6, MoveKeeps
<1>2. ASSUME NEW r \in Requests, VerifyPassword(r) PROVE IInv'
  <2>1. CASE user[tx[r].actor] = NoRow
    BY <1>2, <2>1, FinishKeeps DEF VerifyPassword
  <2>2. CASE user[tx[r].actor] # NoRow
    <3> DEFINE l == IF tx[r].kind = "selfDelete" THEN "begin" ELSE "replace"
               t == [tx[r] EXCEPT !.hash = user[tx[r].actor].hash]
    <3>1. pc[r] = "verify" /\ tx[r].actor \in Users /\ tx[r].target \in Users
      BY <1>2 DEF VerifyPassword, IInv, Carried
    <3>2. user[tx[r].actor].hash \in Nat
      BY <2>2, <3>1 DEF IInv, TypeOK, Table, Row
    <3>3. /\ t \in TxType /\ t.kind = tx[r].kind
          /\ t.actor = tx[r].actor /\ t.target = tx[r].target
      BY <3>2 DEF IInv, TypeOK, TxType
    <3>4. pc' = [pc EXCEPT ![r] = l] /\ tx' = [tx EXCEPT ![r] = t] /\ UNCHANGED <<clock, user>>
      BY <1>2, <2>2 DEF VerifyPassword
    <3>5. pc'[r] = l /\ tx'[r] = t /\ l \in Labels
      BY <3>4 DEF IInv, TypeOK, Labels
    <3>6. (Carried(r) /\ Fresh(r) /\ Checked(r))'
      BY <3>1, <3>3, <3>5 DEF IInv, Carried, Fresh, Checked, TransactionKinds
    <3> QED BY <3>3, <3>4, <3>5, <3>6, MoveKeeps
  <2> QED BY <2>1, <2>2
<1>3. ASSUME NEW r \in Requests, ReplaceHash(r) PROVE IInv'
  <2> DEFINE a == tx[r].actor
             row == user[a]
  <2>1. a \in Users
    BY <1>3 DEF ReplaceHash, IInv, Carried
  <2>2. CASE row # NoRow /\ row.hash = tx[r].hash
    <3>1. [row EXCEPT !.hash = row.hash + 1] \in Row
      BY <2>1, <2>2 DEF IInv, TypeOK, Table, Row
    <3>2. Write(r, a, [row EXCEPT !.hash = row.hash + 1], {}) /\ UNCHANGED clock
      BY <1>3, <2>2 DEF ReplaceHash
    <3> QED BY <2>1, <3>1, <3>2, WriteKeeps
  <2>3. CASE ~(row # NoRow /\ row.hash = tx[r].hash)
    BY <1>3, <2>3, FinishKeeps DEF ReplaceHash
  <2> QED BY <2>2, <2>3
<1>4. ASSUME NEW r \in Requests, LockAccount(r) PROVE IInv'
  <2> DEFINE a == tx[r].actor
  <2>1. a \in Users
    BY <1>4 DEF LockAccount, IInv, Carried
  <2>2. CASE user[a] # NoRow
    <3>1. [user[a] EXCEPT !.lockedUntil = clock + LockSpan] \in Row
      BY <2>1, <2>2, AccountsAssumption DEF IInv, TypeOK, Table, Row
    <3>2. Write(r, a, [user[a] EXCEPT !.lockedUntil = clock + LockSpan], {}) /\ UNCHANGED clock
      BY <1>4, <2>2 DEF LockAccount
    <3> QED BY <2>1, <3>1, <3>2, WriteKeeps
  <2>3. CASE user[a] = NoRow
    BY <1>4, <2>3, FinishKeeps DEF LockAccount
  <2> QED BY <2>2, <2>3
<1>5. ASSUME NEW r \in Requests, Begin(r) PROVE IInv'
  <2> DEFINE t == [tx[r] EXCEPT !.snap = user]
  <2>1. /\ t \in TxType /\ t.kind = tx[r].kind /\ t.actor = tx[r].actor
        /\ t.target = tx[r].target /\ t.snap = user
    BY DEF IInv, TypeOK, TxType
  <2>2. pc' = [pc EXCEPT ![r] = "decide"] /\ tx' = [tx EXCEPT ![r] = t]
    BY <1>5 DEF Begin
  <2>3. pc'[r] = "decide" /\ tx'[r] = t /\ pc[r] = "begin" /\ UNCHANGED <<clock, user>>
    BY <1>5, <2>2 DEF IInv, TypeOK, Begin
  <2>4. (Carried(r) /\ Fresh(r) /\ Checked(r))'
    BY <2>1, <2>3 DEF IInv, Carried, Fresh, Checked
  <2>5. "decide" \in Labels
    BY DEF Labels
  <2> QED BY <2>1, <2>2, <2>3, <2>4, <2>5, MoveKeeps
<1>6. ASSUME NEW r \in Requests, Decide(r) PROVE IInv'
  <2>1. CASE ~Accepted(tx[r], clock)
    BY <1>6, <2>1, FinishKeeps DEF Decide
  <2>2. CASE Accepted(tx[r], clock)
    <3> DEFINE p == Footprint(tx[r], clock)
               t == [tx[r] EXCEPT !.print = p, !.snap = Blank.snap]
    <3>1. pc[r] = "decide" /\ tx[r].actor \in Users /\ tx[r].target \in Users
      BY <1>6 DEF Decide, IInv, Carried
    <3>2. p \in FootprintType /\ p.target = tx[r].target
      BY <3>1, FootprintTyped DEF IInv, TypeOK
    <3>3. Blank.snap \in Table
      BY BlankType DEF TxType
    <3> HIDE DEF p
    <3>4. /\ t \in TxType /\ t.kind = tx[r].kind /\ t.actor = tx[r].actor /\ t.hash = tx[r].hash
          /\ t.target = tx[r].target /\ t.print = p /\ t.touched = tx[r].touched
      BY <3>2, <3>3 DEF IInv, TypeOK, TxType
    <3>5. pc' = [pc EXCEPT ![r] = "commit"] /\ tx' = [tx EXCEPT ![r] = t]
      BY <1>6, <2>2 DEF Decide, p
    <3>6. pc'[r] = "commit" /\ tx'[r] = t /\ UNCHANGED <<clock, user>>
      BY <1>6, <3>5 DEF IInv, TypeOK, Decide
    <3> HIDE DEF t
    <3>7. Carried(r)' /\ Fresh(r)'
      BY <3>1, <3>4, <3>6 DEF IInv, Carried, Fresh
    <3>8. tx[r].target \notin tx[r].touched => user[tx[r].target] = tx[r].snap[tx[r].target]
      BY <3>1 DEF IInv, Fresh
    <3>9. Checked(r)'
      BY <2>2, <3>2, <3>4, <3>6, <3>8 DEF Checked, Accepted, UsableAccount
    <3>10. "commit" \in Labels
      BY DEF Labels
    <3> QED BY <3>4, <3>5, <3>6, <3>7, <3>9, <3>10, MoveKeeps
  <2> QED BY <2>1, <2>2
<1>7. ASSUME NEW r \in Requests, Commit(r) PROVE IInv'
  <2> DEFINE t == tx[r]
  <2>1. /\ pc[r] = "commit" /\ t.target \in Users /\ t.kind \in TransactionKinds
        /\ t.target \notin t.touched
    BY <1>7 DEF Commit, MustFail, IInv, Carried
  <2>2. user[t.target] # NoRow /\ {t.print} \in SUBSET FootprintType
    BY <2>1 DEF IInv, Checked
  <2>3. After(user[t.target], t.kind) \in Row \cup {NoRow}
    BY <2>1, <2>2, AfterType DEF IInv, TypeOK, Table
  <2> QED BY <1>7, <2>1, <2>2, <2>3, WriteKeeps DEF Commit
<1>8. ASSUME NEW r \in Requests, FailSerialization(r) PROVE IInv'
  <2>1. CASE ~(tx[r].attempt < MaxAttempts)
    BY <1>8, <2>1, FinishKeeps DEF FailSerialization
  <2>2. CASE tx[r].attempt < MaxAttempts
    <3> DEFINE t == [Blank EXCEPT
                       !.kind = tx[r].kind, !.actor = tx[r].actor, !.target = tx[r].target,
                       !.hash = tx[r].hash, !.attempt = tx[r].attempt + 1]
    <3>1. /\ t \in TxType /\ t.kind = tx[r].kind /\ t.actor = tx[r].actor
          /\ t.target = tx[r].target
      <4>1. tx[r] \in TxType
        BY DEF IInv, TypeOK
      <4>2. /\ tx[r].kind \in Kinds /\ tx[r].actor \in Users \cup {NoRow}
            /\ tx[r].target \in Users \cup {NoRow} /\ tx[r].hash \in Nat
        BY <4>1 DEF TxType
      <4>3. tx[r].attempt + 1 \in 1 .. MaxAttempts
        BY <2>2, <4>1 DEF TxType, MaxAttempts
      <4> QED BY <4>2, <4>3, BlankType DEF TxType
    <3>2. pc' = [pc EXCEPT ![r] = "begin"] /\ tx' = [tx EXCEPT ![r] = t]
      BY <1>8, <2>2 DEF FailSerialization
    <3>3. pc'[r] = "begin" /\ tx'[r] = t /\ UNCHANGED <<clock, user>>
      BY <1>8, <3>2 DEF IInv, TypeOK, FailSerialization
    <3>4. pc[r] \in {"decide", "commit"}
      BY <1>8 DEF FailSerialization, InTransaction
    <3> HIDE DEF t
    <3>5. (Carried(r) /\ Fresh(r) /\ Checked(r))'
      BY <3>1, <3>3, <3>4 DEF IInv, Carried, Fresh, Checked
    <3>6. "begin" \in Labels
      BY DEF Labels
    <3> QED BY <3>1, <3>2, <3>3, <3>5, <3>6, MoveKeeps
  <2> QED BY <2>1, <2>2
<1>9. ASSUME NEW r \in Requests, Abandon(r) PROVE IInv'
  BY <1>9, FinishKeeps DEF Abandon
<1>10. CASE Tick
  BY <1>10 DEF Tick, IInv, TypeOK, Carried, Fresh, Checked
<1>11. CASE UNCHANGED vars
  BY <1>11 DEF vars, IInv, TypeOK, Carried, Fresh, Checked
<1> QED BY <1>1, <1>2, <1>3, <1>4, <1>5, <1>6, <1>7, <1>8, <1>9, <1>10, <1>11 DEF Next

LEMMA Invariance == Spec => []IInv
BY InitHolds, StepKeeps, PTL DEF Spec

(* Every reachable table, snapshot and footprint has its type.             *)
THEOREM AccountsTyped == Spec => []TypeOK
<1>1. IInv => TypeOK
  BY DEF IInv
<1> QED BY <1>1, Invariance, PTL

----------------------------------------------------------------------------
(* Only Commit changes the table in a step that ends a request in "commit". *)
LEMMA CommittingIsCommit ==
  ASSUME IInv, [Next]_vars, NEW r \in Requests, Committing(r)
  PROVE  Commit(r)
<1> USE DEF At, Goto
<1>1. pc[r] = "commit" /\ pc'[r] = "idle" /\ user' # user
  BY DEF Committing
<1>2. \A q \in Requests, l \in Labels : pc' = [pc EXCEPT ![q] = l] => q = r /\ l = "idle"
  BY <1>1 DEF IInv, TypeOK, Labels
<1>3. ASSUME NEW q \in Requests, NEW u, NEW row, NEW F, Write(q, u, row, F)
      PROVE  q = r
  BY <1>2, <1>3 DEF Write, Labels
<1>4. \A q \in Requests : ~ReplaceHash(q) /\ ~LockAccount(q)
  BY <1>1, <1>3 DEF ReplaceHash, LockAccount
<1>5. \A q \in Requests, k \in Kinds, a, x \in Users : ~Receive(q, k, a, x)
  BY <1>1 DEF Receive
<1>6. \A q \in Requests : /\ ~VerifyPassword(q) /\ ~Begin(q) /\ ~Decide(q)
                          /\ ~FailSerialization(q) /\ ~Abandon(q)
  BY <1>1 DEF VerifyPassword, Begin, Decide, FailSerialization, Abandon
<1>7. ~Tick /\ ~UNCHANGED vars
  BY <1>1 DEF Tick, vars
<1>8. \A q \in Requests : Commit(q) => q = r
  BY <1>3 DEF Commit
<1> QED BY <1>4, <1>5, <1>6, <1>7, <1>8 DEF Next

LEMMA SelfDeleteChecked ==
  ASSUME IInv, [Next]_vars, NEW r \in Requests, Committing(r), tx[r].kind = "selfDelete"
  PROVE  /\ user[tx[r].actor] # NoRow /\ user[tx[r].actor].active
         /\ user[tx[r].actor].hash = tx[r].hash
<1>1. pc[r] = "commit" /\ tx[r].target \notin tx[r].touched
  BY CommittingIsCommit DEF Commit, At, MustFail
<1>2. tx[r].actor = tx[r].target
  BY DEF IInv, Carried
<1> QED BY <1>1, <1>2 DEF IInv, Checked

(* deleteCurrentUser deletes only an active account whose hash is the one  *)
(* compared with the user's password, whatever else is under way.          *)
THEOREM SelfDeletion == Spec => SelfDeleteKnowsPassword
<1> DEFINE Good == \A r \in Requests :
                     /\ Committing(r) /\ tx[r].kind = "selfDelete"
                     => LET row == user[tx[r].actor]
                        IN row # NoRow /\ row.active /\ row.hash = tx[r].hash
<1>1. IInv /\ [Next]_vars => [Good]_vars
  BY SelfDeleteChecked
<1> QED BY <1>1, Invariance, PTL DEF Spec, SelfDeleteKnowsPassword

(* A role changes only in updateAdminUserRole's commit, on an account that *)
(* is active then.                                                         *)
THEOREM RoleChanges == Spec => RoleChangeOnActive
<1> DEFINE Good == \A u \in Users :
                     user[u] # NoRow /\ user'[u] # NoRow /\ user'[u].role # user[u].role
                     => user[u].active
<1>1. IInv /\ [Next]_vars => Good
  <2> SUFFICES ASSUME IInv, [Next]_vars, NEW u \in Users,
                      user[u] # NoRow, user'[u] # NoRow, user'[u].role # user[u].role
               PROVE  user[u].active
    OBVIOUS
  <2> USE DEF At
  <2>1. ASSUME NEW r \in Requests, NEW v, NEW row, NEW F, Write(r, v, row, F)
        PROVE  v = u /\ user'[u] = row
    BY <2>1 DEF Write, IInv, TypeOK, Table
  <2>2. \A r \in Requests : ~ReplaceHash(r)
    <3> SUFFICES ASSUME NEW r \in Requests, ReplaceHash(r) PROVE FALSE
      OBVIOUS
    <3>1. Write(r, tx[r].actor, [user[tx[r].actor] EXCEPT !.hash = user[tx[r].actor].hash + 1], {})
      BY DEF ReplaceHash
    <3>2. tx[r].actor = u /\ user'[u] = [user[u] EXCEPT !.hash = user[u].hash + 1]
      BY <2>1, <3>1
    <3> QED BY <3>2 DEF IInv, TypeOK, Table, Row
  <2>3. \A r \in Requests : ~LockAccount(r)
    <3> SUFFICES ASSUME NEW r \in Requests, LockAccount(r) PROVE FALSE
      OBVIOUS
    <3>1. Write(r, tx[r].actor, [user[tx[r].actor] EXCEPT !.lockedUntil = clock + LockSpan], {})
      BY DEF LockAccount
    <3>2. tx[r].actor = u /\ user'[u] = [user[u] EXCEPT !.lockedUntil = clock + LockSpan]
      BY <2>1, <3>1
    <3> QED BY <3>2 DEF IInv, TypeOK, Table, Row
  <2>4. ASSUME NEW r \in Requests, Commit(r) PROVE user[u].active
    <3>1. tx[r].target = u /\ user'[u] = After(user[u], tx[r].kind)
      BY <2>1, <2>4 DEF Commit
    <3>2. pc[r] = "commit" /\ tx[r].target \notin tx[r].touched
      BY <2>4 DEF Commit, MustFail
    <3>3. tx[r].kind \in {"promote", "demote"}
      BY <3>1, <3>2 DEF IInv, TypeOK, Table, Row, Carried, TransactionKinds, AdminKinds, After
    <3> QED BY <3>1, <3>2, <3>3 DEF IInv, Checked
  <2>5. \A r \in Requests, k \in Kinds, a, x \in Users : ~Receive(r, k, a, x)
    BY DEF Receive
  <2>6. \A r \in Requests : /\ ~VerifyPassword(r) /\ ~Begin(r) /\ ~Decide(r)
                            /\ ~FailSerialization(r) /\ ~Abandon(r)
    BY DEF VerifyPassword, Begin, Decide, FailSerialization, Abandon
  <2>7. ~Tick /\ ~UNCHANGED vars
    BY DEF Tick, vars
  <2> QED BY <2>2, <2>3, <2>4, <2>5, <2>6, <2>7 DEF Next
<1>2. IInv /\ [Next]_vars => [Good]_vars
  BY <1>1
<1> QED BY <1>2, Invariance, PTL DEF Spec, RoleChangeOnActive

----------------------------------------------------------------------------
(* The last administrator. From here on nobody's login fails five times:   *)
(* a lock is set beside the transactions, and with one the run "locked"     *)
(* shows the protection can fail.                                          *)

Unlocked ==
  /\ \A u \in Users : user[u] # NoRow => user[u].lockedUntil = NotLocked
  /\ \A r \in Requests : pc[r] # "lock"
  /\ \A r \in Requests, u \in Users :
       tx[r].snap[u] # NoRow => tx[r].snap[u].lockedUntil = NotLocked

(* A footprint of a transaction that removes a usable admin. *)
Removal(p) == p.counted /\ p.moves

Overtaken(r) == \E other \in tx[r].since : Removal(other)

(* An administrator lost since the snapshot was lost to a removal that     *)
(* counted; and a removal about to commit has left another administrator,  *)
(* and its actor one, unless another removal has overtaken it.             *)
Guarded(r) ==
  /\ pc[r] = "decide" =>
       \A u \in Users : Administrator(tx[r].snap[u]) => Administrator(user[u]) \/ Overtaken(r)
  /\ pc[r] = "commit" =>
       /\ /\ tx[r].target \notin tx[r].touched
          /\ Administrator(user[tx[r].target])
          /\ ~Administrator(After(user[tx[r].target], tx[r].kind))
          => Removal(tx[r].print)
       /\ Removal(tx[r].print) =>
            \/ Overtaken(r)
            \/ /\ \E u \in Users \ {tx[r].target} : Administrator(user[u])
               /\ tx[r].kind = "forceDelete" => Administrator(user[tx[r].actor])

AdminInv == IInv /\ Unlocked /\ AdminRemains /\ \A r \in Requests : Guarded(r)

LEMMA UsableIsAdministrator ==
  ASSUME NEW row, NEW now \in Nat, row # NoRow => row.lockedUntil = NotLocked
  PROVE  UsableAdmin(row, now) <=> Administrator(row)
BY DEF UsableAdmin, UsableAccount, Administrator, NotLocked

(* A write that takes an administrator away leaves its footprint with every *)
(* open transaction.                                                       *)
LEMMA WriteGuards ==
  ASSUME IInv, NEW r \in Requests, NEW u \in Users, NEW row, NEW F, Write(r, u, row, F),
         Administrator(user[u]) => Administrator(row) \/ \E p \in F : Removal(p),
         NEW q \in Requests, Guarded(q)
  PROVE  Guarded(q)'
<1>1. pc'[r] = "idle"
  BY DEF Write, IInv, TypeOK
<1>2. CASE q = r
  BY <1>1, <1>2 DEF Guarded
<1>3. CASE q # r /\ InTransaction(q)
  <2>1. pc'[q] = pc[q]
    BY <1>3 DEF Write, IInv, TypeOK
  <2>2. tx'[q] = [tx[q] EXCEPT !.since = @ \cup F, !.touched = @ \cup {u}]
    BY <1>3 DEF Write
  <2>3. /\ tx'[q].kind = tx[q].kind /\ tx'[q].actor = tx[q].actor
        /\ tx'[q].target = tx[q].target /\ tx'[q].snap = tx[q].snap
        /\ tx'[q].print = tx[q].print
        /\ tx'[q].since = tx[q].since \cup F /\ tx'[q].touched = tx[q].touched \cup {u}
    BY <2>2 DEF IInv, TypeOK, TxType
  <2>4. Overtaken(q) => Overtaken(q)'
    BY <2>3 DEF Overtaken
  <2>5. \A v \in Users : v # u => user'[v] = user[v]
    BY DEF Write, IInv, TypeOK, Table
  <2>6. user'[u] = row
    BY DEF Write, IInv, TypeOK, Table
  <2>7. \A v \in Users : Administrator(user[v]) => Administrator(user'[v]) \/ Overtaken(q)'
    BY <2>3, <2>5, <2>6 DEF Overtaken
  <2>8. /\ pc[q] # "idle" /\ tx[q].target \in Users /\ tx[q].actor \in Users
    BY <1>3 DEF InTransaction, IInv, Carried
  <2>9. tx'[q].target \notin tx'[q].touched =>
          tx[q].target \notin tx[q].touched /\ user'[tx[q].target] = user[tx[q].target]
    BY <2>3, <2>5, <2>8
  <2>10. CASE pc[q] = "decide"
    BY <2>1, <2>3, <2>4, <2>7, <2>10 DEF Guarded
  <2>11. CASE pc[q] = "commit"
    <3>1. /\ tx'[q].target \notin tx'[q].touched
          /\ Administrator(user'[tx'[q].target])
          /\ ~Administrator(After(user'[tx'[q].target], tx'[q].kind))
          => Removal(tx'[q].print)
      BY <2>3, <2>9, <2>11 DEF Guarded
    <3>2. Removal(tx'[q].print) =>
            \/ Overtaken(q)'
            \/ /\ \E v \in Users \ {tx'[q].target} : Administrator(user'[v])
               /\ tx'[q].kind = "forceDelete" => Administrator(user'[tx'[q].actor])
      <4> SUFFICES ASSUME Removal(tx'[q].print), ~Overtaken(q)'
                   PROVE  /\ \E v \in Users \ {tx'[q].target} : Administrator(user'[v])
                          /\ tx'[q].kind = "forceDelete" => Administrator(user'[tx'[q].actor])
        OBVIOUS
      <4>1. ~Overtaken(q) /\ Removal(tx[q].print)
        BY <2>3, <2>4
      <4>2. /\ \E v \in Users \ {tx[q].target} : Administrator(user[v])
            /\ tx[q].kind = "forceDelete" => Administrator(user[tx[q].actor])
        BY <4>1, <2>11 DEF Guarded
      <4>3. \A v \in Users : Administrator(user[v]) => Administrator(user'[v])
        BY <2>7
      <4> QED BY <4>2, <4>3, <2>3, <2>8
    <3> QED BY <2>1, <2>11, <3>1, <3>2 DEF Guarded
  <2> QED BY <1>3, <2>10, <2>11 DEF InTransaction
<1>4. CASE q # r /\ ~InTransaction(q)
  <2>1. pc'[q] = pc[q]
    BY <1>4 DEF Write, IInv, TypeOK
  <2> QED BY <1>4, <2>1 DEF InTransaction, Guarded
<1> QED BY <1>2, <1>3, <1>4

(* A commit that takes an administrator away counted, was not overtaken by *)
(* another removal, and so leaves an administrator; and the actor of a     *)
(* forced deletion is one.                                                 *)
LEMMA CommitLeavesAdmin ==
  ASSUME AdminInv, NEW r \in Requests, Commit(r),
         Administrator(user[tx[r].target]),
         ~Administrator(After(user[tx[r].target], tx[r].kind))
  PROVE  /\ Removal(tx[r].print)
         /\ \E u \in Users \ {tx[r].target} : Administrator(user[u])
         /\ tx[r].kind = "forceDelete" => Administrator(user[tx[r].actor])
<1>1. pc[r] = "commit" /\ ~MustFail(r)
  BY DEF Commit, At
<1>2. Removal(tx[r].print)
  BY <1>1 DEF AdminInv, Guarded, MustFail
<1>3. ~Overtaken(r)
  BY <1>1, <1>2 DEF MustFail, Overtaken, Removal, ReadBefore
<1> QED BY <1>1, <1>2, <1>3 DEF AdminInv, Guarded

(* A step that leaves the table and the other requests alone. *)
LEMMA MoveKeepsAdmin ==
  ASSUME AdminInv, IInv', NEW r \in Requests, NEW l, NEW t,
         pc' = [pc EXCEPT ![r] = l], tx' = [tx EXCEPT ![r] = t], user' = user,
         l # "lock",
         \A u \in Users : t.snap[u] # NoRow => t.snap[u].lockedUntil = NotLocked,
         Guarded(r)'
  PROVE  AdminInv'
<1>1. /\ pc'[r] = l /\ tx'[r] = t
      /\ \A q \in Requests \ {r} : pc'[q] = pc[q] /\ tx'[q] = tx[q]
  BY DEF AdminInv, IInv, TypeOK
<1>2. Unlocked'
  BY <1>1 DEF AdminInv, Unlocked
<1>3. \A q \in Requests \ {r} : Guarded(q)'
  BY <1>1 DEF AdminInv, Guarded, Overtaken
<1>4. AdminRemains'
  BY DEF AdminInv, AdminRemains
<1> QED BY <1>2, <1>3, <1>4 DEF AdminInv

LEMMA BlankUnlocked == \A u \in Users : Blank.snap[u] = NoRow
BY DEF Blank

LEMMA FinishKeepsAdmin ==
  ASSUME AdminInv, IInv', NEW r \in Requests, Finish(r), user' = user
  PROVE  AdminInv'
<1>1. pc'[r] = "idle"
  BY DEF Finish, AdminInv, IInv, TypeOK
<1>2. Guarded(r)'
  BY <1>1 DEF Guarded
<1> QED BY <1>2, BlankUnlocked, MoveKeepsAdmin DEF Finish

LEMMA WriteKeepsAdmin ==
  ASSUME AdminInv, IInv', NEW r \in Requests, NEW u \in Users, NEW row, NEW F,
         Write(r, u, row, F), AdminRemains',
         Administrator(user[u]) => Administrator(row) \/ \E p \in F : Removal(p),
         row # NoRow => row.lockedUntil = NotLocked
  PROVE  AdminInv'
<1>1. \A q \in Requests : Guarded(q)'
  BY WriteGuards DEF AdminInv
<1>2. Unlocked'
  <2>1. \A v \in Users : user'[v] = IF v = u THEN row ELSE user[v]
    BY DEF Write, AdminInv, IInv, TypeOK, Table
  <2>2. \A q \in Requests : pc'[q] = IF q = r THEN "idle" ELSE pc[q]
    BY DEF Write, AdminInv, IInv, TypeOK
  <2>3. ASSUME NEW q \in Requests, NEW v \in Users, tx'[q].snap[v] # NoRow
        PROVE  tx'[q].snap[v].lockedUntil = NotLocked
    <3>1. tx'[q].snap = IF q = r THEN Blank.snap ELSE tx[q].snap
      BY DEF Write, AdminInv, IInv, TypeOK, TxType
    <3> QED BY <2>3, <3>1, BlankUnlocked DEF AdminInv, Unlocked
  <2> QED BY <2>1, <2>2, <2>3 DEF AdminInv, Unlocked
<1> QED BY <1>1, <1>2 DEF AdminInv

(* What Decide establishes of an accepted mutation. *)
LEMMA DecideGuards ==
  ASSUME AdminInv, NEW r \in Requests, Decide(r), Accepted(tx[r], clock)
  PROVE  Guarded(r)'
<1> DEFINE x == tx[r].target
           p == Footprint(tx[r], clock)
<1>1. /\ pc[r] = "decide" /\ x \in Users /\ tx[r].actor \in Users
      /\ tx[r].kind \in TransactionKinds /\ clock \in Nat
  BY DEF Decide, At, AdminInv, IInv, Carried, TypeOK
<1>2. tx' = [tx EXCEPT ![r].print = p, ![r].snap = Blank.snap] /\ pc'[r] = "commit" /\ user' = user
  BY DEF Decide, Goto, AdminInv, IInv, TypeOK
<1>3. /\ tx'[r].print = p /\ tx'[r].target = x /\ tx'[r].kind = tx[r].kind
      /\ tx'[r].actor = tx[r].actor /\ tx'[r].since = tx[r].since
      /\ tx'[r].touched = tx[r].touched
  BY <1>2 DEF AdminInv, IInv, TypeOK, TxType
<1>4. \A u \in Users : UsableAdmin(tx[r].snap[u], clock) <=> Administrator(tx[r].snap[u])
  BY <1>1, UsableIsAdministrator DEF AdminInv, Unlocked
<1>5. \A u \in Users : Administrator(tx[r].snap[u]) => Administrator(user[u]) \/ Overtaken(r)
  BY <1>1 DEF AdminInv, Guarded
<1>6. Overtaken(r) => Overtaken(r)'
  BY <1>3 DEF Overtaken
<1>7. ASSUME x \notin tx[r].touched, Administrator(user[x]),
             ~Administrator(After(user[x], tx[r].kind))
      PROVE  Removal(p)
  <2>1. tx[r].snap[x] = user[x]
    BY <1>1, <1>7 DEF AdminInv, IInv, Fresh
  <2>2. user[x] # NoRow /\ user[x] \in Row
    BY <1>1, <1>7 DEF Administrator, AdminInv, IInv, TypeOK, Table
  <2>3. tx[r].kind \in {"suspend", "demote", "forceDelete", "selfDelete"}
    <3>1. tx[r].kind = "reactivate" =>
            /\ After(user[x], tx[r].kind) \in Row
            /\ After(user[x], tx[r].kind).role = user[x].role
            /\ After(user[x], tx[r].kind).active
            /\ After(user[x], tx[r].kind).verified = user[x].verified
      BY <2>2 DEF After, Row, NotLocked
    <3>2. tx[r].kind = "promote" =>
            /\ After(user[x], tx[r].kind) \in Row
            /\ After(user[x], tx[r].kind).role = "ADMIN"
            /\ After(user[x], tx[r].kind).active = user[x].active
            /\ After(user[x], tx[r].kind).verified = user[x].verified
      BY <2>2 DEF After, Row
    <3>3. tx[r].kind \notin {"reactivate", "promote"}
      BY <1>7, <3>1, <3>2, NoRowAssumption DEF Administrator
    <3> QED BY <1>1, <3>3 DEF TransactionKinds, AdminKinds
  <2>4. Counts(tx[r], clock)
    BY <1>1, <1>4, <1>7, <2>1, <2>3 DEF Counts
  <2>5. ~UsableAdmin(After(user[x], tx[r].kind), clock)
    BY <1>7 DEF UsableAdmin, UsableAccount, Administrator
  <2>6. UsableAdmin(user[x], clock)
    BY <1>1, <1>4, <1>7, <2>1
  <2> QED BY <2>1, <2>4, <2>5, <2>6 DEF Footprint, Removal
<1>8. ASSUME Removal(p), ~Overtaken(r)
      PROVE  /\ \E u \in Users \ {x} : Administrator(user[u])
             /\ tx[r].kind = "forceDelete" => Administrator(user[tx[r].actor])
  <2> DEFINE A == UsableAdmins(tx[r].snap, clock)
  <2>1. Counts(tx[r], clock)
    BY <1>8 DEF Footprint, Removal
  <2>2. Cardinality(A) > 1
    BY <2>1 DEF Accepted
  <2>3. PICK u \in A : u # x
    <3>1. x \in A
      BY <1>1, <2>1 DEF Counts, UsableAdmins
    <3>2. A = {x} => Cardinality(A) = 1
      BY FS_Singleton
    <3> QED BY <2>2, <3>1, <3>2
  <2>4. u \in Users /\ Administrator(tx[r].snap[u])
    BY <1>4, <2>3 DEF UsableAdmins
  <2>5. Administrator(user[u])
    BY <1>5, <1>8, <2>4
  <2>6. tx[r].kind = "forceDelete" => Administrator(user[tx[r].actor])
    BY <1>1, <1>4, <1>5, <1>8 DEF Accepted
  <2> QED BY <2>3, <2>4, <2>5, <2>6
<1> HIDE DEF p
<1> QED BY <1>2, <1>3, <1>6, <1>7, <1>8 DEF Guarded

LEMMA AdminInit == Lockable = {} /\ Admins \ Unverified # {} /\ Init => AdminInv
<1> SUFFICES ASSUME Admins \ Unverified # {}, Init PROVE AdminInv
  OBVIOUS
<1>1. Unlocked
  BY BlankUnlocked DEF Init, Unlocked
<1>2. AdminRemains
  <2>1. PICK u \in Admins \ Unverified : TRUE
    OBVIOUS
  <2>2. u \in Users /\ u \in Admins /\ u \notin Unverified
    BY <2>1, AccountsAssumption
  <2>3. user[u] = [role |-> "ADMIN", active |-> TRUE, verified |-> TRUE,
                   lockedUntil |-> NotLocked, hash |-> 0]
    BY <2>2 DEF Init
  <2>4. user[u] # NoRow
    <3>1. user[u] \in Row
      BY <2>3 DEF Row, NotLocked
    <3> QED BY <3>1, NoRowAssumption
  <2> QED BY <2>2, <2>3, <2>4 DEF AdminRemains, Administrator
<1>3. \A r \in Requests : Guarded(r)
  BY DEF Init, Guarded
<1> QED BY <1>1, <1>2, <1>3, InitHolds DEF AdminInv

LEMMA AdminStep == Lockable = {} /\ AdminInv /\ [Next]_vars => AdminInv'
<1> SUFFICES ASSUME Lockable = {}, AdminInv, [Next]_vars PROVE AdminInv'
  OBVIOUS
<1>0. IInv /\ IInv'
  BY StepKeeps DEF AdminInv
<1> USE DEF At, Goto
<1>1. ASSUME NEW r \in Requests, NEW k \in Kinds, NEW a \in Users, NEW x \in Users,
             Receive(r, k, a, x)
      PROVE  AdminInv'
  <2> DEFINE l == CASE k \in AdminKinds -> "begin"
                    [] k = "failLogin"  -> "lock"
                    [] OTHER            -> "verify"
             t == [Blank EXCEPT !.kind = k, !.actor = a, !.target = x]
  <2>1. l \in {"begin", "verify"}
    BY <1>1 DEF Receive
  <2>2. t.snap = Blank.snap
    BY DEF Blank
  <2>3. pc' = [pc EXCEPT ![r] = l] /\ tx' = [tx EXCEPT ![r] = t] /\ user' = user
    BY <1>1 DEF Receive
  <2>4. pc'[r] = l
    BY <1>0, <2>3 DEF IInv, TypeOK
  <2> HIDE DEF l, t
  <2>5. Guarded(r)'
    BY <2>1, <2>4 DEF Guarded
  <2> QED BY <1>0, <2>1, <2>2, <2>3, <2>5, BlankUnlocked, MoveKeepsAdmin
<1>2. ASSUME NEW r \in Requests, VerifyPassword(r) PROVE AdminInv'
  <2>1. CASE user[tx[r].actor] = NoRow
    BY <1>0, <1>2, <2>1, FinishKeepsAdmin DEF VerifyPassword
  <2>2. CASE user[tx[r].actor] # NoRow
    <3> DEFINE l == IF tx[r].kind = "selfDelete" THEN "begin" ELSE "replace"
               t == [tx[r] EXCEPT !.hash = user[tx[r].actor].hash]
    <3>1. pc' = [pc EXCEPT ![r] = l] /\ tx' = [tx EXCEPT ![r] = t] /\ user' = user
      BY <1>2, <2>2 DEF VerifyPassword
    <3>2. pc'[r] = l /\ l \notin {"decide", "commit", "lock"} /\ t.snap = tx[r].snap
      BY <1>0, <3>1 DEF IInv, TypeOK, TxType
    <3>3. Guarded(r)'
      BY <3>2 DEF Guarded
    <3>4. \A u \in Users : t.snap[u] # NoRow => t.snap[u].lockedUntil = NotLocked
      BY <3>2 DEF AdminInv, Unlocked
    <3>5. l # "lock"
      OBVIOUS
    <3> HIDE DEF l, t
    <3> QED BY <1>0, <3>1, <3>3, <3>4, <3>5, MoveKeepsAdmin
  <2> QED BY <2>1, <2>2
<1>3. ASSUME NEW r \in Requests, ReplaceHash(r) PROVE AdminInv'
  <2> DEFINE a == tx[r].actor
             row == user[a]
             new == [row EXCEPT !.hash = row.hash + 1]
  <2>1. a \in Users
    BY <1>0, <1>3 DEF ReplaceHash, IInv, Carried
  <2>2. CASE row # NoRow /\ row.hash = tx[r].hash
    <3>1. Write(r, a, new, {})
      BY <1>3, <2>2 DEF ReplaceHash
    <3>2. /\ new \in Row /\ new.role = row.role /\ new.active = row.active
          /\ new.verified = row.verified /\ new.lockedUntil = row.lockedUntil
      BY <1>0, <2>1, <2>2 DEF IInv, TypeOK, Table, Row
    <3>3. new # NoRow
      BY <3>2, NoRowAssumption
    <3>4. row.lockedUntil = NotLocked
      BY <2>1, <2>2 DEF AdminInv, Unlocked
    <3> HIDE DEF new
    <3>5. Administrator(row) <=> Administrator(new)
      BY <2>2, <3>2, <3>3 DEF Administrator
    <3>6. \A u \in Users : user'[u] = IF u = a THEN new ELSE user[u]
      BY <1>0, <3>1 DEF Write, IInv, TypeOK, Table
    <3>7. AdminRemains'
      BY <2>1, <3>5, <3>6 DEF AdminInv, AdminRemains
    <3> QED BY <1>0, <2>1, <3>1, <3>2, <3>4, <3>5, <3>7, WriteKeepsAdmin
  <2>3. CASE ~(row # NoRow /\ row.hash = tx[r].hash)
    BY <1>0, <1>3, <2>3, FinishKeepsAdmin DEF ReplaceHash
  <2> QED BY <2>2, <2>3
<1>4. ASSUME NEW r \in Requests, LockAccount(r) PROVE AdminInv'
  BY <1>4 DEF LockAccount, AdminInv, Unlocked
<1>5. ASSUME NEW r \in Requests, Begin(r) PROVE AdminInv'
  <2> DEFINE t == [tx[r] EXCEPT !.snap = user]
  <2>1. pc' = [pc EXCEPT ![r] = "decide"] /\ tx' = [tx EXCEPT ![r] = t] /\ user' = user
    BY <1>5 DEF Begin
  <2>2. pc'[r] = "decide" /\ tx'[r] = t /\ t.snap = user
    BY <1>0, <2>1 DEF IInv, TypeOK, TxType
  <2> HIDE DEF t
  <2>3. Guarded(r)'
    BY <2>1, <2>2 DEF Guarded
  <2>4. \A u \in Users : t.snap[u] # NoRow => t.snap[u].lockedUntil = NotLocked
    BY <2>2 DEF AdminInv, Unlocked
  <2> QED BY <1>0, <2>1, <2>3, <2>4, MoveKeepsAdmin
<1>6. ASSUME NEW r \in Requests, Decide(r) PROVE AdminInv'
  <2>1. CASE ~Accepted(tx[r], clock)
    BY <1>0, <1>6, <2>1, FinishKeepsAdmin DEF Decide
  <2>2. CASE Accepted(tx[r], clock)
    <3> DEFINE t == [tx[r] EXCEPT !.print = Footprint(tx[r], clock), !.snap = Blank.snap]
    <3>1. t.snap = Blank.snap
      BY <1>0 DEF IInv, TypeOK, TxType
    <3>2. pc' = [pc EXCEPT ![r] = "commit"] /\ tx' = [tx EXCEPT ![r] = t] /\ user' = user
      BY <1>6, <2>2 DEF Decide
    <3>3. Guarded(r)'
      BY <1>6, <2>2, DecideGuards
    <3> HIDE DEF t
    <3> QED BY <1>0, <3>1, <3>2, <3>3, BlankUnlocked, MoveKeepsAdmin
  <2> QED BY <2>1, <2>2
<1>7. ASSUME NEW r \in Requests, Commit(r) PROVE AdminInv'
  <2> DEFINE x == tx[r].target
             new == After(user[x], tx[r].kind)
  <2>1. /\ pc[r] = "commit" /\ x \in Users /\ tx[r].kind \in TransactionKinds
        /\ x \notin tx[r].touched
    BY <1>0, <1>7 DEF Commit, MustFail, IInv, Carried
  <2>2. user[x] # NoRow /\ user[x] \in Row
    BY <1>0, <2>1 DEF IInv, TypeOK, Table, Checked
  <2>3. Write(r, x, new, {tx[r].print})
    BY <1>7 DEF Commit
  <2>4. Administrator(user[x]) /\ ~Administrator(new) =>
          Removal(tx[r].print) /\ \E u \in Users \ {x} : Administrator(user[u])
    BY <1>7, CommitLeavesAdmin
  <2>5. user[x].lockedUntil = NotLocked
    BY <2>1, <2>2 DEF AdminInv, Unlocked
  <2>6. new # NoRow => new.lockedUntil = NotLocked
    BY <2>1, <2>2, <2>5 DEF After, TransactionKinds, AdminKinds, Row
  <2> HIDE DEF new
  <2>7. \A u \in Users : user'[u] = IF u = x THEN new ELSE user[u]
    BY <1>0, <2>3 DEF Write, IInv, TypeOK, Table
  <2>8. AdminRemains'
    BY <2>1, <2>4, <2>7 DEF AdminInv, AdminRemains
  <2> QED BY <1>0, <2>1, <2>3, <2>4, <2>6, <2>8, WriteKeepsAdmin
<1>8. ASSUME NEW r \in Requests, FailSerialization(r) PROVE AdminInv'
  <2>1. CASE ~(tx[r].attempt < MaxAttempts)
    BY <1>0, <1>8, <2>1, FinishKeepsAdmin DEF FailSerialization
  <2>2. CASE tx[r].attempt < MaxAttempts
    <3> DEFINE t == [Blank EXCEPT
                       !.kind = tx[r].kind, !.actor = tx[r].actor, !.target = tx[r].target,
                       !.hash = tx[r].hash, !.attempt = tx[r].attempt + 1]
    <3>1. pc' = [pc EXCEPT ![r] = "begin"] /\ tx' = [tx EXCEPT ![r] = t] /\ user' = user
      BY <1>8, <2>2 DEF FailSerialization
    <3>2. pc'[r] = "begin" /\ t.snap = Blank.snap
      BY <1>0, <3>1 DEF IInv, TypeOK, Blank
    <3>3. Guarded(r)'
      BY <3>2 DEF Guarded
    <3>4. \A u \in Users : t.snap[u] # NoRow => t.snap[u].lockedUntil = NotLocked
      BY <3>2, BlankUnlocked
    <3> HIDE DEF t
    <3> QED BY <1>0, <3>1, <3>3, <3>4, MoveKeepsAdmin
  <2> QED BY <2>1, <2>2
<1>9. ASSUME NEW r \in Requests, Abandon(r) PROVE AdminInv'
  BY <1>0, <1>9, FinishKeepsAdmin DEF Abandon
<1>10. ASSUME Tick \/ UNCHANGED vars PROVE AdminInv'
  <2>1. UNCHANGED <<user, pc, tx>>
    BY <1>10 DEF Tick, vars
  <2> QED BY <1>0, <2>1 DEF AdminInv, Unlocked, AdminRemains, Guarded, Overtaken
<1> QED BY <1>1, <1>2, <1>3, <1>4, <1>5, <1>6, <1>7, <1>8, <1>9, <1>10 DEF Next

LEMMA AdminInvariance == Lockable = {} /\ Admins \ Unverified # {} /\ Spec => []AdminInv
<1> SUFFICES ASSUME Lockable = {}, Admins \ Unverified # {} PROVE Spec => []AdminInv
  OBVIOUS
<1>1. Init => AdminInv
  BY AdminInit
<1>2. AdminInv /\ [Next]_vars => AdminInv'
  BY AdminStep
<1> QED BY <1>1, <1>2, PTL DEF Spec

(* However suspensions, demotions and deletions by any number of           *)
(* administrators and of the users themselves interleave, an administrator *)
(* remains if a verified one was there at the start, provided only that    *)
(* pairs of conflicting transactions are refused.                           *)
THEOREM LastAdministrator == Lockable = {} /\ Admins \ Unverified # {} => (Spec => []AdminRemains)
<1> SUFFICES ASSUME Lockable = {}, Admins \ Unverified # {} PROVE Spec => []AdminRemains
  OBVIOUS
<1>1. AdminInv => AdminRemains
  BY DEF AdminInv
<1>2. Spec => []AdminInv
  BY AdminInvariance
<1> QED BY <1>1, <1>2, PTL

(* An administrator who has another one deleted is still an administrator  *)
(* when forceDeleteAdminUser commits.                                      *)
THEOREM Deleter == Lockable = {} /\ Admins \ Unverified # {} => (Spec => DeleterStays)
<1> SUFFICES ASSUME Lockable = {}, Admins \ Unverified # {} PROVE Spec => DeleterStays
  OBVIOUS
<1> DEFINE Good == \A r \in Requests :
                     /\ Committing(r) /\ tx[r].kind = "forceDelete"
                     /\ Administrator(user[tx[r].target]) /\ user'[tx[r].target] = NoRow
                     => Administrator(user[tx[r].actor])
<1>1. AdminInv /\ [Next]_vars => Good
  <2> SUFFICES ASSUME AdminInv, [Next]_vars, NEW r \in Requests, Committing(r),
                      tx[r].kind = "forceDelete", Administrator(user[tx[r].target])
               PROVE  Administrator(user[tx[r].actor])
    OBVIOUS
  <2>1. Commit(r)
    BY CommittingIsCommit DEF AdminInv
  <2>2. ~Administrator(After(user[tx[r].target], tx[r].kind))
    BY DEF After, Administrator
  <2> QED BY <2>1, <2>2, CommitLeavesAdmin
<1>2. AdminInv /\ [Next]_vars => [Good]_vars
  BY <1>1
<1>3. Spec => []AdminInv
  BY AdminInvariance
<1> QED BY <1>2, <1>3, PTL DEF Spec, DeleterStays

=============================================================================
