------------------------------- MODULE Audit -------------------------------
(***************************************************************************)
(* The audit log beside the changes it is about: a login, a password       *)
(* change, a password reset, a self deletion and the four administrators'  *)
(* changes. A SUCCESS row is written in the transaction of the change; a   *)
(* FAILURE row of a refused login or administrator's change is written     *)
(* afterwards, as best the server can. Requests run at the same time, some *)
(* transactions are retried, and either insert may fail.                   *)
(***************************************************************************)
EXTENDS Integers, Sequences, FiniteSets

CONSTANTS
  Users,     \* ids of the registered users
  Requests,  \* the requests of a behaviour, each served once
  MaxFaults, \* bound on the inserts and transactions that fail
  None       \* null: no row, no id, no reason

AuditAssumption ==
  /\ MaxFaults \in Nat
  /\ None \notin Users \cup {"USER", "ADMIN"}

MaxAttempts == 2
AdminActions == {"SUSPEND", "REACTIVATE", "ROLE_CHANGE", "FORCE_DELETE"}
SelfActions == {"LOGIN", "PASSWORD_CHANGE", "USER_ACCOUNT_DELETE"}
Actions == AdminActions \cup SelfActions \cup {"PASSWORD_RESET"}
Serializable == AdminActions \cup {"USER_ACCOUNT_DELETE"}
Unconfirmed == {"TARGET_NOT_FOUND", "ACTOR_STATE_CONFLICT", "SERIALIZATION_CONFLICT", "INTERNAL_ERROR"}
Confirmed == {"SELF_OPERATION_DENIED", "LAST_ADMIN_PROTECTED", "TARGET_STATE_CONFLICT"}

VARIABLES
  user,   \* the users table: role, active, password and whether a reset link is open
  req,    \* the requests: what they ask, where they are, what they have read
  log,    \* the audit table in the order of its rows, each with its request
  faults  \* failures so far

vars == <<user, req, log, faults>>

UserRows == [role : {"USER", "ADMIN"}, active : BOOLEAN, hash : 0..1, link : BOOLEAN]
Usable(row) == row # None /\ row.active
UsableAdmin(row) == Usable(row) /\ row.role = "ADMIN"
UsableAdmins(table) == {u \in Users : UsableAdmin(table[u])}

Event(action, result, actor, role, target, reason) ==
  [action |-> action, result |-> result, actor |-> actor, role |-> role, target |-> target,
   reason |-> reason]

(* auditEventSchema: the five kinds of event and what superRefine adds. *)
Recordable(e) ==
  \/ e.result = "SUCCESS" /\ e.target \in Users /\ e.reason = None
     /\ \/ e.action \in SelfActions /\ e.actor = e.target /\ e.role # None
        \/ e.action = "PASSWORD_RESET" /\ e.actor = None /\ e.role = None
        \/ e.action \in AdminActions /\ e.actor \in Users /\ e.role = "ADMIN"
  \/ e = Event("LOGIN", "FAILURE", None, None, None, "AUTHENTICATION_FAILED")
  \/ e.result = "FAILURE" /\ e.action \in AdminActions /\ e.actor \in Users /\ e.role = "ADMIN"
     /\ \/ e.target = None /\ e.reason \in Unconfirmed
        \/ e.target \in Users /\ e.reason \in Confirmed

----------------------------------------------------------------------------
At(r, at) == req[r].at = at
Goto(r, at) == req' = [req EXCEPT ![r].at = at]
Finish(r, answer) == req' = [req EXCEPT ![r].at = "done", ![r].answer = answer]

(* An error with a reason is recorded before it is answered, others are not. *)
Refuse(r, reason, target) ==
  req' = [req EXCEPT ![r].at = IF req[r].action \in AdminActions \cup {"LOGIN"} THEN "record" ELSE "done",
                     ![r].answer = "refused", ![r].reason = reason, ![r].blamed = target]

(* A row, with the role its actor has at that moment. *)
AddRow(r, e) ==
  LET row == IF e.actor = None THEN None ELSE user[e.actor]
  IN log' = Append(log, [req |-> r, event |-> e, was |-> IF row = None THEN None ELSE row.role])

(* What a change does to the row of its target. *)
After(r, row) ==
  CASE req[r].action = "SUSPEND"         -> [row EXCEPT !.active = FALSE, !.link = FALSE]
    [] req[r].action = "REACTIVATE"      -> [row EXCEPT !.active = TRUE]
    [] req[r].action = "ROLE_CHANGE"     -> [row EXCEPT !.role = IF @ = "ADMIN" THEN "USER" ELSE "ADMIN"]
    [] req[r].action = "PASSWORD_CHANGE" -> [row EXCEPT !.hash = 1 - @]
    [] req[r].action = "PASSWORD_RESET"  -> [row EXCEPT !.hash = 1 - @, !.link = FALSE]
    [] req[r].action = "LOGIN"           -> row
    [] OTHER                             -> None

SuccessEvent(r) ==
  LET q == req[r]
  IN CASE q.action \in AdminActions -> Event(q.action, "SUCCESS", q.actor, "ADMIN", q.target, None)
       [] q.action = "PASSWORD_RESET" -> Event(q.action, "SUCCESS", None, None, q.target, None)
       [] OTHER -> Event(q.action, "SUCCESS", q.actor, q.role, q.target, None)

(* Mutant: the row is written after the transaction, when that can still fail. *)
SaveApart(r) ==
  /\ user' = [user EXCEPT ![req[r].target] = After(r, @)]
  /\ \/ AddRow(r, SuccessEvent(r)) /\ UNCHANGED faults
     \/ faults < MaxFaults /\ faults' = faults + 1 /\ UNCHANGED log
  /\ req' = [req EXCEPT ![r].at = "done", ![r].answer = "done", ![r].applied = TRUE]

(* The change, its row and the commit; an event the schema refuses or a     *)
(* failing insert undoes it all, and the caller sees a server error. The    *)
(* answer to a commit that succeeded may be lost as well.                   *)
Save(r) ==
  \/ /\ Recordable(SuccessEvent(r))
     /\ user' = [user EXCEPT ![req[r].target] = After(r, @)]
     /\ AddRow(r, SuccessEvent(r))
     /\ \/ UNCHANGED faults
           /\ req' = [req EXCEPT ![r].at = "done", ![r].answer = "done", ![r].applied = TRUE]
        \/ faults < MaxFaults /\ faults' = faults + 1
           /\ req' = [req EXCEPT ![r].at = "done", ![r].answer = "error", ![r].applied = TRUE]
  \/ /\ Recordable(SuccessEvent(r)) => faults < MaxFaults
     /\ faults' = IF Recordable(SuccessEvent(r)) THEN faults + 1 ELSE faults
     /\ Finish(r, "error")
     /\ UNCHANGED <<user, log>>

----------------------------------------------------------------------------
(* The middleware has let the caller in; a login and a reset need no caller. *)
Receive(r) ==
  /\ At(r, "new")
  /\ \E action \in Actions, a \in Users, x \in Users :
       /\ action \in AdminActions => UsableAdmin(user[a])
       /\ action \notin AdminActions => a = x
       /\ action \in {"PASSWORD_CHANGE", "USER_ACCOUNT_DELETE"} => Usable(user[a])
       /\ req' = [req EXCEPT ![r].at = IF action \in AdminActions THEN "self" ELSE "read",
                             ![r].action = action, ![r].actor = a, ![r].target = x]
  /\ UNCHANGED <<user, log, faults>>

(* Nobody administrates their own account. *)
NotSelf(r) ==
  /\ At(r, "self")
  /\ IF req[r].actor = req[r].target THEN Refuse(r, "SELF_OPERATION_DENIED", req[r].actor)
                                     ELSE Goto(r, "begin")
  /\ UNCHANGED <<user, log, faults>>

(* login, changeCurrentPassword, deleteCurrentUser and resetPassword read    *)
(* the row (or its link) before their slow work on the password.            *)
Read(r) ==
  LET q == req[r]
      row == user[q.target]
  IN /\ At(r, "read")
     /\ \/ Refuse(r, "AUTHENTICATION_FAILED", None)   \* a wrong password, an unusable link
        \/ /\ IF q.action \in {"LOGIN", "PASSWORD_RESET"}
                THEN row # None /\ (IF q.action = "LOGIN" THEN row.active ELSE row.link)
                ELSE row # None
           /\ req' = [req EXCEPT ![r].at = IF q.action \in Serializable THEN "begin" ELSE "save",
                                 ![r].hash = row.hash, ![r].role = row.role]
     /\ UNCHANGED <<user, log, faults>>

(* The three READ COMMITTED transactions decide by the row they update: the  *)
(* role and state of a login, the old hash, the link still there.           *)
Unchanged(r) ==
  LET row == user[req[r].target]
  IN /\ row # None
     /\ req[r].action = "LOGIN" => row.active /\ row.role = req[r].role
     /\ req[r].action = "PASSWORD_CHANGE" => row.hash = req[r].hash
     /\ req[r].action = "PASSWORD_RESET" => row.link

SaveOwn(r) ==
  /\ At(r, "save")
  /\ IF Unchanged(r) THEN Save(r)
       ELSE Refuse(r, "AUTHENTICATION_FAILED", None) /\ UNCHANGED <<user, log, faults>>

(* The first statement of a serializable transaction takes its snapshot. *)
Begin(r) ==
  /\ At(r, "begin")
  /\ req' = [req EXCEPT ![r].at = "decide", ![r].snap = user]
  /\ UNCHANGED <<user, log, faults>>

Decide(r) ==
  LET q == req[r]
      row == q.snap[q.target]
      last == UsableAdmin(row) /\ UsableAdmins(q.snap) = {q.target}
      away == \/ q.action \in {"SUSPEND", "FORCE_DELETE", "USER_ACCOUNT_DELETE"}
              \/ q.action = "ROLE_CHANGE" /\ row.role = "ADMIN"
  IN /\ At(r, "decide")
     /\ IF q.action = "FORCE_DELETE" /\ ~UsableAdmin(q.snap[q.actor])
          THEN Refuse(r, "ACTOR_STATE_CONFLICT", None)
        ELSE IF row = None THEN Refuse(r, "TARGET_NOT_FOUND", None)
        ELSE IF q.action = "ROLE_CHANGE" /\ ~row.active THEN Refuse(r, "TARGET_STATE_CONFLICT", q.target)
        ELSE IF q.action = "USER_ACCOUNT_DELETE" /\ ~(row.active /\ row.hash = q.hash)
          THEN Refuse(r, None, None)
        ELSE IF away /\ last THEN Refuse(r, "LAST_ADMIN_PROTECTED", q.target)
        ELSE req' = [req EXCEPT ![r].at = "commit", ![r].role = row.role]
     /\ UNCHANGED <<user, log, faults>>

(* A row written since the snapshot fails the commit. *)
Commit(r) ==
  /\ At(r, "commit")
  /\ user[req[r].target] = req[r].snap[req[r].target]
  /\ Save(r)

(* P2034, which another transaction may cause at any time: once more, then 409. *)
Conflict(r) ==
  /\ req[r].at \in {"decide", "commit"}
  /\ IF req[r].attempt < MaxAttempts
       THEN req' = [req EXCEPT ![r].at = "begin", ![r].attempt = @ + 1]
       ELSE Refuse(r, IF req[r].action \in AdminActions THEN "SERIALIZATION_CONFLICT" ELSE None, None)
  /\ UNCHANGED <<user, log, faults>>

(* The connection is lost: a server error, nothing changed, nothing recorded. *)
Lose(r) ==
  /\ req[r].at \in {"read", "save", "begin", "decide", "commit"} /\ faults < MaxFaults
  /\ Finish(r, "error")
  /\ faults' = faults + 1
  /\ UNCHANGED <<user, log>>

(* Mutant: the target the request names is blamed, found or not. *)
FailureEventOfRequest(r) ==
  LET q == req[r]
  IN IF q.action = "LOGIN" THEN Event("LOGIN", "FAILURE", None, None, None, q.reason)
     ELSE Event(q.action, "FAILURE", q.actor, "ADMIN", q.target, q.reason)

FailureEvent(r) ==
  LET q == req[r]
  IN IF q.action = "LOGIN" THEN Event("LOGIN", "FAILURE", None, None, None, q.reason)
     ELSE Event(q.action, "FAILURE", q.actor, "ADMIN", q.blamed, q.reason)

(* recordAuditEventBestEffort: an invalid event and a failing insert are    *)
(* reported on the console only.                                            *)
Record(r) ==
  /\ At(r, "record")
  /\ \/ /\ Recordable(FailureEvent(r))
        /\ AddRow(r, FailureEvent(r))
        /\ Finish(r, "refused")
        /\ UNCHANGED <<user, faults>>
     \/ /\ Recordable(FailureEvent(r)) => faults < MaxFaults
        /\ faults' = IF Recordable(FailureEvent(r)) THEN faults + 1 ELSE faults
        /\ req' = [req EXCEPT ![r].at = "done", ![r].unrecorded = Recordable(FailureEvent(r))]
        /\ UNCHANGED <<user, log>>

----------------------------------------------------------------------------
Init ==
  /\ user \in [Users -> {row \in UserRows : row.hash = 0}] /\ UsableAdmins(user) # {}
  /\ req = [r \in Requests |->
              [at |-> "new", action |-> None, actor |-> None, target |-> None, hash |-> 0,
               role |-> None, snap |-> None, attempt |-> 1, answer |-> None, reason |-> None,
               blamed |-> None, applied |-> FALSE, unrecorded |-> FALSE]]
  /\ log = <<>>
  /\ faults = 0

Next ==
  \E r \in Requests :
    \/ Receive(r) \/ NotSelf(r) \/ Read(r) \/ SaveOwn(r) \/ Begin(r) \/ Decide(r)
    \/ Commit(r) \/ Conflict(r) \/ Lose(r) \/ Record(r)

Spec == Init /\ [][Next]_vars

----------------------------------------------------------------------------
RowsOf(r, result) == {i \in DOMAIN log : log[i].req = r /\ log[i].event.result = result}

(* The log tells what happened: a change that is in the database has exactly *)
(* one SUCCESS row and no FAILURE row, one that is not has no SUCCESS row,   *)
(* whatever was retried, refused or lost; a refused login or administrator's *)
(* change has exactly one FAILURE row unless its insert failed; and the role *)
(* of a login and of a self deletion is the one of that moment               *)
(* (runAdminMutationTransaction, runAuditedAdminMutation, recordAuditEvent). *)
LogTellsWhatHappened ==
  /\ \A r \in Requests :
       /\ Cardinality(RowsOf(r, "SUCCESS")) = IF req[r].applied THEN 1 ELSE 0
       /\ Cardinality(RowsOf(r, "FAILURE")) =
            IF At(r, "done") /\ req[r].answer = "refused" /\ ~req[r].unrecorded
               /\ req[r].action \in AdminActions \cup {"LOGIN"}
            THEN 1 ELSE 0
  /\ \A i \in DOMAIN log :
       log[i].event.result = "SUCCESS" /\ log[i].event.action \in {"LOGIN", "USER_ACCOUNT_DELETE"} =>
         log[i].event.role = log[i].was
=============================================================================
