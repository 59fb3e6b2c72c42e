----------------------------- MODULE AuthService -----------------------------
(***************************************************************************)
(* One e-mail address and everything auth.service.ts keeps for it: the row *)
(* of the user, its refresh tokens, the mailed verification link and the   *)
(* mailed link that resets the password, beside a password change and the  *)
(* suspension of the account.                                              *)
(*                                                                         *)
(* The service reads, then compares a password or hashes one or mails,     *)
(* which takes long, and then writes in a transaction of its own at READ   *)
(* COMMITTED. A transaction of several statements is split where another   *)
(* one can come in between: a rotation that has deleted its token, and a   *)
(* new password whose deletion of the refresh tokens has begun. The rows   *)
(* they have written stay locked until they commit.                        *)
(***************************************************************************)
EXTENDS Integers, FiniteSets

CONSTANTS
  Requests,      \* requests served at the same time
  Tokens,        \* refresh tokens randomBytes(32) can return
  Links,         \* tokens of mailed links
  MaxLoginFail,  \* MAX_LOGIN_FAIL
  MaxHash,       \* bound on the passwords ever set
  MaxRows,       \* bound on the rows ever created for the address
  NoRow          \* a row that does not exist

ASSUME AuthAssumption ==
  /\ MaxLoginFail \in Nat \ {0} /\ MaxHash \in Nat /\ MaxRows \in Nat
  /\ NoRow \notin Tokens \cup Links

VARIABLES
  user,          \* the users row of the address
  refresh,       \* refresh_tokens
  verification,  \* email_verifications: the row lock on the user keeps it at one
  reset,         \* password_reset_tokens: userId is unique
  issued,        \* the tokens and links generated so far
  created,       \* how many users rows there have been
  pc,            \* where a request is
  tx             \* what the request has read

tables == <<user, refresh, verification, reset>>
vars == <<user, refresh, verification, reset, issued, created, pc, tx>>

----------------------------------------------------------------------------
Blank == [row |-> NoRow, token |-> NoRow, link |-> NoRow, snap |-> {},
          saw |-> [reset |-> NoRow, verification |-> NoRow], mine |-> FALSE, stale |-> FALSE]

At(r, label) == pc[r] = label

(* Request r goes to a label with record t; a write of the user's row makes *)
(* the snapshot of an open suspension stale.                                *)
Step(r, label, t, wroteUser) ==
  /\ pc' = [pc EXCEPT ![r] = label]
  /\ tx' = [q \in Requests |->
              IF q = r THEN t
              ELSE IF wroteUser /\ pc[q] = "suspend" THEN [tx[q] EXCEPT !.stale = TRUE]
              ELSE tx[q]]

Goto(r, label, t) == Step(r, label, t, FALSE)
Finish(r) == Goto(r, "idle", Blank)
FinishWrite(r) == Step(r, "idle", Blank, TRUE)

(* Row locks that outlast a step. *)
UserFree == \A q \in Requests : pc[q] # "password"
ResetFree == \A q \in Requests : pc[q] = "password" => tx[q].link = NoRow
TokenFree(t) == \A q \in Requests : pc[q] = "rotate" => tx[q].token # t

Live == {t \in Tokens : refresh[t] # NoRow}
Without(S) == [t \in Tokens |-> IF t \in S THEN NoRow ELSE refresh[t]]
Fresh(S) == S \ issued

Begin(r) == At(r, "idle")

----------------------------------------------------------------------------
(* register: the address is read, then a password is hashed. *)
RegisterRead(r) ==
  /\ Begin(r)
  /\ user # NoRow => user.active /\ ~user.verified
  /\ Goto(r, "register", [Blank EXCEPT !.row = user])
  /\ UNCHANGED <<tables, issued, created>>

(* No row was read: a row is created, or the unique address refuses it. *)
CreateUser(r) ==
  /\ At(r, "register") /\ tx[r].row = NoRow
  /\ IF user # NoRow
       THEN Finish(r) /\ UNCHANGED <<user, verification, issued, created>>
       ELSE \E l \in Fresh(Links) :
              /\ created < MaxRows
              /\ user' = [id |-> created + 1, hash |-> 0, verified |-> FALSE, active |-> TRUE,
                          fails |-> 0, lock |-> "none"]
              /\ verification' = [link |-> l, expired |-> FALSE]
              /\ issued' = issued \cup {l}
              /\ created' = created + 1
              /\ Step(r, "verificationMail", [Blank EXCEPT !.row = user', !.mine = TRUE], TRUE)
  /\ UNCHANGED <<refresh, reset>>

(* An unverified row was read: it gets the new password and a new link, by  *)
(* its id alone.                                                            *)
Reregister(r) ==
  /\ At(r, "register") /\ tx[r].row # NoRow
  /\ IF user = NoRow \/ user.id # tx[r].row.id
       THEN Finish(r) /\ UNCHANGED <<user, verification, issued>>
       ELSE \E l \in Fresh(Links) :
              /\ UserFree /\ user.hash < MaxHash
              /\ user' = [user EXCEPT !.hash = @ + 1]
              /\ verification' = [link |-> l, expired |-> FALSE]
              /\ issued' = issued \cup {l}
              /\ Step(r, "verificationMail", [Blank EXCEPT !.row = user'], TRUE)
  /\ UNCHANGED <<refresh, reset, created>>

(* The mail is answered ... *)
VerificationSent(r) ==
  /\ At(r, "verificationMail")
  /\ Finish(r)
  /\ UNCHANGED <<tables, issued, created>>

(* ... or is reported to fail, although it may have been delivered: the row *)
(* this request created is deleted with all that refers to it, and of an    *)
(* older row the link.                                                      *)
VerificationFailed(r) ==
  /\ At(r, "verificationMail")
  /\ IF user = NoRow \/ user.id # tx[r].row.id
       THEN Finish(r) /\ UNCHANGED tables
       ELSE IF tx[r].mine
         THEN /\ UserFree /\ ResetFree /\ \A t \in Live : TokenFree(t)
              /\ user' = NoRow /\ verification' = NoRow /\ reset' = NoRow
              /\ refresh' = Without(Tokens)
              /\ FinishWrite(r)
         ELSE /\ verification' = NoRow
              /\ Finish(r)
              /\ UNCHANGED <<user, refresh, reset>>
  /\ UNCHANGED <<issued, created>>

(* verifyEmail: the link and the user are read ... *)
VerifyRead(r) ==
  /\ Begin(r)
  /\ verification # NoRow
  /\ IF verification.expired
       THEN verification' = NoRow /\ Finish(r)
       ELSE /\ ~user.verified
            /\ Goto(r, "verify", [Blank EXCEPT !.link = verification.link, !.row = user])
            /\ UNCHANGED verification
  /\ UNCHANGED <<user, refresh, reset, issued, created>>

(* ... and one transaction deletes the link and verifies; P2025 without it. *)
VerifyCommit(r) ==
  /\ At(r, "verify")
  /\ IF verification # NoRow /\ verification.link = tx[r].link
       THEN /\ UserFree
            /\ verification' = NoRow
            /\ user' = [user EXCEPT !.verified = TRUE]
            /\ FinishWrite(r)
       ELSE Finish(r) /\ UNCHANGED <<user, verification>>
  /\ UNCHANGED <<refresh, reset, issued, created>>

----------------------------------------------------------------------------
(* assertLoginAccountIsUsable *)
LoginUsable(row) == row # NoRow /\ row.active /\ row.verified /\ row.lock # "live"

(* login: the row is read, then the password is compared with its hash. *)
LoginRead(r) ==
  /\ Begin(r)
  /\ LoginUsable(user)
  /\ \E right \in BOOLEAN :
       Goto(r, IF right THEN "open" ELSE IF user.lock = "expired" THEN "unlock" ELSE "count",
            [Blank EXCEPT !.row = user])
  /\ UNCHANGED <<tables, issued, created>>

(* The right password: one transaction checks the row again, in the where   *)
(* of its update, and opens a session. The hash is not compared again.      *)
OpenSession(r) ==
  /\ At(r, "open")
  /\ UserFree
  /\ IF LoginUsable(user) /\ user.id = tx[r].row.id
       THEN \E t \in Fresh(Tokens) :
              /\ user' = [user EXCEPT !.fails = 0, !.lock = "none"]
              /\ refresh' = [refresh EXCEPT ![t] =
                   [owner |-> user.id, family |-> t, hash |-> tx[r].row.hash]]
              /\ issued' = issued \cup {t}
              /\ FinishWrite(r)
       ELSE Finish(r) /\ UNCHANGED <<user, refresh, issued>>
  /\ UNCHANGED <<verification, reset, created>>

(* The wrong one: a lock that had expired when it was read is removed ... *)
ClearExpiredLock(r) ==
  /\ At(r, "unlock")
  /\ UserFree
  /\ IF user # NoRow /\ user.id = tx[r].row.id
       THEN /\ user' = [user EXCEPT !.fails = 0, !.lock = "none"]
            /\ Step(r, "count", [tx[r] EXCEPT !.row.fails = 0], TRUE)
       ELSE Finish(r) /\ UNCHANGED user
  /\ UNCHANGED <<refresh, verification, reset, issued, created>>

(* Mutant: the count is not capped. *)
CountFailureUncapped(r) ==
  LET n == tx[r].row.fails + 1
  IN /\ At(r, "count")
     /\ UserFree
     /\ IF user # NoRow /\ user.id = tx[r].row.id
          THEN /\ user' = [user EXCEPT !.fails = n,
                             !.lock = IF n >= MaxLoginFail THEN "live" ELSE @]
               /\ FinishWrite(r)
          ELSE Finish(r) /\ UNCHANGED user
     /\ UNCHANGED <<refresh, verification, reset, issued, created>>

(* ... and the count that was read, plus one, is written. *)
CountFailure(r) ==
  LET n == IF tx[r].row.fails + 1 < MaxLoginFail THEN tx[r].row.fails + 1 ELSE MaxLoginFail
  IN /\ At(r, "count")
     /\ UserFree
     /\ IF user # NoRow /\ user.id = tx[r].row.id
          THEN /\ user' = [user EXCEPT !.fails = n,
                             !.lock = IF n = MaxLoginFail THEN "live" ELSE @]
               /\ FinishWrite(r)
          ELSE Finish(r) /\ UNCHANGED user
     /\ UNCHANGED <<refresh, verification, reset, issued, created>>

(* refreshAccessToken reads the token and, with a query of its own, its     *)
(* user (the include of findUnique) ...                                     *)
RefreshRead(r, t) ==
  /\ Begin(r)
  /\ refresh[t] # NoRow
  /\ Goto(r, "owner", [Blank EXCEPT !.token = t, !.row = refresh[t]])
  /\ UNCHANGED <<tables, issued, created>>

OwnerRead(r) ==
  /\ At(r, "owner")
  /\ IF user # NoRow /\ user.id = tx[r].row.owner
       THEN Goto(r, IF user.active THEN "consume" ELSE "drop", tx[r])
       ELSE Finish(r)
  /\ UNCHANGED <<tables, issued, created>>

(* ... deletes it for a suspended user ... *)
DropSession(r) ==
  /\ At(r, "drop")
  /\ TokenFree(tx[r].token)
  /\ refresh' = Without({tx[r].token})
  /\ Finish(r)
  /\ UNCHANGED <<user, verification, reset, issued, created>>

(* Mutant: the count of deleted rows is ignored. *)
ConsumeAnyway(r) ==
  /\ At(r, "consume")
  /\ TokenFree(tx[r].token)
  /\ Goto(r, "rotate", tx[r])
  /\ UNCHANGED <<tables, issued, created>>

(* ... or deletes it in a transaction, after whoever else is deleting it;   *)
(* when it is gone the answer is 409.                                       *)
ConsumeToken(r) ==
  LET t == tx[r].token
  IN /\ At(r, "consume")
     /\ TokenFree(t)
     /\ IF refresh[t] = NoRow
          THEN Finish(r)
          ELSE Goto(r, "rotate", tx[r])
     /\ UNCHANGED <<tables, issued, created>>

(* It creates its successor in the same transaction. *)
CommitRotation(r) ==
  /\ At(r, "rotate")
  /\ \E t \in Fresh(Tokens) :
       /\ refresh' = [Without({tx[r].token}) EXCEPT ![t] = tx[r].row]
       /\ issued' = issued \cup {t}
       /\ Finish(r)
  /\ UNCHANGED <<user, verification, reset, created>>

(* logout deletes the token of the cookie. *)
Logout(t) ==
  /\ refresh[t] # NoRow
  /\ TokenFree(t)
  /\ refresh' = Without({t})
  /\ UNCHANGED <<user, verification, reset, issued, created, pc, tx>>

----------------------------------------------------------------------------
(* forgotPassword finds an active user, ... *)
ForgotRead(r) ==
  /\ Begin(r)
  /\ user # NoRow /\ user.active
  /\ Goto(r, "forgot", [Blank EXCEPT !.row = user])
  /\ UNCHANGED <<tables, issued, created>>

(* ... replaces its link, waiting for a reset under way, ... *)
ForgotUpsert(r) ==
  /\ At(r, "forgot")
  /\ IF user # NoRow /\ user.id = tx[r].row.id
       THEN /\ ResetFree
            /\ \E l \in Fresh(Links) :
                 /\ reset' = [link |-> l, expired |-> FALSE]
                 /\ issued' = issued \cup {l}
                 /\ Goto(r, "resetMail", tx[r])
       ELSE Finish(r) /\ UNCHANGED <<reset, issued>>
  /\ UNCHANGED <<user, refresh, verification, created>>

(* ... and mails it ... *)
ResetSent(r) ==
  /\ At(r, "resetMail")
  /\ Finish(r)
  /\ UNCHANGED <<tables, issued, created>>

(* ... or deletes whatever link the user has by then. *)
ResetMailFailed(r) ==
  /\ At(r, "resetMail")
  /\ ResetFree
  /\ reset' = IF user # NoRow /\ user.id = tx[r].row.id THEN NoRow ELSE reset
  /\ Finish(r)
  /\ UNCHANGED <<user, refresh, verification, issued, created>>

(* resetPassword reads the link, and deletes it once expired; then it       *)
(* hashes the new password.                                                 *)
ResetRead(r) ==
  /\ Begin(r)
  /\ reset # NoRow
  /\ IF reset.expired
       THEN ResetFree /\ reset' = NoRow /\ Finish(r)
       ELSE /\ user.hash < MaxHash
            /\ Goto(r, "reset", [Blank EXCEPT !.link = reset.link, !.row = user])
            /\ UNCHANGED reset
  /\ UNCHANGED <<user, refresh, verification, issued, created>>

(* Mutant: the transaction does not look how many links it deleted. *)
ResetWriteAnyway(r) ==
  /\ At(r, "reset")
  /\ ResetFree /\ UserFree
  /\ IF user # NoRow /\ user.id = tx[r].row.id /\ user.hash < MaxHash
       THEN Goto(r, "password", [tx[r] EXCEPT !.snap = Live])
       ELSE Finish(r)
  /\ UNCHANGED <<tables, issued, created>>

(* The transaction deletes the link if it is still there and has not        *)
(* expired, updates the user and begins to delete the tokens it can see.    *)
ResetWrite(r) ==
  /\ At(r, "reset")
  /\ ResetFree
  /\ IF reset # NoRow /\ reset.link = tx[r].link /\ ~reset.expired
       THEN /\ UserFree /\ user.hash < MaxHash
            /\ Goto(r, "password", [tx[r] EXCEPT !.snap = Live])
       ELSE Finish(r)
  /\ UNCHANGED <<tables, issued, created>>

(* changeCurrentPassword has compared the current password ... *)
ChangeRead(r) ==
  /\ Begin(r)
  /\ LoginUsable(user) /\ user.hash < MaxHash
  /\ Goto(r, "change", [Blank EXCEPT !.row = user])
  /\ UNCHANGED <<tables, issued, created>>

(* Mutant: the hash is not compared again. *)
ChangeWriteUnchecked(r) ==
  /\ At(r, "change")
  /\ UserFree
  /\ IF user # NoRow /\ user.id = tx[r].row.id /\ user.hash < MaxHash
       THEN Goto(r, "password", [tx[r] EXCEPT !.snap = Live])
       ELSE Finish(r)
  /\ UNCHANGED <<tables, issued, created>>

(* ... and replaces the hash it compared with. *)
ChangeWrite(r) ==
  /\ At(r, "change")
  /\ UserFree
  /\ IF user # NoRow /\ user.id = tx[r].row.id /\ user.hash = tx[r].row.hash
       THEN Goto(r, "password", [tx[r] EXCEPT !.snap = Live])
       ELSE Finish(r)
  /\ UNCHANGED <<tables, issued, created>>

(* Either one waits for the rotations that hold one of those tokens; their  *)
(* successors are not among them.                                           *)
PasswordCommit(r) ==
  /\ At(r, "password")
  /\ \A t \in tx[r].snap : TokenFree(t)
  /\ user' = [user EXCEPT !.hash = @ + 1]
  /\ refresh' = Without(tx[r].snap)
  /\ reset' = IF tx[r].link = NoRow THEN reset ELSE NoRow
  /\ FinishWrite(r)
  /\ UNCHANGED <<verification, issued, created>>

----------------------------------------------------------------------------
(* An administrator suspends the account in a SERIALIZABLE transaction,     *)
(* which takes its snapshot ...                                             *)
SuspendBegin(r) ==
  /\ Begin(r)
  /\ user # NoRow
  /\ Goto(r, "suspend", [Blank EXCEPT !.snap = Live,
                           !.saw = [reset |-> reset, verification |-> verification]])
  /\ UNCHANGED <<tables, issued, created>>

Other(row, seen) == row = NoRow \/ row.link # seen.link

(* Mutant: at READ COMMITTED every row it meets is simply deleted. *)
SuspendReadCommitted(r) ==
  /\ At(r, "suspend")
  /\ UserFree /\ ResetFree /\ \A t \in tx[r].snap : TokenFree(t)
  /\ IF user = NoRow
       THEN Finish(r) /\ UNCHANGED tables
       ELSE /\ user' = [user EXCEPT !.active = FALSE, !.lock = "none"]
            /\ refresh' = Without(tx[r].snap)
            /\ reset' = NoRow /\ verification' = NoRow
            /\ FinishWrite(r)
  /\ UNCHANGED <<issued, created>>

(* ... and fails when a row it updates or deletes has changed since; the    *)
(* retry is a request of its own.                                           *)
SuspendCommit(r) ==
  LET t == tx[r]
      changed == \/ t.stale
                 \/ \E k \in t.snap : refresh[k] = NoRow
                 \/ t.saw.reset # NoRow /\ Other(reset, t.saw.reset)
                 \/ t.saw.verification # NoRow /\ Other(verification, t.saw.verification)
  IN /\ At(r, "suspend")
     /\ UserFree /\ ResetFree /\ \A k \in t.snap : TokenFree(k)
     /\ IF changed
          THEN Finish(r) /\ UNCHANGED tables
          ELSE /\ user' = [user EXCEPT !.active = FALSE, !.lock = "none"]
               /\ refresh' = Without(t.snap)
               /\ reset' = IF t.saw.reset = NoRow THEN reset ELSE NoRow
               /\ verification' = IF t.saw.verification = NoRow THEN verification ELSE NoRow
               /\ FinishWrite(r)
     /\ UNCHANGED <<issued, created>>

(* Reactivation updates the row; of concurrent updates one fails. *)
Reactivate(r) ==
  /\ Begin(r)
  /\ UserFree
  /\ user # NoRow /\ ~user.active
  /\ user' = [user EXCEPT !.active = TRUE, !.lock = "none"]
  /\ FinishWrite(r)
  /\ UNCHANGED <<refresh, verification, reset, issued, created>>

(* The Worker stops, the verifier is unavailable, the connection is lost or *)
(* the database picks the transaction as the victim of a deadlock.          *)
Abandon(r) ==
  /\ ~At(r, "idle")
  /\ Finish(r)
  /\ UNCHANGED <<tables, issued, created>>

(* Time: LOCK_DURATION_MS, the hour or the day of a link, the week of a     *)
(* token, which the next read or the nightly job then deletes.              *)
LockEnds ==
  /\ user # NoRow /\ user.lock = "live"
  /\ user' = [user EXCEPT !.lock = "expired"]
  /\ UNCHANGED <<refresh, verification, reset, issued, created, pc, tx>>

LinkExpires ==
  /\ \/ /\ reset # NoRow /\ ~reset.expired
        /\ reset' = [reset EXCEPT !.expired = TRUE]
        /\ UNCHANGED verification
     \/ /\ verification # NoRow /\ ~verification.expired
        /\ verification' = [verification EXCEPT !.expired = TRUE]
        /\ UNCHANGED reset
  /\ UNCHANGED <<user, refresh, issued, created, pc, tx>>

ExpireSession(t) ==
  /\ refresh[t] # NoRow /\ TokenFree(t)
  /\ refresh' = Without({t})
  /\ UNCHANGED <<user, verification, reset, issued, created, pc, tx>>

----------------------------------------------------------------------------
Init ==
  /\ user = NoRow /\ verification = NoRow /\ reset = NoRow
  /\ refresh = [t \in Tokens |-> NoRow]
  /\ issued = {} /\ created = 0
  /\ pc = [r \in Requests |-> "idle"]
  /\ tx = [r \in Requests |-> Blank]

Registration(r) ==
  \/ RegisterRead(r) \/ CreateUser(r) \/ Reregister(r)
  \/ VerificationSent(r) \/ VerificationFailed(r)
  \/ VerifyRead(r) \/ VerifyCommit(r)

Session(r) ==
  \/ LoginRead(r) \/ OpenSession(r) \/ ClearExpiredLock(r) \/ CountFailure(r)
  \/ \E t \in Tokens : RefreshRead(r, t)
  \/ OwnerRead(r) \/ DropSession(r) \/ ConsumeToken(r) \/ CommitRotation(r)

Password(r) ==
  \/ ForgotRead(r) \/ ForgotUpsert(r) \/ ResetSent(r) \/ ResetMailFailed(r)
  \/ ResetRead(r) \/ ResetWrite(r) \/ ChangeRead(r) \/ ChangeWrite(r)
  \/ PasswordCommit(r)

Administration(r) == SuspendBegin(r) \/ SuspendCommit(r) \/ Reactivate(r)

Next ==
  \/ \E r \in Requests :
       Registration(r) \/ Session(r) \/ Password(r) \/ Administration(r) \/ Abandon(r)
  \/ \E t \in Tokens : Logout(t) \/ ExpireSession(t)
  \/ LockEnds \/ LinkExpires

Spec == Init /\ [][Next]_vars

----------------------------------------------------------------------------
Labels == {"idle", "register", "verificationMail", "verify", "open", "unlock", "count",
           "owner", "consume", "drop", "rotate", "forgot", "resetMail", "reset", "change",
           "password", "suspend"}

UserRow == [id : Nat, hash : Nat, verified : BOOLEAN, active : BOOLEAN,
            fails : 0 .. MaxLoginFail, lock : {"none", "live", "expired"}]
SessionRow == [owner : Nat, family : Tokens, hash : Nat]
LinkRow == [link : Links, expired : BOOLEAN]
ASSUME NoRowAssumption == NoRow \notin UserRow \cup SessionRow \cup LinkRow

TxType == [row : UserRow \cup SessionRow \cup {NoRow}, token : Tokens \cup {NoRow},
           link : Links \cup {NoRow}, snap : SUBSET Tokens,
           saw : [reset : LinkRow \cup {NoRow}, verification : LinkRow \cup {NoRow}],
           mine : BOOLEAN, stale : BOOLEAN]

TypeOK ==
  /\ user \in UserRow \cup {NoRow}
  /\ refresh \in [Tokens -> SessionRow \cup {NoRow}]
  /\ verification \in LinkRow \cup {NoRow}
  /\ reset \in LinkRow \cup {NoRow}
  /\ issued \subseteq Tokens \cup Links
  /\ created \in Nat
  /\ pc \in [Requests -> Labels]
  /\ tx \in [Requests -> TxType]

----------------------------------------------------------------------------
(* One login has one live refresh token, however its rotations race: a     *)
(* token is replaced once (refreshAccessToken, "単回使用").                *)
OneSessionPerLogin ==
  \A s, t \in Live : refresh[s].family = refresh[t].family => s = t

(* Whoever can refresh is the account of today, verified and active: a     *)
(* login or a rotation that races a suspension leaves no token behind.     *)
SessionsBelong ==
  \A t \in Live : /\ user # NoRow /\ user.verified /\ user.active
                  /\ refresh[t].owner = user.id

Sets(r) == pc[r] = "password" /\ user' # NoRow /\ user' # user /\ user'.hash # user.hash

(* A mailed link sets a password once, and only the newest link does: two  *)
(* resets with one link, or with an old one, do not both succeed.          *)
ResetLinkOnce ==
  [][\A r \in Requests :
       Sets(r) /\ pc'[r] = "idle" /\ tx[r].link # NoRow
       => reset # NoRow /\ reset.link = tx[r].link /\ reset' = NoRow]_vars

(* A password change replaces the password its user has typed, not one set *)
(* meanwhile by a reset or by another change.                              *)
ChangeKnowsPassword ==
  [][\A r \in Requests :
       Sets(r) /\ pc'[r] = "idle" /\ tx[r].link = NoRow
       => user.id = tx[r].row.id /\ user.hash = tx[r].row.hash]_vars

(* After a reset or a change of the password every device is logged out:   *)
(* no refresh token is left when it commits.                               *)
LoggedOutEverywhere ==
  [][\A r \in Requests : Sets(r) /\ pc'[r] = "idle" => Live' = {}]_vars

(* A failed mail takes back the registration, never a verified account.    *)
VerifiedStays ==
  [][user # NoRow /\ user.verified => user' # NoRow]_vars
=============================================================================
