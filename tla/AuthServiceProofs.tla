-------------------------- MODULE AuthServiceProofs --------------------------
(***************************************************************************)
(* Proofs about AuthService, for any requests, tokens, links and bounds.   *)
(***************************************************************************)
EXTENDS AuthService, TLAPS

Rotating == {"owner", "consume", "drop", "rotate"}

(* The rows refer to each other as the schema demands, and nothing the     *)
(* service generates comes twice.                                          *)
Tables ==
  /\ Live \subseteq issued
  /\ \A t \in Live : refresh[t].family \in issued
  /\ user = NoRow => verification = NoRow /\ reset = NoRow
  /\ OneSessionPerLogin /\ SessionsBelong

(* A refresh token is what it was when it was read, or is gone. *)
ReadToken(r) ==
  pc[r] \in Rotating =>
    /\ tx[r].token \in Tokens \cap issued /\ tx[r].row \in SessionRow
    /\ refresh[tx[r].token] \in {tx[r].row, NoRow}
    /\ pc[r] = "rotate" => refresh[tx[r].token] = tx[r].row

(* While a password is being set neither the row nor the link changes. *)
SetsPassword(r) ==
  pc[r] = "password" =>
    /\ user # NoRow
    /\ tx[r].link = NoRow => user.id = tx[r].row.id /\ user.hash = tx[r].row.hash
    /\ tx[r].link # NoRow => reset # NoRow /\ reset.link = tx[r].link

(* A suspension that will not fail has all refresh tokens in its snapshot. *)
Suspends(r) ==
  pc[r] = "suspend" =>
    /\ tx[r].snap \subseteq issued
    /\ \/ tx[r].stale
       \/ user # NoRow /\ (Live \subseteq tx[r].snap \/ \E k \in tx[r].snap : refresh[k] = NoRow)

Carries(r) ==
  /\ pc[r] \in {"open", "unlock", "count"} => tx[r].row \in UserRow
  /\ pc[r] = "change" => tx[r].link = NoRow

Held(r) == Carries(r) /\ ReadToken(r) /\ SetsPassword(r) /\ Suspends(r)

(* Row locks have one holder. *)
Exclusive ==
  \A q, r \in Requests : q # r =>
    /\ ~(pc[q] = "password" /\ pc[r] = "password")
    /\ pc[q] = "rotate" /\ pc[r] = "rotate" => tx[q].token # tx[r].token

IInv == TypeOK /\ Tables /\ Exclusive /\ \A r \in Requests : Held(r)

----------------------------------------------------------------------------
LEMMA BlankTyped == Blank \in TxType
BY DEF Blank, TxType

LEMMA NoRows == NoRow \notin UserRow /\ NoRow \notin SessionRow /\ NoRow \notin LinkRow /\ NoRow \notin Links
BY NoRowAssumption, AuthAssumption

LEMMA LockWritten ==
  ASSUME NEW u \in UserRow, NEW n \in 0 .. MaxLoginFail, NEW l \in {"none", "live", "expired"}
  PROVE  LET new == [u EXCEPT !.fails = n, !.lock = l]
         IN /\ new \in UserRow /\ new.id = u.id /\ new.hash = u.hash
            /\ new.verified = u.verified /\ new.active = u.active
BY DEF UserRow

LEMMA Zero == 0 \in 0 .. MaxLoginFail
BY AuthAssumption

LEMMA InitIInv == Init => IInv
<1> SUFFICES ASSUME Init PROVE IInv
  OBVIOUS
<1>1. TypeOK
  BY BlankTyped DEF Init, TypeOK, Labels
<1>2. Live = {}
  BY DEF Init, Live
<1>3. Tables
  BY <1>2 DEF Init, Tables, OneSessionPerLogin, SessionsBelong
<1>4. Exclusive /\ \A r \in Requests : Held(r)
  BY DEF Init, Exclusive, Held, Carries, ReadToken, SetsPassword, Suspends, Rotating
<1> QED BY <1>1, <1>3, <1>4 DEF IInv

----------------------------------------------------------------------------
(* What a step of one request, or of none, does to the others.             *)

(* The record of a request that does not take the step. *)
Waits(q) ==
  /\ pc'[q] = pc[q]
  /\ tx'[q] = tx[q] \/ (pc[q] = "suspend" /\ tx'[q] = [tx[q] EXCEPT !.stale = TRUE])

LEMMA WaitsSame ==
  ASSUME TypeOK, NEW q \in Requests, Waits(q)
  PROVE  /\ tx'[q] \in TxType /\ tx'[q].row = tx[q].row /\ tx'[q].token = tx[q].token
         /\ tx'[q].link = tx[q].link /\ tx'[q].snap = tx[q].snap /\ (tx[q].stale => tx'[q].stale)
<1>1. tx[q] \in TxType
  BY DEF TypeOK
<1> QED BY <1>1 DEF Waits, TxType

(* The tables change in a way that keeps what request q relies on. *)
Bearable(q) ==
  /\ issued \subseteq issued'
  /\ \A t \in Tokens \cap issued : refresh'[t] \in {refresh[t], NoRow}
  /\ pc[q] = "rotate" => refresh'[tx[q].token] = refresh[tx[q].token]
  /\ pc[q] = "password" =>
       /\ user' # NoRow /\ user'.id = user.id /\ user'.hash = user.hash
       /\ tx[q].link # NoRow => reset' # NoRow /\ reset'.link = reset.link
  /\ pc[q] = "suspend" =>
       \/ tx'[q].stale
       \/ /\ user # NoRow => user' # NoRow
          /\ Live' \subseteq Live \/ \E k \in Live : refresh'[k] = NoRow

LEMMA OthersKeep ==
  ASSUME IInv, NEW q \in Requests, Waits(q), Bearable(q)
  PROVE  Held(q)'
<1>1. TypeOK /\ Held(q) /\ Live \subseteq Tokens \cap issued
  BY DEF IInv, Tables, Live
<1>2. /\ pc'[q] = pc[q] /\ tx'[q].row = tx[q].row /\ tx'[q].token = tx[q].token
      /\ tx'[q].link = tx[q].link /\ tx'[q].snap = tx[q].snap /\ (tx[q].stale => tx'[q].stale)
  BY <1>1, WaitsSame DEF Waits
<1>3. Carries(q)'
  BY <1>1, <1>2 DEF Held, Carries
<1>4. ReadToken(q)'
  BY <1>1, <1>2 DEF Held, ReadToken, Bearable, Rotating
<1>5. SetsPassword(q)'
  BY <1>1, <1>2 DEF Held, SetsPassword, Bearable
<1>6. Suspends(q)'
  <2> SUFFICES ASSUME pc[q] = "suspend", ~tx'[q].stale
               PROVE  /\ tx[q].snap \subseteq issued'
                      /\ user' # NoRow
                      /\ Live' \subseteq tx[q].snap \/ \E k \in tx[q].snap : refresh'[k] = NoRow
    BY <1>1, <1>2 DEF Suspends, Held, Bearable
  <2>1. /\ tx[q].snap \subseteq issued /\ user # NoRow
        /\ Live \subseteq tx[q].snap \/ \E k \in tx[q].snap : refresh[k] = NoRow
    BY <1>1, <1>2 DEF Held, Suspends
  <2>2. user' # NoRow /\ (Live' \subseteq Live \/ \E k \in Live : refresh'[k] = NoRow)
    BY <2>1 DEF Bearable
  <2>3. tx[q].snap \subseteq Tokens
    BY <1>1 DEF TypeOK, TxType
  <2>4. CASE Live \subseteq tx[q].snap
    BY <2>1, <2>2, <2>4 DEF Bearable
  <2>5. CASE \E k \in tx[q].snap : refresh[k] = NoRow
    BY <2>1, <2>2, <2>3, <2>5 DEF Bearable
  <2> QED BY <2>1, <2>2, <2>4, <2>5 DEF Bearable
<1> QED BY <1>3, <1>4, <1>5, <1>6 DEF Held

TablesTyped ==
  /\ user \in UserRow \cup {NoRow} /\ refresh \in [Tokens -> SessionRow \cup {NoRow}]
  /\ verification \in LinkRow \cup {NoRow} /\ reset \in LinkRow \cup {NoRow}
  /\ issued \subseteq Tokens \cup Links /\ created \in Nat

(* A step that no request takes. *)
LEMMA NobodysStep ==
  ASSUME IInv, UNCHANGED <<pc, tx>>, TablesTyped', Tables', \A q \in Requests : Bearable(q)
  PROVE  IInv'
<1>1. \A q \in Requests : Held(q)'
  BY OthersKeep DEF Waits
<1>2. TypeOK' /\ Exclusive'
  BY DEF IInv, TypeOK, TablesTyped, Exclusive
<1> QED BY <1>1, <1>2 DEF IInv

(* A step of request r. *)
LEMMA StepKeeps ==
  ASSUME IInv, NEW r \in Requests, NEW label \in Labels, NEW t \in TxType, NEW wrote \in BOOLEAN,
         Step(r, label, t, wrote), TablesTyped', Tables', Held(r)',
         \A q \in Requests \ {r} : Bearable(q),
         label = "password" => \A q \in Requests \ {r} : pc[q] # "password",
         label = "rotate" => \A q \in Requests \ {r} : pc[q] = "rotate" => tx[q].token # t.token
  PROVE  IInv'
<1>1. TypeOK /\ Exclusive
  BY DEF IInv
<1>2. pc'[r] = label /\ tx'[r] = t
  BY <1>1 DEF Step, TypeOK
<1>3. \A q \in Requests \ {r} : Waits(q)
  BY <1>1 DEF Step, TypeOK, Waits
<1>4. \A q \in Requests \ {r} : /\ pc'[q] = pc[q] /\ tx'[q] \in TxType /\ tx'[q].token = tx[q].token
                                /\ Held(q)'
  BY <1>1, <1>3, WaitsSame, OthersKeep DEF Waits
<1>5. pc' \in [Requests -> Labels] /\ tx' \in [Requests -> TxType]
  <2>1. \A q \in Requests : tx'[q] \in TxType
    BY <1>2, <1>4
  <2>2. DOMAIN tx' = Requests /\ tx' = [q \in Requests |-> tx'[q]]
    BY DEF Step
  <2>3. tx' \in [Requests -> TxType]
    BY <2>1, <2>2
  <2> QED BY <1>1, <2>3 DEF Step, TypeOK
<1>6. TypeOK'
  BY <1>5 DEF TypeOK, TablesTyped
<1>7. Exclusive'
  <2> SUFFICES ASSUME NEW p \in Requests, NEW q \in Requests, p # q
               PROVE  /\ ~(pc'[p] = "password" /\ pc'[q] = "password")
                      /\ pc'[p] = "rotate" /\ pc'[q] = "rotate" => tx'[p].token # tx'[q].token
    BY DEF Exclusive
  <2>1. CASE p = r
    BY <1>2, <1>4, <2>1
  <2>2. CASE q = r
    BY <1>2, <1>4, <2>2
  <2>3. CASE p # r /\ q # r
    BY <1>1, <1>4, <2>3 DEF Exclusive
  <2> QED BY <2>1, <2>2, <2>3
<1> QED BY <1>4, <1>6, <1>7 DEF IInv

----------------------------------------------------------------------------
(* The labels at which a request holds and relies on nothing. *)
Easy == {"idle", "register", "verificationMail", "verify", "forgot", "resetMail", "reset"}

LEMMA EasyHeld ==
  ASSUME NEW r \in Requests, pc'[r] \in Easy
  PROVE  Held(r)'
BY DEF Easy, Held, Carries, ReadToken, SetsPassword, Suspends, Rotating

LEMMA StepTaken ==
  ASSUME TypeOK, NEW r \in Requests, NEW label, NEW t, NEW wrote, Step(r, label, t, wrote)
  PROVE  /\ pc'[r] = label /\ tx'[r] = t
         /\ wrote => \A q \in Requests \ {r} : pc[q] = "suspend" => tx'[q].stale
<1>1. pc'[r] = label /\ tx'[r] = t
  BY DEF Step, TypeOK
<1>2. \A q \in Requests \ {r} : wrote /\ pc[q] = "suspend" => tx'[q] = [tx[q] EXCEPT !.stale = TRUE]
  BY DEF Step
<1>3. \A q \in Requests : [tx[q] EXCEPT !.stale = TRUE].stale
  BY DEF TypeOK, TxType
<1> QED BY <1>1, <1>2, <1>3

(* A step that writes nothing. *)
LEMMA GotoKeeps ==
  ASSUME IInv, NEW r \in Requests, NEW label \in Labels, NEW t \in TxType,
         Goto(r, label, t), UNCHANGED <<tables, issued, created>>, Held(r)',
         label = "password" => \A q \in Requests \ {r} : pc[q] # "password",
         label = "rotate" => \A q \in Requests \ {r} : pc[q] = "rotate" => tx[q].token # t.token
  PROVE  IInv'
<1>1. TablesTyped' /\ Tables' /\ Live' = Live
  BY DEF IInv, TypeOK, TablesTyped, Tables, tables, Live, OneSessionPerLogin, SessionsBelong
<1>2. \A q \in Requests \ {r} : Bearable(q)
  BY <1>1 DEF Bearable, tables, IInv, Held, SetsPassword
<1> QED BY <1>1, <1>2, StepKeeps DEF Goto

LEMMA GotoEasy ==
  ASSUME IInv, NEW r \in Requests, NEW label \in Easy, NEW t \in TxType,
         Goto(r, label, t), UNCHANGED <<tables, issued, created>>
  PROVE  IInv'
<1>1. Held(r)'
  BY StepTaken, EasyHeld DEF Goto, IInv
<1>2. label \in Labels /\ label \notin {"password", "rotate"}
  BY DEF Easy, Labels
<1> QED BY <1>1, <1>2, GotoKeeps

LEMMA FinishKeeps ==
  ASSUME IInv, NEW r \in Requests, Finish(r), UNCHANGED <<tables, issued, created>>
  PROVE  IInv'
BY GotoEasy, BlankTyped DEF Finish, Easy

(* Rows of refresh tokens, of links and of the user that only disappear.   *)
LEMMA RowsGo ==
  ASSUME IInv, TablesTyped', UNCHANGED <<issued, created>>,
         \A t \in Tokens : refresh'[t] \in {refresh[t], NoRow},
         \/ Live' = {}
         \/ /\ user' \in UserRow /\ user \in UserRow /\ user'.id = user.id
            /\ user.verified => user'.verified
            /\ user.active => user'.active,
         user' = NoRow => verification' = NoRow /\ reset' = NoRow
  PROVE  Tables' /\ Live' \subseteq Live
<1>1. Live' \subseteq Live /\ \A t \in Live' : refresh'[t] = refresh[t]
  BY DEF Live
<1>2. OneSessionPerLogin'
  BY <1>1 DEF IInv, Tables, OneSessionPerLogin
<1>3. SessionsBelong'
  <2> SUFFICES ASSUME NEW t \in Live'
               PROVE  user' # NoRow /\ user'.verified /\ user'.active /\ refresh'[t].owner = user'.id
    BY DEF SessionsBelong
  <2>1. user # NoRow /\ user.verified /\ user.active /\ refresh[t].owner = user.id
    BY <1>1 DEF IInv, Tables, SessionsBelong
  <2> QED BY <1>1, <2>1, NoRows
<1> QED BY <1>1, <1>2, <1>3 DEF IInv, Tables

(* What a token that somebody else holds is protected from. *)
LEMMA WithoutTyped ==
  ASSUME TypeOK, NEW S
  PROVE  /\ Without(S) \in [Tokens -> SessionRow \cup {NoRow}]
         /\ \A t \in Tokens : Without(S)[t] = IF t \in S THEN NoRow ELSE refresh[t]
BY DEF Without, TypeOK

----------------------------------------------------------------------------
LEMMA RegistrationKeeps ==
  ASSUME IInv, NEW r \in Requests,
         RegisterRead(r) \/ VerificationSent(r) \/ VerifyRead(r)
  PROVE  IInv'
<1>1. TypeOK /\ user \in UserRow \cup {NoRow}
  BY DEF IInv, TypeOK
<1>2. CASE RegisterRead(r)
  <2>1. [Blank EXCEPT !.row = user] \in TxType
    BY <1>1, BlankTyped DEF TxType
  <2> QED BY <1>2, <2>1, GotoEasy DEF RegisterRead, Easy
<1>3. CASE VerificationSent(r)
  BY <1>3, FinishKeeps DEF VerificationSent
<1>4. CASE VerifyRead(r)
  <2>1. CASE verification.expired
    <3>1. Step(r, "idle", Blank, FALSE) /\ UNCHANGED <<user, refresh, reset, issued, created>> /\ verification' = NoRow
      BY <1>4, <2>1 DEF VerifyRead, Finish, Goto
    <3>2. TablesTyped' /\ Tables' /\ Live' = Live
      BY <1>1, <3>1 DEF IInv, TypeOK, TablesTyped, Tables, Live, OneSessionPerLogin, SessionsBelong
    <3>3. \A q \in Requests \ {r} : Bearable(q)
      BY <3>1, <3>2 DEF Bearable, IInv, Held, SetsPassword
    <3>4. Held(r)'
      BY <1>1, <3>1, StepTaken, EasyHeld DEF Easy
    <3> QED BY <3>1, <3>2, <3>3, <3>4, BlankTyped, StepKeeps DEF Labels
  <2>2. CASE ~verification.expired
    <3>1. verification \in LinkRow
      BY <1>1, <1>4 DEF VerifyRead, TypeOK
    <3>2. [Blank EXCEPT !.link = verification.link, !.row = user] \in TxType
      BY <1>1, <3>1, BlankTyped DEF TxType, LinkRow
    <3> QED BY <1>4, <2>2, <3>2, GotoEasy DEF VerifyRead, Easy, tables
  <2> QED BY <2>1, <2>2
<1> QED BY <1>2, <1>3, <1>4

(* A write of the user's row alone, while nobody sets a password, keeps    *)
(* what the others rely on.                                                *)
LEMMA UserWritten ==
  ASSUME IInv, NEW r \in Requests, NEW label \in Easy \cup {"count"}, NEW t \in TxType,
         Step(r, label, t, TRUE), UNCHANGED refresh, TablesTyped', Tables',
         issued \subseteq issued', UserFree, label = "count" => t.row \in UserRow
  PROVE  IInv'
<1>1. TypeOK /\ Live' = Live
  BY DEF IInv, Live
<1>2. \A q \in Requests \ {r} : Bearable(q)
  BY <1>1, StepTaken DEF Bearable, UserFree
<1>3. Held(r)'
  <2>1. pc'[r] = label /\ tx'[r] = t
    BY <1>1, StepTaken
  <2>2. CASE label \in Easy
    BY <2>1, <2>2, EasyHeld
  <2>3. CASE label = "count"
    BY <2>1, <2>3 DEF Held, Carries, ReadToken, SetsPassword, Suspends, Rotating
  <2> QED BY <2>2, <2>3
<1>4. label \in Labels \ {"password", "rotate"}
  BY DEF Easy, Labels
<1> QED BY <1>2, <1>3, <1>4, StepKeeps

LEMMA CreateKeeps ==
  ASSUME IInv, NEW r \in Requests, CreateUser(r)
  PROVE  IInv'
<1>1. TypeOK /\ Tables
  BY DEF IInv
<1>2. CASE user # NoRow
  BY <1>2, FinishKeeps DEF CreateUser, tables
<1>3. CASE user = NoRow
  <2>1. PICK l \in Fresh(Links) :
          /\ user' = [id |-> created + 1, hash |-> 0, verified |-> FALSE, active |-> TRUE,
                      fails |-> 0, lock |-> "none"]
          /\ verification' = [link |-> l, expired |-> FALSE]
          /\ issued' = issued \cup {l} /\ created' = created + 1
          /\ Step(r, "verificationMail", [Blank EXCEPT !.row = user', !.mine = TRUE], TRUE)
    BY <1>3 DEF CreateUser
  <2>2. UNCHANGED <<refresh, reset>> /\ l \in Links
    BY DEF CreateUser, Fresh
  <2>3. user' \in UserRow /\ verification' \in LinkRow /\ created' \in Nat
    BY <1>1, <2>1, <2>2, AuthAssumption DEF UserRow, LinkRow, TypeOK
  <2>4. TablesTyped'
    BY <1>1, <2>1, <2>2, <2>3 DEF TablesTyped, TypeOK
  <2>5. Live = {} /\ Live' = {}
    BY <1>1, <1>3, <2>2 DEF Tables, SessionsBelong, Live
  <2>6. Tables'
    BY <1>1, <2>1, <2>2, <2>3, <2>5, NoRows DEF Tables, OneSessionPerLogin, SessionsBelong
  <2>7. UserFree
    BY <1>3 DEF IInv, Held, SetsPassword, UserFree
  <2>8. [Blank EXCEPT !.row = user', !.mine = TRUE] \in TxType
    BY <2>3, BlankTyped DEF TxType
  <2> QED BY <2>1, <2>2, <2>4, <2>6, <2>7, <2>8, UserWritten DEF Easy
<1> QED BY <1>2, <1>3

LEMMA ReregisterKeeps ==
  ASSUME IInv, NEW r \in Requests, Reregister(r)
  PROVE  IInv'
<1>1. TypeOK /\ Tables
  BY DEF IInv
<1>2. CASE user = NoRow \/ user.id # tx[r].row.id
  BY <1>2, FinishKeeps DEF Reregister, tables
<1>3. CASE user # NoRow /\ user.id = tx[r].row.id
  <2>1. PICK l \in Fresh(Links) :
          /\ UserFree /\ user' = [user EXCEPT !.hash = @ + 1]
          /\ verification' = [link |-> l, expired |-> FALSE]
          /\ issued' = issued \cup {l}
          /\ Step(r, "verificationMail", [Blank EXCEPT !.row = user'], TRUE)
    BY <1>3 DEF Reregister
  <2>2. UNCHANGED <<refresh, reset, created>> /\ l \in Links
    BY DEF Reregister, Fresh
  <2>3. /\ user \in UserRow /\ user' \in UserRow /\ verification' \in LinkRow
        /\ user'.id = user.id /\ user'.verified = user.verified /\ user'.active = user.active
    BY <1>1, <1>3, <2>1, <2>2 DEF UserRow, LinkRow, TypeOK
  <2>4. TablesTyped'
    BY <1>1, <2>1, <2>2, <2>3 DEF TablesTyped, TypeOK
  <2>5. Live' = Live
    BY <2>2 DEF Live
  <2>6. Tables'
    BY <1>1, <2>1, <2>2, <2>3, <2>5, NoRows DEF Tables, OneSessionPerLogin, SessionsBelong
  <2>7. [Blank EXCEPT !.row = user'] \in TxType
    BY <2>3, BlankTyped DEF TxType
  <2> QED BY <2>1, <2>2, <2>4, <2>6, <2>7, UserWritten DEF Easy
<1> QED BY <1>2, <1>3

LEMMA VerificationFailedKeeps ==
  ASSUME IInv, NEW r \in Requests, VerificationFailed(r)
  PROVE  IInv'
<1>1. TypeOK /\ Tables
  BY DEF IInv
<1>2. CASE user = NoRow \/ user.id # tx[r].row.id
  BY <1>2, FinishKeeps DEF VerificationFailed
<1>3. CASE ~(user = NoRow \/ user.id # tx[r].row.id) /\ tx[r].mine
  <2>1. /\ UserFree /\ ResetFree /\ \A t \in Live : TokenFree(t)
        /\ user' = NoRow /\ verification' = NoRow /\ reset' = NoRow
        /\ refresh' = Without(Tokens) /\ FinishWrite(r) /\ UNCHANGED <<issued, created>>
    BY <1>3 DEF VerificationFailed
  <2>2. refresh' \in [Tokens -> SessionRow \cup {NoRow}] /\ \A t \in Tokens : refresh'[t] = NoRow
    BY <1>1, <2>1, WithoutTyped
  <2>3. Live' = {} /\ TablesTyped'
    BY <1>1, <2>1, <2>2 DEF Live, TablesTyped, TypeOK
  <2>4. Tables'
    BY <2>1, <2>2, <2>3, RowsGo
  <2>5. \A q \in Requests \ {r} : Bearable(q)
    <3> TAKE q \in Requests \ {r}
    <3>1. pc[q] # "rotate"
      <4> SUFFICES ASSUME pc[q] = "rotate" PROVE FALSE
        OBVIOUS
      <4>1. tx[q].token \in Live
        BY NoRows DEF IInv, Held, ReadToken, Rotating, Live
      <4> QED BY <2>1, <4>1 DEF TokenFree
    <3>2. pc[q] = "suspend" => tx'[q].stale
      BY <1>1, <2>1, StepTaken DEF FinishWrite
    <3> QED BY <2>1, <2>2, <3>1, <3>2 DEF Bearable, UserFree
  <2>6. Held(r)'
    BY <1>1, <2>1, StepTaken, EasyHeld DEF Easy, FinishWrite
  <2> QED BY <2>1, <2>3, <2>4, <2>5, <2>6, BlankTyped, StepKeeps DEF Labels, FinishWrite
<1>4. CASE ~(user = NoRow \/ user.id # tx[r].row.id) /\ ~tx[r].mine
  <2>1. /\ verification' = NoRow /\ Step(r, "idle", Blank, FALSE)
        /\ UNCHANGED <<user, refresh, reset, issued, created>>
    BY <1>4 DEF VerificationFailed, Finish, Goto
  <2>2. TablesTyped' /\ Tables' /\ Live' = Live
    BY <1>1, <2>1 DEF TypeOK, TablesTyped, Tables, Live, OneSessionPerLogin, SessionsBelong
  <2>3. \A q \in Requests \ {r} : Bearable(q)
    BY <2>1, <2>2 DEF Bearable, IInv, Held, SetsPassword
  <2>4. Held(r)'
    BY <1>1, <2>1, StepTaken, EasyHeld DEF Easy
  <2> QED BY <2>1, <2>2, <2>3, <2>4, BlankTyped, StepKeeps DEF Labels
<1> QED BY <1>2, <1>3, <1>4

LEMMA VerifyCommitKeeps ==
  ASSUME IInv, NEW r \in Requests, VerifyCommit(r)
  PROVE  IInv'
<1>1. TypeOK /\ Tables
  BY DEF IInv
<1>2. CASE ~(verification # NoRow /\ verification.link = tx[r].link)
  BY <1>2, FinishKeeps DEF VerifyCommit, tables
<1>3. CASE verification # NoRow /\ verification.link = tx[r].link
  <2>1. /\ UserFree /\ verification' = NoRow /\ user' = [user EXCEPT !.verified = TRUE]
        /\ Step(r, "idle", Blank, TRUE) /\ UNCHANGED <<refresh, reset, issued, created>>
    BY <1>3 DEF VerifyCommit, FinishWrite
  <2>2. user \in UserRow
    BY <1>1, <1>3 DEF Tables, TypeOK
  <2>3. /\ user' \in UserRow /\ user'.id = user.id /\ user'.verified /\ user'.active = user.active
    BY <2>1, <2>2 DEF UserRow
  <2>4. TablesTyped' /\ \A t \in Tokens : refresh'[t] = refresh[t]
    BY <1>1, <2>1, <2>3 DEF TablesTyped, TypeOK
  <2>5. Tables'
    BY <2>1, <2>2, <2>3, <2>4, NoRows, RowsGo
  <2> QED BY <2>1, <2>4, <2>5, BlankTyped, UserWritten DEF Easy
<1> QED BY <1>2, <1>3

----------------------------------------------------------------------------
LEMMA LoginKeeps ==
  ASSUME IInv, NEW r \in Requests, LoginRead(r)
  PROVE  IInv'
<1>1. TypeOK /\ user \in UserRow
  BY DEF IInv, TypeOK, LoginRead, LoginUsable
<1>2. PICK label \in {"open", "unlock", "count"} : Goto(r, label, [Blank EXCEPT !.row = user])
  BY DEF LoginRead
<1>3. [Blank EXCEPT !.row = user] \in TxType /\ [Blank EXCEPT !.row = user].row = user
  BY <1>1, BlankTyped DEF TxType
<1>4. pc'[r] = label /\ tx'[r].row = user
  BY <1>1, <1>2, <1>3, StepTaken DEF Goto
<1>5. Held(r)'
  BY <1>1, <1>4 DEF Held, Carries, ReadToken, SetsPassword, Suspends, Rotating
<1> QED BY <1>2, <1>3, <1>5, GotoKeeps DEF LoginRead, Labels

LEMMA OpenKeeps ==
  ASSUME IInv, NEW r \in Requests, OpenSession(r)
  PROVE  IInv'
<1>1. TypeOK /\ Tables /\ (pc[r] = "open" => tx[r].row \in UserRow)
  BY DEF IInv, Held, Carries
<1>2. CASE ~(LoginUsable(user) /\ user.id = tx[r].row.id)
  BY <1>2, FinishKeeps DEF OpenSession, tables
<1>3. CASE LoginUsable(user) /\ user.id = tx[r].row.id
  <2>1. PICK t \in Fresh(Tokens) :
          /\ user' = [user EXCEPT !.fails = 0, !.lock = "none"]
          /\ refresh' = [refresh EXCEPT ![t] = [owner |-> user.id, family |-> t, hash |-> tx[r].row.hash]]
          /\ issued' = issued \cup {t}
          /\ Step(r, "idle", Blank, TRUE)
    BY <1>3 DEF OpenSession, FinishWrite
  <2>2. UNCHANGED <<verification, reset, created>> /\ UserFree /\ pc[r] = "open"
    BY DEF OpenSession, At
  <2>3. t \in Tokens /\ t \notin issued
    BY DEF Fresh
  <2>4. user \in UserRow /\ user.verified /\ user.active
    BY <1>1, <1>3 DEF TypeOK, LoginUsable
  <2>5. /\ user' \in UserRow /\ user'.id = user.id /\ user'.verified /\ user'.active
    BY <2>1, <2>4, LockWritten, Zero
  <2>6. [owner |-> user.id, family |-> t, hash |-> tx[r].row.hash] \in SessionRow
    BY <1>1, <2>2, <2>3, <2>4 DEF UserRow, SessionRow
  <2> DEFINE new == [owner |-> user.id, family |-> t, hash |-> tx[r].row.hash]
  <2>7. new.owner = user.id /\ new.family = t
    OBVIOUS
  <2>8. refresh'[t] = new /\ \A k \in Tokens \ {t} : refresh'[k] = refresh[k]
    BY <1>1, <2>1, <2>3 DEF TypeOK
  <2>9. TablesTyped'
    BY <1>1, <2>1, <2>2, <2>3, <2>5, <2>6 DEF TablesTyped, TypeOK
  <2> HIDE DEF new
  <2>10. Live \subseteq issued /\ \A k \in Live : refresh[k].family \in issued
    BY <1>1 DEF Tables
  <2>11. Live' \subseteq Live \cup {t} /\ t \notin Live
    BY <2>3, <2>8, <2>10 DEF Live
  <2>12. OneSessionPerLogin'
    <3> SUFFICES ASSUME NEW k \in Live', NEW l \in Live', refresh'[k].family = refresh'[l].family
                 PROVE  k = l
      BY DEF OneSessionPerLogin
    <3>1. CASE k \in Live /\ l \in Live
      BY <1>1, <2>8, <2>11, <3>1 DEF Tables, OneSessionPerLogin, Live
    <3>2. CASE k = t \/ l = t
      BY <2>3, <2>7, <2>8, <2>10, <2>11, <3>2 DEF Live
    <3> QED BY <2>11, <3>1, <3>2
  <2>13. SessionsBelong'
    <3> SUFFICES ASSUME NEW k \in Live' PROVE refresh'[k].owner = user'.id
      BY <2>5, NoRows DEF SessionsBelong
    <3>1. CASE k = t
      BY <2>5, <2>7, <2>8, <3>1
    <3>2. CASE k \in Live /\ k # t
      BY <1>1, <2>5, <2>8, <3>2 DEF Tables, SessionsBelong, Live
    <3> QED BY <2>11, <3>1, <3>2
  <2>14. Tables'
    <3>1. \A k \in Live' : refresh'[k].family \in issued'
      BY <2>1, <2>7, <2>8, <2>10, <2>11 DEF Live
    <3>2. Live' \subseteq issued' /\ user' # NoRow
      BY <2>1, <2>5, <2>10, <2>11, NoRows
    <3> QED BY <2>12, <2>13, <3>1, <3>2 DEF Tables
  <2>15. \A q \in Requests \ {r} : Bearable(q)
    <3> TAKE q \in Requests \ {r}
    <3>1. pc[q] = "rotate" => tx[q].token # t
      BY <2>3 DEF IInv, Held, ReadToken, Rotating
    <3>2. pc[q] = "rotate" => tx[q].token \in Tokens
      BY DEF IInv, Held, ReadToken, Rotating
    <3>3. pc[q] = "suspend" => tx'[q].stale
      BY <1>1, <2>1, StepTaken
    <3> QED BY <2>1, <2>2, <2>3, <2>8, <3>1, <3>2, <3>3 DEF Bearable, UserFree
  <2>16. Held(r)'
    BY <1>1, <2>1, StepTaken, EasyHeld DEF Easy
  <2> QED BY <2>1, <2>9, <2>14, <2>15, <2>16, BlankTyped, StepKeeps DEF Labels
<1> QED BY <1>2, <1>3

(* The two writes after a wrong password. *)
LEMMA FailedLoginKeeps ==
  ASSUME IInv, NEW r \in Requests, ClearExpiredLock(r) \/ CountFailure(r)
  PROVE  IInv'
<1>1. TypeOK /\ (pc[r] \in {"unlock", "count"} => tx[r].row \in UserRow)
  BY DEF IInv, Held, Carries
<1>2. UserFree /\ UNCHANGED <<refresh, verification, reset, issued, created>>
  BY DEF ClearExpiredLock, CountFailure
<1>3. CASE ~(user # NoRow /\ user.id = tx[r].row.id)
  BY <1>2, <1>3, FinishKeeps DEF ClearExpiredLock, CountFailure, tables
<1>4. CASE user # NoRow /\ user.id = tx[r].row.id
  <2>1. user \in UserRow
    BY <1>1, <1>4 DEF TypeOK
  <2>2. ASSUME user' \in UserRow, user'.id = user.id, user'.verified = user.verified, user'.active = user.active
        PROVE  TablesTyped' /\ Tables'
    <3>1. TablesTyped'
      BY <1>1, <1>2, <2>2 DEF TypeOK, TablesTyped
    <3> QED BY <1>2, <2>1, <2>2, <3>1, NoRows, RowsGo
  <2>3. CASE ClearExpiredLock(r)
    <3> DEFINE t == [tx[r] EXCEPT !.row.fails = 0]
    <3>1. user' = [user EXCEPT !.fails = 0, !.lock = "none"] /\ Step(r, "count", t, TRUE) /\ pc[r] = "unlock"
      BY <1>4, <2>3 DEF ClearExpiredLock, At
    <3>2. user' \in UserRow /\ user'.id = user.id /\ user'.verified = user.verified /\ user'.active = user.active
      BY <2>1, <3>1, LockWritten, Zero
    <3>3. tx[r] \in TxType /\ tx[r].row \in UserRow
      BY <1>1, <3>1 DEF TypeOK
    <3>4. [tx[r].row EXCEPT !.fails = 0] \in UserRow
      BY <3>3, AuthAssumption DEF UserRow
    <3>5. t \in TxType /\ t.row \in UserRow
      BY <3>3, <3>4 DEF TxType
    <3> HIDE DEF t
    <3> QED BY <1>2, <2>2, <3>1, <3>2, <3>5, UserWritten
  <2>4. CASE CountFailure(r)
    <3> DEFINE n == IF tx[r].row.fails + 1 < MaxLoginFail THEN tx[r].row.fails + 1 ELSE MaxLoginFail
               lock == IF n = MaxLoginFail THEN "live" ELSE user.lock
    <3>1. user' = [user EXCEPT !.fails = n, !.lock = lock] /\ Step(r, "idle", Blank, TRUE) /\ pc[r] = "count"
      BY <1>4, <2>4 DEF CountFailure, At, FinishWrite
    <3>2. n \in 0 .. MaxLoginFail
      BY <1>1, <3>1, AuthAssumption DEF UserRow
    <3>3. lock \in {"none", "live", "expired"}
      BY <2>1 DEF UserRow
    <3> HIDE DEF n, lock
    <3>4. user' \in UserRow /\ user'.id = user.id /\ user'.verified = user.verified /\ user'.active = user.active
      BY <2>1, <3>1, <3>2, <3>3 DEF UserRow
    <3> QED BY <1>2, <2>2, <3>1, <3>4, BlankTyped, UserWritten DEF Easy
  <2> QED BY <2>3, <2>4
<1> QED BY <1>3, <1>4

LEMMA RefreshReadKeeps ==
  ASSUME IInv, NEW r \in Requests, NEW k \in Tokens, RefreshRead(r, k)
  PROVE  IInv'
<1>1. TypeOK /\ Tables
  BY DEF IInv
<1> DEFINE t == [Blank EXCEPT !.token = k, !.row = refresh[k]]
<1>2. Goto(r, "owner", t) /\ UNCHANGED <<tables, issued, created>> /\ refresh[k] # NoRow
  BY DEF RefreshRead
<1>3. refresh[k] \in SessionRow /\ k \in issued
  BY <1>1, <1>2 DEF TypeOK, Tables, Live
<1>4. t \in TxType /\ t.token = k /\ t.row = refresh[k]
  BY <1>3, BlankTyped DEF TxType
<1> HIDE DEF t
<1>5. pc'[r] = "owner" /\ tx'[r] = t
  BY <1>1, <1>2, StepTaken DEF Goto
<1>6. Held(r)'
  BY <1>2, <1>3, <1>4, <1>5 DEF Held, Carries, ReadToken, SetsPassword, Suspends, Rotating, tables
<1> QED BY <1>2, <1>4, <1>6, GotoKeeps DEF Labels

LEMMA OwnerKeeps ==
  ASSUME IInv, NEW r \in Requests, OwnerRead(r)
  PROVE  IInv'
<1>1. TypeOK /\ tx[r] \in TxType /\ ReadToken(r)
  BY DEF IInv, Held, TypeOK
<1>2. UNCHANGED <<tables, issued, created>> /\ pc[r] = "owner"
  BY DEF OwnerRead, At
<1>3. CASE Finish(r)
  BY <1>2, <1>3, FinishKeeps
<1>4. ASSUME NEW label \in {"consume", "drop"}, Goto(r, label, tx[r]) PROVE IInv'
  <2>1. pc'[r] = label /\ tx'[r] = tx[r]
    BY <1>1, <1>4, StepTaken DEF Goto
  <2>2. Held(r)'
    BY <1>1, <1>2, <2>1 DEF Held, Carries, ReadToken, SetsPassword, Suspends, Rotating, tables
  <2> QED BY <1>1, <1>2, <1>4, <2>2, GotoKeeps DEF Labels
<1> QED BY <1>3, <1>4 DEF OwnerRead

LEMMA ConsumeKeeps ==
  ASSUME IInv, NEW r \in Requests, ConsumeToken(r)
  PROVE  IInv'
<1>1. TypeOK /\ tx[r] \in TxType /\ ReadToken(r)
  BY DEF IInv, Held, TypeOK
<1>2. UNCHANGED <<tables, issued, created>> /\ pc[r] = "consume" /\ TokenFree(tx[r].token)
  BY DEF ConsumeToken, At
<1>3. CASE refresh[tx[r].token] = NoRow
  BY <1>2, <1>3, FinishKeeps DEF ConsumeToken
<1>4. CASE refresh[tx[r].token] # NoRow
  <2>1. Goto(r, "rotate", tx[r])
    BY <1>4 DEF ConsumeToken
  <2>2. pc'[r] = "rotate" /\ tx'[r] = tx[r]
    BY <1>1, <2>1, StepTaken DEF Goto
  <2>3. Held(r)'
    BY <1>1, <1>2, <1>4, <2>2 DEF Held, Carries, ReadToken, SetsPassword, Suspends, Rotating, tables
  <2> QED BY <1>1, <1>2, <2>1, <2>3, GotoKeeps DEF Labels, TokenFree
<1> QED BY <1>3, <1>4

(* Refresh tokens that nobody holds are deleted, and nothing else happens  *)
(* to the tables.                                                          *)
LEMMA LossBearable ==
  ASSUME IInv, NEW S \in SUBSET Tokens, \A t \in S \cap Live : TokenFree(t), refresh' = Without(S),
         UNCHANGED <<user, verification, reset, issued, created>>
  PROVE  TablesTyped' /\ Tables' /\ \A q \in Requests : Bearable(q)
<1>1. TypeOK
  BY DEF IInv
<1>2. /\ refresh' \in [Tokens -> SessionRow \cup {NoRow}]
      /\ \A t \in Tokens : refresh'[t] = IF t \in S THEN NoRow ELSE refresh[t]
  BY <1>1, WithoutTyped
<1>3. TablesTyped'
  BY <1>1, <1>2 DEF TypeOK, TablesTyped
<1>4. Tables' /\ Live' \subseteq Live
  <2>1. CASE user = NoRow
    <3>1. Live' = {}
      BY <1>2, <2>1 DEF IInv, Tables, SessionsBelong, Live
    <3> QED BY <1>2, <1>3, <2>1, <3>1, RowsGo DEF IInv, Tables
  <2>2. CASE user \in UserRow
    BY <1>2, <1>3, <2>2, NoRows, RowsGo
  <2> QED BY <1>1, <2>1, <2>2 DEF TypeOK
<1>5. ASSUME NEW q \in Requests PROVE Bearable(q)
  <2>1. pc[q] = "rotate" => tx[q].token \in Live
    BY NoRows DEF IInv, Held, ReadToken, Rotating, Live
  <2>2. pc[q] = "rotate" => refresh'[tx[q].token] = refresh[tx[q].token]
    BY <1>2, <2>1 DEF TokenFree, Live
  <2>3. pc[q] = "password" => user # NoRow /\ (tx[q].link # NoRow => reset # NoRow)
    BY DEF IInv, Held, SetsPassword
  <2> QED BY <1>2, <1>4, <2>2, <2>3 DEF Bearable
<1> QED BY <1>3, <1>4, <1>5

LEMMA DropKeeps ==
  ASSUME IInv, NEW r \in Requests, DropSession(r)
  PROVE  IInv'
<1>1. /\ TypeOK /\ TokenFree(tx[r].token) /\ refresh' = Without({tx[r].token}) /\ Step(r, "idle", Blank, FALSE)
      /\ UNCHANGED <<user, verification, reset, issued, created>> /\ tx[r].token \in Tokens
  BY DEF IInv, DropSession, Finish, Goto, Held, ReadToken, Rotating, At
<1>2. TablesTyped' /\ Tables' /\ \A q \in Requests : Bearable(q)
  BY <1>1, LossBearable
<1>3. Held(r)'
  BY <1>1, StepTaken, EasyHeld DEF Easy
<1> QED BY <1>1, <1>2, <1>3, BlankTyped, StepKeeps DEF Labels

LEMMA TokenGoes ==
  ASSUME IInv, NEW t \in Tokens, Logout(t) \/ ExpireSession(t)
  PROVE  IInv'
<1>1. /\ TokenFree(t) /\ refresh' = Without({t})
      /\ UNCHANGED <<user, verification, reset, issued, created, pc, tx>>
  BY DEF Logout, ExpireSession
<1>2. TablesTyped' /\ Tables' /\ \A q \in Requests : Bearable(q)
  BY <1>1, LossBearable
<1> QED BY <1>1, <1>2, NobodysStep

LEMMA RotationKeeps ==
  ASSUME IInv, NEW r \in Requests, CommitRotation(r)
  PROVE  IInv'
<1>1. TypeOK /\ Tables /\ Exclusive /\ ReadToken(r)
  BY DEF IInv, Held
<1>2. PICK t \in Fresh(Tokens) :
        /\ refresh' = [Without({tx[r].token}) EXCEPT ![t] = tx[r].row]
        /\ issued' = issued \cup {t} /\ Step(r, "idle", Blank, FALSE)
  BY DEF CommitRotation, Finish, Goto
<1>3. UNCHANGED <<user, verification, reset, created>> /\ pc[r] = "rotate"
  BY DEF CommitRotation, At
<1> DEFINE old == tx[r].token
           row == tx[r].row
<1>4. /\ t \in Tokens /\ t \notin issued /\ old \in Tokens \cap issued
      /\ row \in SessionRow /\ refresh[old] = row
  BY <1>1, <1>3 DEF Fresh, ReadToken, Rotating
<1>5. old \in Live /\ Live \subseteq issued /\ \A k \in Live : refresh[k].family \in issued
  BY <1>1, <1>4, NoRows DEF Live, Tables
<1> HIDE DEF old, row
<1>6. /\ refresh' \in [Tokens -> SessionRow \cup {NoRow}] /\ refresh'[t] = row /\ refresh'[old] = NoRow
      /\ \A k \in Tokens \ {t, old} : refresh'[k] = refresh[k]
  <2>1. /\ Without({old}) \in [Tokens -> SessionRow \cup {NoRow}]
        /\ \A k \in Tokens : Without({old})[k] = IF k \in {old} THEN NoRow ELSE refresh[k]
    BY <1>1, WithoutTyped
  <2>2. refresh' = [Without({old}) EXCEPT ![t] = row]
    BY <1>2 DEF old, row
  <2> QED BY <1>4, <2>1, <2>2
<1>7. Live' \subseteq (Live \ {old}) \cup {t}
  BY <1>6 DEF Live
<1>8. TablesTyped'
  BY <1>1, <1>2, <1>3, <1>4, <1>6 DEF TypeOK, TablesTyped
<1>9. Tables'
  <2>1. \A k \in Live' : \E l \in Live : refresh'[k] = refresh[l] /\ (IF k = t THEN l = old ELSE l = k /\ k # old)
    BY <1>4, <1>5, <1>6, <1>7 DEF Live
  <2>2. OneSessionPerLogin'
    BY <1>1, <2>1 DEF Tables, OneSessionPerLogin
  <2>3. SessionsBelong'
    BY <1>1, <1>3, <2>1 DEF Tables, SessionsBelong
  <2>4. Live' \subseteq issued' /\ \A k \in Live' : refresh'[k].family \in issued'
    <3>1. Live' \subseteq issued'
      BY <1>2, <1>5, <1>7
    <3>2. ASSUME NEW k \in Live' PROVE refresh'[k].family \in issued'
      <4>1. PICK l \in Live : refresh'[k] = refresh[l]
        BY <2>1
      <4>2. refresh[l].family \in issued
        BY <1>5
      <4> QED BY <1>2, <4>1, <4>2
    <3> QED BY <3>1, <3>2
  <2> QED BY <1>1, <1>3, <2>2, <2>3, <2>4 DEF Tables
<1>10. ASSUME NEW q \in Requests \ {r} PROVE Bearable(q)
  <2>1. pc[q] = "rotate" => tx[q].token # old /\ tx[q].token \in Tokens \cap issued
    BY <1>1, <1>3 DEF Exclusive, IInv, Held, ReadToken, Rotating, old
  <2>2. pc[q] = "password" => user # NoRow /\ (tx[q].link # NoRow => reset # NoRow)
    BY DEF IInv, Held, SetsPassword
  <2> QED BY <1>2, <1>3, <1>4, <1>5, <1>6, <2>1, <2>2 DEF Bearable
<1>11. Held(r)'
  BY <1>1, <1>2, StepTaken, EasyHeld DEF Easy
<1> QED BY <1>2, <1>8, <1>9, <1>10, <1>11, BlankTyped, StepKeeps DEF Labels

----------------------------------------------------------------------------
LEMMA ForgotKeeps ==
  ASSUME IInv, NEW r \in Requests, ForgotRead(r) \/ ResetSent(r)
  PROVE  IInv'
<1>1. CASE ForgotRead(r)
  <2>1. [Blank EXCEPT !.row = user] \in TxType
    BY BlankTyped DEF IInv, TypeOK, TxType
  <2> QED BY <1>1, <2>1, GotoEasy DEF ForgotRead, Easy
<1>2. CASE ResetSent(r)
  BY <1>2, FinishKeeps DEF ResetSent
<1> QED BY <1>1, <1>2

(* A write of the link that resets the password, while no reset uses it. *)
LEMMA LinkWritten ==
  ASSUME IInv, NEW r \in Requests, NEW label \in Easy, NEW t \in TxType, Step(r, label, t, FALSE), ResetFree,
         reset' \in LinkRow \cup {NoRow}, reset' = NoRow \/ user # NoRow,
         UNCHANGED <<user, refresh, verification, created>>,
         issued' \subseteq Tokens \cup Links, issued \subseteq issued'
  PROVE  IInv'
<1>1. TypeOK /\ Tables /\ Live' = Live
  BY DEF IInv, Live
<1>2. TablesTyped' /\ Tables'
  BY <1>1 DEF TypeOK, TablesTyped, Tables, OneSessionPerLogin, SessionsBelong, Live
<1>3. \A q \in Requests \ {r} : Bearable(q)
  BY <1>1 DEF Bearable, ResetFree, IInv, Held, SetsPassword
<1>4. Held(r)'
  BY <1>1, StepTaken, EasyHeld
<1>5. label \in Labels \ {"password", "rotate"}
  BY DEF Easy, Labels
<1> QED BY <1>2, <1>3, <1>4, <1>5, StepKeeps

LEMMA UpsertKeeps ==
  ASSUME IInv, NEW r \in Requests, ForgotUpsert(r)
  PROVE  IInv'
<1>1. TypeOK
  BY DEF IInv
<1>2. CASE ~(user # NoRow /\ user.id = tx[r].row.id)
  BY <1>2, FinishKeeps DEF ForgotUpsert, tables
<1>3. CASE user # NoRow /\ user.id = tx[r].row.id
  <2>1. PICK l \in Fresh(Links) :
          /\ reset' = [link |-> l, expired |-> FALSE]
          /\ issued' = issued \cup {l}
          /\ Step(r, "resetMail", tx[r], FALSE)
    BY <1>3 DEF ForgotUpsert, Goto
  <2>2. ResetFree /\ UNCHANGED <<user, refresh, verification, created>> /\ l \in Links
    BY <1>3 DEF ForgotUpsert, Fresh
  <2>3. reset' \in LinkRow
    BY <2>1, <2>2 DEF LinkRow
  <2>4. issued' \subseteq Tokens \cup Links /\ issued \subseteq issued' /\ tx[r] \in TxType
    BY <1>1, <2>1, <2>2 DEF TypeOK
  <2> QED BY <1>3, <2>1, <2>2, <2>3, <2>4, LinkWritten DEF Easy
<1> QED BY <1>2, <1>3

LEMMA ResetMailKeeps ==
  ASSUME IInv, NEW r \in Requests, ResetMailFailed(r)
  PROVE  IInv'
<1>1. TypeOK /\ Tables
  BY DEF IInv
<1>2. /\ ResetFree /\ Step(r, "idle", Blank, FALSE) /\ UNCHANGED <<user, refresh, verification, issued, created>>
      /\ reset' \in {NoRow, reset}
  BY DEF ResetMailFailed, Finish, Goto
<1>3. reset' \in LinkRow \cup {NoRow} /\ (reset' = NoRow \/ user # NoRow)
  BY <1>1, <1>2 DEF TypeOK, Tables
<1> QED BY <1>1, <1>2, <1>3, BlankTyped, LinkWritten DEF Easy, TypeOK

LEMMA ResetReadKeeps ==
  ASSUME IInv, NEW r \in Requests, ResetRead(r)
  PROVE  IInv'
<1>1. TypeOK /\ Tables /\ reset \in LinkRow
  BY DEF IInv, ResetRead, TypeOK
<1>2. UNCHANGED <<user, refresh, verification, issued, created>>
  BY DEF ResetRead
<1>3. CASE reset.expired
  <2>1. ResetFree /\ reset' = NoRow /\ Step(r, "idle", Blank, FALSE)
    BY <1>3 DEF ResetRead, Finish, Goto
  <2> QED BY <1>1, <1>2, <2>1, BlankTyped, LinkWritten DEF Easy, TypeOK
<1>4. CASE ~reset.expired
  <2>1. Goto(r, "reset", [Blank EXCEPT !.link = reset.link, !.row = user]) /\ UNCHANGED reset
    BY <1>4 DEF ResetRead
  <2>2. [Blank EXCEPT !.link = reset.link, !.row = user] \in TxType
    BY <1>1, BlankTyped DEF TxType, LinkRow, TypeOK
  <2> QED BY <1>2, <2>1, <2>2, GotoEasy DEF Easy, tables
<1> QED BY <1>3, <1>4

(* A request that begins to set a password. *)
LEMMA PasswordBegins ==
  ASSUME IInv, NEW r \in Requests, NEW S \in SUBSET Tokens, Goto(r, "password", [tx[r] EXCEPT !.snap = S]),
         UNCHANGED <<tables, issued, created>>, UserFree, user # NoRow,
         \/ tx[r].link = NoRow /\ user.id = tx[r].row.id /\ user.hash = tx[r].row.hash
         \/ tx[r].link # NoRow /\ reset # NoRow /\ reset.link = tx[r].link
  PROVE  IInv'
<1> DEFINE t == [tx[r] EXCEPT !.snap = S]
<1>1. TypeOK /\ tx[r] \in TxType
  BY DEF IInv, TypeOK
<1>2. t \in TxType /\ t.link = tx[r].link /\ t.row = tx[r].row
  BY <1>1 DEF TxType
<1> HIDE DEF t
<1>3. Goto(r, "password", t)
  BY DEF t
<1>4. pc'[r] = "password" /\ tx'[r] = t
  BY <1>1, <1>3, StepTaken DEF Goto
<1>5. Held(r)'
  BY <1>2, <1>4 DEF Held, Carries, ReadToken, SetsPassword, Suspends, Rotating, tables
<1> QED BY <1>2, <1>3, <1>5, GotoKeeps DEF Labels, UserFree

LEMMA ResetWriteKeeps ==
  ASSUME IInv, NEW r \in Requests, ResetWrite(r)
  PROVE  IInv'
<1>1. UNCHANGED <<tables, issued, created>>
  BY DEF ResetWrite
<1>2. CASE reset # NoRow /\ reset.link = tx[r].link /\ ~reset.expired
  <2>1. UserFree /\ Goto(r, "password", [tx[r] EXCEPT !.snap = Live])
    BY <1>2 DEF ResetWrite
  <2>2. user # NoRow /\ tx[r].link # NoRow
    BY <1>2, NoRows DEF IInv, Tables, TypeOK, LinkRow
  <2>3. Live \in SUBSET Tokens
    BY DEF Live
  <2> QED BY <1>1, <1>2, <2>1, <2>2, <2>3, PasswordBegins
<1>3. CASE ~(reset # NoRow /\ reset.link = tx[r].link /\ ~reset.expired)
  BY <1>1, <1>3, FinishKeeps DEF ResetWrite
<1> QED BY <1>2, <1>3

LEMMA ChangeReadKeeps ==
  ASSUME IInv, NEW r \in Requests, ChangeRead(r)
  PROVE  IInv'
<1> DEFINE t == [Blank EXCEPT !.row = user]
<1>1. TypeOK /\ Goto(r, "change", t) /\ UNCHANGED <<tables, issued, created>>
  BY DEF IInv, ChangeRead
<1>2. t \in TxType /\ t.link = NoRow
  BY <1>1, BlankTyped DEF TypeOK, TxType, Blank
<1> HIDE DEF t
<1>3. pc'[r] = "change" /\ tx'[r] = t
  BY <1>1, StepTaken DEF Goto
<1>4. Held(r)'
  BY <1>2, <1>3 DEF Held, Carries, ReadToken, SetsPassword, Suspends, Rotating
<1> QED BY <1>1, <1>2, <1>4, GotoKeeps DEF Labels

LEMMA ChangeWriteKeeps ==
  ASSUME IInv, NEW r \in Requests, ChangeWrite(r)
  PROVE  IInv'
<1>1. UNCHANGED <<tables, issued, created>> /\ UserFree /\ pc[r] = "change" /\ tx[r].link = NoRow
  BY DEF ChangeWrite, At, IInv, Held, Carries
<1>2. CASE user # NoRow /\ user.id = tx[r].row.id /\ user.hash = tx[r].row.hash
  <2>1. Goto(r, "password", [tx[r] EXCEPT !.snap = Live]) /\ Live \in SUBSET Tokens
    BY <1>2 DEF ChangeWrite, Live
  <2> QED BY <1>1, <1>2, <2>1, PasswordBegins
<1>3. CASE ~(user # NoRow /\ user.id = tx[r].row.id /\ user.hash = tx[r].row.hash)
  BY <1>1, <1>3, FinishKeeps DEF ChangeWrite
<1> QED BY <1>2, <1>3

(* A password is set: only the request that began to can.                  *)
LEMMA PasswordKeeps ==
  ASSUME IInv, NEW r \in Requests, PasswordCommit(r)
  PROVE  IInv'
<1>1. TypeOK /\ Tables /\ Exclusive /\ SetsPassword(r) /\ pc[r] = "password"
  BY DEF IInv, Held, PasswordCommit, At
<1>2. /\ \A t \in tx[r].snap : TokenFree(t)
      /\ user' = [user EXCEPT !.hash = @ + 1] /\ refresh' = Without(tx[r].snap)
      /\ reset' \in {reset, NoRow} /\ Step(r, "idle", Blank, TRUE)
      /\ UNCHANGED <<verification, issued, created>>
  BY DEF PasswordCommit, FinishWrite
<1>3. user \in UserRow
  BY <1>1 DEF SetsPassword, TypeOK
<1>4. /\ user' \in UserRow /\ user'.id = user.id /\ user'.verified = user.verified /\ user'.active = user.active
  BY <1>2, <1>3 DEF UserRow
<1>5. /\ refresh' \in [Tokens -> SessionRow \cup {NoRow}]
      /\ \A t \in Tokens : refresh'[t] = IF t \in tx[r].snap THEN NoRow ELSE refresh[t]
  BY <1>1, <1>2, WithoutTyped
<1>6. TablesTyped'
  BY <1>1, <1>2, <1>4, <1>5 DEF TypeOK, TablesTyped
<1>7. Tables'
  BY <1>2, <1>3, <1>4, <1>5, <1>6, NoRows, RowsGo
<1>8. ASSUME NEW q \in Requests \ {r} PROVE Bearable(q)
  <2>1. pc[q] # "password"
    BY <1>1 DEF Exclusive
  <2>2. pc[q] = "suspend" => tx'[q].stale
    BY <1>1, <1>2, StepTaken
  <2>3. pc[q] = "rotate" => tx[q].token \notin tx[r].snap /\ tx[q].token \in Tokens
    BY <1>2 DEF TokenFree, IInv, Held, ReadToken, Rotating
  <2> QED BY <1>2, <1>5, <2>1, <2>2, <2>3 DEF Bearable
<1>9. Held(r)'
  BY <1>1, <1>2, StepTaken, EasyHeld DEF Easy
<1> QED BY <1>2, <1>6, <1>7, <1>8, <1>9, BlankTyped, StepKeeps DEF Labels

----------------------------------------------------------------------------
LEMMA SuspendBeginKeeps ==
  ASSUME IInv, NEW r \in Requests, SuspendBegin(r)
  PROVE  IInv'
<1> DEFINE saw == [reset |-> reset, verification |-> verification]
           t == [Blank EXCEPT !.snap = Live, !.saw = saw]
<1>1. TypeOK /\ Tables /\ Goto(r, "suspend", t) /\ UNCHANGED <<tables, issued, created>> /\ user # NoRow
  BY DEF IInv, SuspendBegin
<1>2. saw \in [reset : LinkRow \cup {NoRow}, verification : LinkRow \cup {NoRow}] /\ Live \in SUBSET Tokens
  BY <1>1 DEF TypeOK, Live
<1> HIDE DEF saw
<1>3. t \in TxType /\ t.snap = Live
  BY <1>2, BlankTyped DEF TxType
<1> HIDE DEF t
<1>4. pc'[r] = "suspend" /\ tx'[r] = t
  BY <1>1, StepTaken DEF Goto
<1>5. Live' = Live
  BY <1>1 DEF Live, tables
<1>6. Held(r)'
  BY <1>1, <1>3, <1>4, <1>5 DEF Held, Carries, ReadToken, SetsPassword, Suspends, Rotating, tables, Tables
<1> QED BY <1>1, <1>3, <1>6, GotoKeeps DEF Labels

LEMMA SuspendKeeps ==
  ASSUME IInv, NEW r \in Requests, SuspendCommit(r)
  PROVE  IInv'
<1> DEFINE t == tx[r]
           changed == \/ t.stale
                      \/ \E k \in t.snap : refresh[k] = NoRow
                      \/ t.saw.reset # NoRow /\ Other(reset, t.saw.reset)
                      \/ t.saw.verification # NoRow /\ Other(verification, t.saw.verification)
<1>1. /\ TypeOK /\ Tables /\ Suspends(r) /\ pc[r] = "suspend" /\ UNCHANGED <<issued, created>>
      /\ UserFree /\ ResetFree /\ \A k \in t.snap : TokenFree(k)
  BY DEF IInv, Held, SuspendCommit, At
<1>2. CASE changed
  BY <1>1, <1>2, FinishKeeps DEF SuspendCommit
<1>3. CASE ~changed
  <2>1. /\ user' = [user EXCEPT !.active = FALSE, !.lock = "none"] /\ refresh' = Without(t.snap)
        /\ reset' \in {reset, NoRow} /\ verification' \in {verification, NoRow}
        /\ Step(r, "idle", Blank, TRUE)
    BY <1>3 DEF SuspendCommit, FinishWrite
  <2>2. user # NoRow /\ Live \subseteq t.snap /\ t.snap \subseteq issued
    BY <1>1, <1>3 DEF Suspends
  <2>3. user \in UserRow
    BY <1>1, <2>2 DEF TypeOK
  <2>4. user' \in UserRow
    BY <2>1, <2>3 DEF UserRow
  <2>5. /\ refresh' \in [Tokens -> SessionRow \cup {NoRow}]
        /\ \A k \in Tokens : refresh'[k] = IF k \in t.snap THEN NoRow ELSE refresh[k]
    BY <1>1, <2>1, WithoutTyped
  <2> HIDE DEF t
  <2>6. TablesTyped'
    BY <1>1, <2>1, <2>4, <2>5 DEF TypeOK, TablesTyped
  <2>7. Live' = {}
    BY <2>2, <2>5 DEF Live
  <2>8. Tables'
    BY <1>1, <2>4, <2>5, <2>6, <2>7, NoRows, RowsGo
  <2>9. ASSUME NEW q \in Requests \ {r} PROVE Bearable(q)
    <3>1. pc[q] # "password"
      BY <1>1 DEF UserFree
    <3>2. pc[q] = "suspend" => tx'[q].stale
      BY <1>1, <2>1, StepTaken
    <3>3. pc[q] = "rotate" => tx[q].token \notin t.snap /\ tx[q].token \in Tokens
      BY <1>1 DEF TokenFree, IInv, Held, ReadToken, Rotating
    <3> QED BY <1>1, <2>5, <3>1, <3>2, <3>3 DEF Bearable
  <2>10. Held(r)'
    BY <1>1, <2>1, StepTaken, EasyHeld DEF Easy
  <2> QED BY <2>1, <2>6, <2>8, <2>9, <2>10, BlankTyped, StepKeeps DEF Labels
<1> QED BY <1>2, <1>3

LEMMA ReactivateKeeps ==
  ASSUME IInv, NEW r \in Requests, Reactivate(r)
  PROVE  IInv'
<1>1. /\ TypeOK /\ UserFree /\ user # NoRow /\ user' = [user EXCEPT !.active = TRUE, !.lock = "none"]
      /\ Step(r, "idle", Blank, TRUE) /\ UNCHANGED <<refresh, verification, reset, issued, created>>
  BY DEF IInv, Reactivate, FinishWrite
<1>2. user \in UserRow
  BY <1>1 DEF TypeOK
<1>3. user' \in UserRow /\ user'.id = user.id /\ user'.verified = user.verified /\ user'.active
  BY <1>1, <1>2 DEF UserRow
<1>4. TablesTyped'
  BY <1>1, <1>3 DEF TypeOK, TablesTyped
<1>5. Tables'
  BY <1>1, <1>2, <1>3, <1>4, NoRows, RowsGo
<1> QED BY <1>1, <1>4, <1>5, BlankTyped, UserWritten DEF Easy

LEMMA TimeKeeps ==
  ASSUME IInv, LockEnds \/ LinkExpires
  PROVE  IInv'
<1>1. TypeOK /\ Tables /\ UNCHANGED <<refresh, issued, created, pc, tx>> /\ Live' = Live
  BY DEF IInv, LockEnds, LinkExpires, Live
<1>2. CASE LockEnds
  <2>1. user \in UserRow /\ user' = [user EXCEPT !.lock = "expired"] /\ UNCHANGED <<verification, reset>>
    BY <1>1, <1>2 DEF LockEnds, TypeOK
  <2>2. /\ user' \in UserRow /\ user'.id = user.id /\ user'.hash = user.hash
        /\ user'.verified = user.verified /\ user'.active = user.active
    BY <2>1 DEF UserRow
  <2>3. TablesTyped'
    BY <1>1, <2>1, <2>2 DEF TypeOK, TablesTyped
  <2>4. Tables'
    BY <1>1, <2>1, <2>2, <2>3, NoRows, RowsGo
  <2>5. \A q \in Requests : Bearable(q)
    BY <1>1, <2>1, <2>2, NoRows DEF Bearable, IInv, Held, SetsPassword
  <2> QED BY <1>1, <2>3, <2>4, <2>5, NobodysStep
<1>3. CASE LinkExpires
  <2>1. /\ user' = user
        /\ reset' = reset \/ (reset # NoRow /\ reset' = [reset EXCEPT !.expired = TRUE])
        /\ verification' = verification \/ (verification # NoRow /\ verification' = [verification EXCEPT !.expired = TRUE])
    BY <1>3 DEF LinkExpires
  <2>2. \A l \in LinkRow : [l EXCEPT !.expired = TRUE] \in LinkRow /\ [l EXCEPT !.expired = TRUE].link = l.link
    BY DEF LinkRow
  <2>3. /\ verification' \in LinkRow \cup {NoRow} /\ (verification = NoRow => verification' = NoRow)
        /\ reset' \in LinkRow \cup {NoRow} /\ (reset = NoRow => reset' = NoRow)
        /\ reset # NoRow => reset' # NoRow /\ reset'.link = reset.link
    BY <1>1, <2>1, <2>2, NoRows DEF TypeOK
  <2>4. TablesTyped' /\ Tables'
    BY <1>1, <2>1, <2>3 DEF TypeOK, TablesTyped, Tables, OneSessionPerLogin, SessionsBelong
  <2>5. \A q \in Requests : Bearable(q)
    BY <1>1, <2>1, <2>3 DEF Bearable, IInv, Held, SetsPassword
  <2> QED BY <1>1, <2>4, <2>5, NobodysStep
<1> QED BY <1>2, <1>3

LEMMA AbandonKeeps ==
  ASSUME IInv, NEW r \in Requests, Abandon(r)
  PROVE  IInv'
BY FinishKeeps DEF Abandon

----------------------------------------------------------------------------
LEMMA StepIInv == IInv /\ [Next]_vars => IInv'
<1> SUFFICES ASSUME IInv, [Next]_vars PROVE IInv'
  OBVIOUS
<1>1. ASSUME NEW r \in Requests, Registration(r) PROVE IInv'
  BY <1>1, RegistrationKeeps, CreateKeeps, ReregisterKeeps, VerificationFailedKeeps, VerifyCommitKeeps
  DEF Registration
<1>2. ASSUME NEW r \in Requests, Session(r) PROVE IInv'
  BY <1>2, LoginKeeps, OpenKeeps, FailedLoginKeeps, RefreshReadKeeps, OwnerKeeps, DropKeeps,
     ConsumeKeeps, RotationKeeps DEF Session
<1>3. ASSUME NEW r \in Requests, Password(r) PROVE IInv'
  BY <1>3, ForgotKeeps, UpsertKeeps, ResetMailKeeps, ResetReadKeeps, ResetWriteKeeps, ChangeReadKeeps,
     ChangeWriteKeeps, PasswordKeeps DEF Password
<1>4. ASSUME NEW r \in Requests, Administration(r) PROVE IInv'
  BY <1>4, SuspendBeginKeeps, SuspendKeeps, ReactivateKeeps DEF Administration
<1>5. CASE UNCHANGED vars
  BY <1>5 DEF vars, IInv, TypeOK, Tables, Exclusive, Held, Carries, ReadToken, SetsPassword, Suspends,
              Rotating, OneSessionPerLogin, SessionsBelong, Live
<1> QED BY <1>1, <1>2, <1>3, <1>4, <1>5, AbandonKeeps, TokenGoes, TimeKeeps DEF Next

LEMMA Invariance == Spec => []IInv
BY InitIInv, StepIInv, PTL DEF Spec

(* The rows of the address and what the requests have read keep their      *)
(* types; the failed logins never exceed MAX_LOGIN_FAIL.                   *)
THEOREM Typed == Spec => []TypeOK
<1>1. IInv => TypeOK
  BY DEF IInv
<1> QED BY <1>1, Invariance, PTL

(* A login has one refresh token that can be used, however many rotations  *)
(* race (refreshAccessToken).                                              *)
THEOREM SingleUse == Spec => []OneSessionPerLogin
<1>1. IInv => OneSessionPerLogin
  BY DEF IInv, Tables
<1> QED BY <1>1, Invariance, PTL

(* No refresh token survives a suspension or the deletion of the row it    *)
(* belongs to.                                                             *)
THEOREM Belonging == Spec => []SessionsBelong
<1>1. IInv => SessionsBelong
  BY DEF IInv, Tables
<1> QED BY <1>1, Invariance, PTL

----------------------------------------------------------------------------
(* A step of a request moves no other, and only two steps end the setting   *)
(* of a password.                                                           *)
Moves(q) == \A r \in Requests \ {q} : pc'[r] = pc[r]

LEMMA StepMoves ==
  ASSUME TypeOK, NEW q \in Requests, NEW label, NEW t, NEW wrote, Step(q, label, t, wrote)
  PROVE  Moves(q)
BY DEF Step, Moves, TypeOK

LEMMA RegistrationMoves ==
  ASSUME TypeOK, NEW q \in Requests, Registration(q)
  PROVE  Moves(q) /\ pc[q] # "password"
<1> USE StepMoves DEF At, Begin, Goto, Finish, FinishWrite
<1>1. CASE RegisterRead(q)
  BY <1>1 DEF RegisterRead
<1>2. CASE CreateUser(q)
  BY <1>2 DEF CreateUser
<1>3. CASE Reregister(q)
  BY <1>3 DEF Reregister
<1>4. CASE VerificationSent(q)
  BY <1>4 DEF VerificationSent
<1>5. CASE VerificationFailed(q)
  BY <1>5 DEF VerificationFailed
<1>6. CASE VerifyRead(q)
  BY <1>6 DEF VerifyRead
<1>7. CASE VerifyCommit(q)
  BY <1>7 DEF VerifyCommit
<1> QED BY <1>1, <1>2, <1>3, <1>4, <1>5, <1>6, <1>7 DEF Registration

LEMMA SessionMoves ==
  ASSUME TypeOK, NEW q \in Requests, Session(q)
  PROVE  Moves(q) /\ pc[q] # "password"
<1> USE StepMoves DEF At, Begin, Goto, Finish, FinishWrite
<1>1. CASE LoginRead(q)
  BY <1>1 DEF LoginRead
<1>2. CASE OpenSession(q)
  BY <1>2 DEF OpenSession
<1>3. CASE ClearExpiredLock(q)
  BY <1>3 DEF ClearExpiredLock
<1>4. CASE CountFailure(q)
  BY <1>4 DEF CountFailure
<1>5. CASE \E t \in Tokens : RefreshRead(q, t)
  BY <1>5 DEF RefreshRead
<1>6. CASE OwnerRead(q)
  BY <1>6 DEF OwnerRead
<1>7. CASE DropSession(q)
  BY <1>7 DEF DropSession
<1>8. CASE ConsumeToken(q)
  BY <1>8 DEF ConsumeToken
<1>9. CASE CommitRotation(q)
  BY <1>9 DEF CommitRotation
<1> QED BY <1>1, <1>2, <1>3, <1>4, <1>5, <1>6, <1>7, <1>8, <1>9 DEF Session

LEMMA PasswordMoves ==
  ASSUME TypeOK, NEW q \in Requests, Password(q)
  PROVE  Moves(q) /\ (pc[q] = "password" => PasswordCommit(q))
<1> USE StepMoves DEF At, Begin, Goto, Finish, FinishWrite
<1>1. CASE ForgotRead(q)
  BY <1>1 DEF ForgotRead
<1>2. CASE ForgotUpsert(q)
  BY <1>2 DEF ForgotUpsert
<1>3. CASE ResetSent(q)
  BY <1>3 DEF ResetSent
<1>4. CASE ResetMailFailed(q)
  BY <1>4 DEF ResetMailFailed
<1>5. CASE ResetRead(q)
  BY <1>5 DEF ResetRead
<1>6. CASE ResetWrite(q)
  BY <1>6 DEF ResetWrite
<1>7. CASE ChangeRead(q)
  BY <1>7 DEF ChangeRead
<1>8. CASE ChangeWrite(q)
  BY <1>8 DEF ChangeWrite
<1>9. CASE PasswordCommit(q)
  <2>1. Step(q, "idle", Blank, TRUE)
    BY <1>9 DEF PasswordCommit
  <2> QED BY <1>9, <2>1
<1> QED BY <1>1, <1>2, <1>3, <1>4, <1>5, <1>6, <1>7, <1>8, <1>9 DEF Password

LEMMA AdministrationMoves ==
  ASSUME TypeOK, NEW q \in Requests, Administration(q)
  PROVE  Moves(q) /\ pc[q] # "password"
<1> USE StepMoves DEF At, Begin, Goto, Finish, FinishWrite
<1>1. CASE SuspendBegin(q)
  BY <1>1 DEF SuspendBegin
<1>2. CASE SuspendCommit(q)
  BY <1>2 DEF SuspendCommit
<1>3. CASE Reactivate(q)
  BY <1>3 DEF Reactivate
<1> QED BY <1>1, <1>2, <1>3 DEF Administration

LEMMA WhoSets ==
  ASSUME IInv, [Next]_vars, NEW r \in Requests, Sets(r), pc'[r] = "idle"
  PROVE  PasswordCommit(r)
<1>1. TypeOK /\ pc[r] = "password" /\ user' # user
  BY DEF IInv, Sets
<1>2. ~UNCHANGED vars
  BY <1>1 DEF vars
<1>3. ~(\E t \in Tokens : Logout(t) \/ ExpireSession(t)) /\ ~LockEnds /\ ~LinkExpires
  BY <1>1 DEF Logout, ExpireSession, LockEnds, LinkExpires
<1>4. PICK q \in Requests : Registration(q) \/ Session(q) \/ Password(q) \/ Administration(q) \/ Abandon(q)
  BY <1>2, <1>3 DEF Next
<1>5. ~Abandon(q)
  BY <1>1 DEF Abandon, tables
<1>6. Moves(q) /\ (pc[q] = "password" => PasswordCommit(q))
  BY <1>1, <1>4, <1>5, RegistrationMoves, SessionMoves, PasswordMoves, AdministrationMoves
<1>7. q = r
  BY <1>1, <1>6 DEF Moves
<1> QED BY <1>1, <1>6, <1>7

(* A mailed link sets one password, and only while it is the newest        *)
(* (resetPassword and forgotPassword).                                     *)
THEOREM LinkOnce == Spec => ResetLinkOnce
<1>1. IInv /\ [Next]_vars =>
        [\A r \in Requests : Sets(r) /\ pc'[r] = "idle" /\ tx[r].link # NoRow
           => reset # NoRow /\ reset.link = tx[r].link /\ reset' = NoRow]_vars
  <2> SUFFICES ASSUME IInv, [Next]_vars, NEW r \in Requests, Sets(r), pc'[r] = "idle", tx[r].link # NoRow
               PROVE  reset # NoRow /\ reset.link = tx[r].link /\ reset' = NoRow
    OBVIOUS
  <2>1. PasswordCommit(r)
    BY WhoSets
  <2> QED BY <2>1 DEF PasswordCommit, At, IInv, Held, SetsPassword
<1> QED BY <1>1, Invariance, PTL DEF Spec, ResetLinkOnce

(* A password change replaces the password that its user typed             *)
(* (changeCurrentPassword).                                                *)
THEOREM ChangeKnows == Spec => ChangeKnowsPassword
<1>1. IInv /\ [Next]_vars =>
        [\A r \in Requests : Sets(r) /\ pc'[r] = "idle" /\ tx[r].link = NoRow
           => user.id = tx[r].row.id /\ user.hash = tx[r].row.hash]_vars
  BY DEF Sets, IInv, Held, SetsPassword
<1> QED BY <1>1, Invariance, PTL DEF Spec, ChangeKnowsPassword

=============================================================================
