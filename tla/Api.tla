--------------------------------- MODULE Api ---------------------------------
(***************************************************************************)
(* The calls a page makes: the middleware of each route (backend/src       *)
(* /routes/), its service seen through the statuses it refuses with, the   *)
(* way back, and what the client (frontend/src/lib/api/) tells the page of *)
(* the answer. The session routes refresh and logout are in AuthStore, the *)
(* counting of requests in RateLimit and the services in their modules.    *)
(***************************************************************************)
EXTENDS Integers, Sequences, SequencesExt

CONSTANT None

ApiAssumption == None \notin {"user", "admin"}

VARIABLES
  account,  \* the caller's row: may it use the application, as what
  call      \* the call of the page

vars == <<account, call>>

----------------------------------------------------------------------------
(* The routes: what runs before the handler, and the statuses with which    *)
(* the service refuses.                                                     *)

Route(chain, refusals) == [chain |-> chain, refusals |-> refusals]

UserReads ==
  [getStats   |-> Route(<<"auth">>, {403}),
   getProfile |-> Route(<<"auth">>, {403})]

(* Mutant: a wrong password is answered like a missing token. *)
UserWritesUnauthorized ==
  [changeName     |-> Route(<<"auth", "input">>, {403, 409}),
   changePassword |-> Route(<<"auth", "input", "ip", "user">>, {401, 403, 409}),
   deleteMe       |-> Route(<<"auth", "ip", "user", "input">>, {401, 409})]

(* Only the change of a password is limited, which is known from the body. *)
UserWrites ==
  [changeName     |-> Route(<<"auth", "input">>, {403, 409}),
   changePassword |-> Route(<<"auth", "input", "ip", "user">>, {400, 403, 409}),
   deleteMe       |-> Route(<<"auth", "ip", "user", "input">>, {400, 409})]

AdminReads ==
  [listUsers  |-> Route(<<"auth", "admin", "input">>, {400}),
   userDetail |-> Route(<<"auth", "admin", "input">>, {404}),
   adminStats |-> Route(<<"auth", "admin">>, {})]

AdminWrites ==
  [setStatus   |-> Route(<<"auth", "admin", "input">>, {400, 404, 409}),
   setRole     |-> Route(<<"auth", "admin", "input">>, {400, 404, 409}),
   forceDelete |-> Route(<<"auth", "admin", "input">>, {400, 404, 409})]

GameReads ==
  [questions |-> Route(<<"ip", "auth", "input">>, {409}),
   result    |-> Route(<<"auth", "input">>, {404})]

GameSessions ==
  [submit  |-> Route(<<"ip", "auth", "user", "input">>, {400, 404, 409}),
   history |-> Route(<<"auth", "input">>, {400})]

WeakRoutes ==
  [weakList   |-> Route(<<"auth">>, {}),
   weakDelete |-> Route(<<"auth", "input">>, {404})]

RankingRoutes == [ranking |-> Route(<<"optional">>, {})]

ElementRoutes ==
  [elements |-> Route(<<"input", "optional">>, {}),
   element  |-> Route(<<"input">>, {404})]

LoginRoutes ==
  [register |-> Route(<<"ip", "input", "email">>, {403, 409}),
   verify   |-> Route(<<"input">>, {400, 404}),
   login    |-> Route(<<"ip", "input", "email">>, {401, 403, 409, 503})]

PasswordRoutes ==
  [forgot |-> Route(<<"ip", "input", "email">>, {}),
   reset  |-> Route(<<"ip", "input">>, {400, 404})]

Tables ==
  {UserReads, UserWrites, AdminReads, AdminWrites, GameReads, GameSessions, WeakRoutes,
   RankingRoutes, ElementRoutes, LoginRoutes, PasswordRoutes}

Endpoints == UNION {DOMAIN table : table \in Tables}
RouteOf(e) == (CHOOSE table \in Tables : e \in DOMAIN table)[e]

(* createApp: every request passes the general limit first. *)
ApiRoutes ==
  [e \in Endpoints |-> Route(<<"ip">> \o RouteOf(e).chain, RouteOf(e).refusals)]

Chain == ApiRoutes[call.endpoint].chain
Needs(step) == step \in ToSet(Chain)

----------------------------------------------------------------------------
(* The server.                                                              *)

NoCall == [endpoint |-> None, at |-> "none", attempt |-> 0, token |-> "none", step |-> 0,
           user |-> None, valid |-> FALSE, blind |-> FALSE, status |-> 0, done |-> 0, told |-> 0]

Accounts == {"user", "admin", "refused", "gone"}  \* refused: suspended, unverified or locked

(* A step passes with the call changed, or answers in the handler's place. *)
Passes(changed) == call' = [changed EXCEPT !.step = @ + 1]
Answers(status) == call' = [call EXCEPT !.at = "answered", !.status = status]

Identified == [call EXCEPT !.user = account]

(* authMiddleware: the token, then the row. *)
Auth ==
  \/ call.token # "good" /\ Answers(401)
  \/ call.token = "good" /\ account = "gone" /\ Answers(401)
  \/ call.token = "good" /\ account = "refused" /\ Answers(403)
  \/ call.token = "good" /\ account \in {"user", "admin"} /\ Passes(Identified)

(* optionalAuthMiddleware: only a token that does not verify is refused. *)
OptionalAuth ==
  \/ call.token = "bad" /\ Answers(401)
  \/ call.token = "none" /\ Passes(call)
  \/ call.token = "good" /\ Passes(IF account \in {"user", "admin"} THEN Identified ELSE call)

(* adminMiddleware. *)
Admin ==
  \/ call.user = None /\ Answers(401)
  \/ call.user = "user" /\ Answers(403)
  \/ call.user = "admin" /\ Passes(call)

(* zValidator. *)
Input == Answers(400) \/ Passes([call EXCEPT !.valid = TRUE])

(* A limiter finds its key in what earlier steps left, and refuses when the *)
(* limit is reached or, failing closed, when it cannot count.               *)
Limiter(known) ==
  Answers(429) \/ Answers(503) \/ Passes([call EXCEPT !.blind = @ \/ ~known])

Middleware ==
  /\ call.at = "server" /\ call.step <= Len(Chain)
  /\ LET step == Chain[call.step]
     IN \/ step = "auth" /\ Auth
        \/ step = "optional" /\ OptionalAuth
        \/ step = "admin" /\ Admin
        \/ step = "input" /\ Input
        \/ step = "ip" /\ Limiter(TRUE)
        \/ step = "user" /\ Limiter(call.user # None)
        \/ step = "email" /\ Limiter(call.valid)
  /\ UNCHANGED account

Ok == 200

(* The service does the work in one transaction or none of it; a commit     *)
(* whose answer the database driver lost is reported as a failure.          *)
Service ==
  /\ call.at = "server" /\ call.step > Len(Chain)
  /\ \/ call' = [call EXCEPT !.at = "answered", !.status = Ok, !.done = @ + 1]
     \/ \E status \in ApiRoutes[call.endpoint].refusals : Answers(status)
     \/ Answers(500)
     \/ call' = [call EXCEPT !.at = "answered", !.status = 500, !.done = @ + 1]
     \/ call.endpoint = "forgot" /\ Answers(Ok)
  /\ UNCHANGED account

----------------------------------------------------------------------------
(* The client.                                                              *)

(* The tokens a client function may send, and what it may tell of an answer *)
(* of success whose body is no JSON or of another shape than expected: an   *)
(* ApiError, or an error without a status.                                  *)
NoStatus == 0
Client(tokens, garbled) == [tokens |-> tokens, garbled |-> garbled]
Signed == {"bad", "good"}

StatsClient == [e \in DOMAIN UserReads \ {"getProfile"} |-> Client(Signed, {500})]

UsersClient == [e \in DOMAIN UserWrites \cup {"getProfile"} |-> Client(Signed, {500})]

AdminClient == [e \in DOMAIN AdminReads \cup DOMAIN AdminWrites |-> Client(Signed, {500})]

GameClient == [e \in DOMAIN GameReads \cup {"submit"} |-> Client(Signed, {NoStatus, 500})]

HistoryClient == [e \in {"history"} |-> Client(Signed, {NoStatus, 500})]

WeakClient == [e \in DOMAIN WeakRoutes |-> Client(Signed, {500})]

RankingClient == [e \in DOMAIN RankingRoutes |-> Client(Signed \cup {"none"}, {500})]

ElementsClient ==
  [e \in DOMAIN ElementRoutes |->
     Client(IF e = "elements" THEN Signed \cup {"none"} ELSE {"none"}, {NoStatus, 500})]

(* The forms of the sign-in pages call fetch themselves; only the login     *)
(* reads the body of a success.                                             *)
SignInForms ==
  [e \in DOMAIN LoginRoutes \cup DOMAIN PasswordRoutes |->
     Client({"none"}, IF e = "login" THEN {502} ELSE {})]

ClientTables ==
  {StatsClient, UsersClient, AdminClient, GameClient, HistoryClient, WeakClient, RankingClient,
   ElementsClient, SignInForms}

Clients ==
  [e \in Endpoints |-> (CHOOSE table \in ClientTables : e \in DOMAIN table)[e]]

(* Only the administrators' page sends through the auth store. *)
Reauthenticates == Needs("admin")

Tell(what) == call' = [call EXCEPT !.at = "told", !.told = what]

Send(endpoint, token) ==
  /\ token \in Clients[endpoint].tokens
  /\ call.at \in {"none", "told"}
  /\ call' = [NoCall EXCEPT !.endpoint = endpoint, !.token = token, !.attempt = 1, !.step = 1,
                            !.at = "server"]
  /\ UNCHANGED account

(* parseErrorResponse keeps the status whatever the body; a refused token   *)
(* is renewed once by the pages that send through the auth store.           *)
ErrorAnswer ==
  /\ call.at = "answered" /\ call.status # Ok
  /\ IF call.status = 401 /\ Reauthenticates /\ call.attempt = 1
     THEN call' = [call EXCEPT !.at = "refreshing"]
     ELSE Tell(call.status)
  /\ UNCHANGED account

OkAnswer ==
  /\ call.at = "answered" /\ call.status = Ok
  /\ \E told \in {Ok} \cup Clients[call.endpoint].garbled : Tell(told)
  /\ UNCHANGED account

(* The request or its answer is lost, or a proxy answers for the server. *)
Lost ==
  /\ call.at \in {"server", "answered"}
  /\ Tell(NoStatus) \/ Tell(502)
  /\ UNCHANGED account

(* The second attempt begins a request of its own. *)
Refreshed ==
  /\ call.at = "refreshing"
  /\ \/ \E token \in {"good", "bad"} :
          call' = [call EXCEPT !.at = "server", !.attempt = 2, !.token = token, !.step = 1,
                               !.user = None, !.valid = FALSE]
     \/ Tell(401)
     \/ Tell(503)
  /\ UNCHANGED account

(* Verification, an administrator, a lock and its end, a deletion. *)
AccountChanges(new) ==
  /\ account # "gone" /\ new # account
  /\ account' = new
  /\ UNCHANGED call

Init == account \in Accounts /\ call = NoCall

Next ==
  \/ \E endpoint \in Endpoints, token \in {"none", "bad", "good"} : Send(endpoint, token)
  \/ Middleware \/ Service \/ ErrorAnswer \/ OkAnswer \/ Lost \/ Refreshed
  \/ \E new \in Accounts : AccountChanges(new)

Spec == Init /\ [][Next]_vars

----------------------------------------------------------------------------
(* What a page is told is what happened: a success was done, a refusal was  *)
(* not, and nothing is done twice by the call that is sent again with a new *)
(* token. A page is told 401, on which it drops the session, only when the  *)
(* last token was not accepted: a wrong password is refused otherwise. No   *)
(* limiter runs before what identifies its caller, and an administrator's   *)
(* route does nothing for anyone else.                                      *)
ToldTruly ==
  LET refused == {400, 401, 403, 404, 409, 429}
  IN call.at # "none" =>
       /\ call.told = Ok /\ call.endpoint # "forgot" => call.done = 1
       /\ call.told \in refused => call.done = 0
       /\ call.done <= 1
       /\ call.told = 401 /\ Needs("auth") => call.user = None
       /\ ~call.blind
       /\ Needs("admin") /\ call.done > 0 => call.user = "admin"
=============================================================================
