------------------------------ MODULE Campaign ------------------------------
(***************************************************************************)
(* The release candidate campaign of staging: the workflow looks for the   *)
(* fixed synthetic account, lets the campaign walk through registration,   *)
(* verification, login, rotation, the AUTH_IP limit, a game, the deletion  *)
(* in the browser and the refusal of the old credentials, then cleans up   *)
(* and draws its decision. The server it talks to answers as it should;    *)
(* requests take time, may get no answer, and may meet a limiter without   *)
(* a store (503). One unit of time is 75 seconds.                          *)
(***************************************************************************)
EXTENDS Integers, Sequences

CONSTANTS
  Limit,      \* requests AUTH_IP admits in a window
  Window,     \* length of that window (AUTH_WINDOW_MS, 600 s)
  TokenLife,  \* life of an access token (ACCESS_TOKEN_TTL_SEC, 900 s)
  MaxLate,    \* units of time the requests may take altogether
  MaxFaults,  \* bound on lost and unavailable requests
  None        \* no account, no token, no request

CampaignAssumption ==
  /\ {Limit, Window, TokenLife} \subseteq Nat \ {0}
  /\ {MaxLate, MaxFaults} \subseteq Nat
  /\ None \notin {"clear", "present", "unknown"}

VARIABLES
  now,      \* the clock
  account,  \* the user with the fixture's identifiers, or None
  server,   \* the window of AUTH_IP, and the live refresh tokens
  run,      \* the campaign: its step, its request, its credentials, its outcome
  flow,     \* the workflow: where it is, and the status of each of its jobs
  faults    \* requests that were lost or met a limiter without a store

vars == <<now, account, server, run, flow, faults>>

Step(stage, what, expect) == [stage |-> stage, what |-> what, expect |-> expect]

Many(step, n) == [i \in 1..n |-> step]

(* What the campaign does in order, and the status it expects. *)
Script ==
  << Step("REGISTRATION", "register", 201),
     Step("EMAIL_VERIFICATION", "arm", 0),
     Step("EMAIL_VERIFICATION", "verify", 200),
     Step("EMAIL_VERIFICATION", "verify", 400),
     Step("VALID_LOGIN", "login", 200),
     Step("REFRESH_PROTOCOL", "refresh", 200),
     Step("REFRESH_PROTOCOL", "refreshOld", 401),
     Step("AUTH_WINDOW_WAIT", "waitWindow", 0) >>
  \o Many(Step("AUTH_RATE_LIMIT", "evidence", 200), Limit)
  \o << Step("AUTH_RATE_LIMIT", "evidence", 429),
        Step("AUTH_RESET_WAIT", "waitReset", 0),
        Step("AUTH_RESET", "evidence", 200),
        Step("GAME", "play", 200),
        Step("UI_PHASE", "ui", 0),
        Step("OLD_CREDENTIAL_REJECTION", "play", 401),
        Step("OLD_CREDENTIAL_REJECTION", "refresh", 401),
        Step("OLD_CREDENTIAL_REJECTION", "evidence", 401) >>

Here == Script[run.step]
Requests == {"register", "verify", "login", "refresh", "refreshOld", "evidence", "play"}

----------------------------------------------------------------------------
(* The server. *)

WindowOver == now >= server.end
Admits == WindowOver \/ server.count < Limit
Counted ==
  IF WindowOver THEN [server EXCEPT !.end = now + Window, !.count = 1]
                ELSE [server EXCEPT !.count = @ + 1]

Usable == account # None /\ account.verified
Limited == {"register", "login", "evidence"}
NewToken == server.tokens + 1

Answer(status, srv, acc) == [status |-> status, server |-> srv, account |-> acc]

(* The answer to a request, with what the server and the account become. *)
Serve(what) ==
  LET srv == IF what \in Limited THEN Counted ELSE server
      signed == [srv EXCEPT !.tokens = NewToken, !.live = @ \cup {NewToken}]
      refused(status) == Answer(status, srv, account)
  IN IF what \in Limited /\ ~Admits THEN Answer(429, server, account)
     ELSE CASE what = "register" ->
            IF account = None THEN Answer(201, srv, [armed |-> FALSE, verified |-> FALSE, admin |-> FALSE])
                              ELSE refused(409)
       [] what = "verify" ->
            IF account # None /\ account.armed
              THEN Answer(200, srv, [account EXCEPT !.armed = FALSE, !.verified = TRUE])
              ELSE refused(400)
       [] what \in {"login", "evidence"} ->
            IF Usable THEN Answer(200, signed, account) ELSE refused(401)
       [] what = "refresh" ->
            IF run.cookie \in srv.live
              THEN Answer(200, [signed EXCEPT !.live = @ \ {run.cookie}], account)
              ELSE refused(401)
       [] what = "refreshOld" -> refused(IF run.oldCookie \in srv.live THEN 200 ELSE 401)
       [] what = "play" -> refused(IF Usable /\ now < run.access + TokenLife THEN 200 ELSE 401)

----------------------------------------------------------------------------
(* The campaign. *)

NotRunning == [step |-> 1, inFlight |-> FALSE, start |-> 0, wake |-> 0, access |-> 0,
               cookie |-> 0, oldCookie |-> 0, late |-> 0, outcome |-> None, stage |-> None]

Running == flow.at = "campaign" /\ run.outcome = None

End(outcome) == run' = [run EXCEPT !.outcome = outcome, !.stage = Here.stage, !.inFlight = FALSE]

(* The step is done; after the last one the campaign is clear. *)
Done(r) ==
  run' = IF r.step = Len(Script)
           THEN [r EXCEPT !.outcome = "clear", !.stage = Here.stage, !.inFlight = FALSE]
           ELSE [r EXCEPT !.step = @ + 1, !.inFlight = FALSE]

Send ==
  /\ Running /\ ~run.inFlight /\ Here.what \in Requests
  /\ run' = [run EXCEPT !.inFlight = TRUE]
  /\ UNCHANGED <<now, account, server, flow, faults>>

(* A login and a refresh leave an access token and a cookie; the later logins are only looked at. *)
Keep(what) ==
  IF what \in {"login", "refresh"}
    THEN [run EXCEPT !.access = now, !.cookie = NewToken, !.oldCookie = run.cookie]
    ELSE run

(* createRateLimitSummary takes Retry-After from the 429, and the campaign  *)
(* waits for one second more.                                               *)
RetryAfter == server.end + 1

(* The answer arrives; another status than the expected one is "present". *)
Answered ==
  /\ Running /\ run.inFlight
  /\ LET a == Serve(Here.what)
     IN /\ server' = a.server /\ account' = a.account
        /\ IF a.status # Here.expect THEN End("present")
           ELSE IF a.status = 429 THEN Done([run EXCEPT !.wake = RetryAfter])
           ELSE Done(IF a.status = 200 THEN Keep(Here.what) ELSE run)
  /\ UNCHANGED <<now, flow, faults>>

(* No answer within ten seconds, served or not: "unknown". *)
Lost ==
  /\ Running /\ run.inFlight /\ faults < MaxFaults
  /\ \/ UNCHANGED <<server, account>>
     \/ LET a == Serve(Here.what) IN server' = a.server /\ account' = a.account
  /\ End("unknown") /\ faults' = faults + 1
  /\ UNCHANGED <<now, flow>>

(* 503: "present" when it is the limiter's own answer or one of the AUTH_IP *)
(* requests, else "unknown".                                                *)
Unavailable ==
  /\ Running /\ run.inFlight /\ faults < MaxFaults
  /\ End("present") \/ (Here.stage # "AUTH_RATE_LIMIT" /\ End("unknown"))
  /\ faults' = faults + 1
  /\ UNCHANGED <<now, account, server, flow>>

(* armM2EmailVerification: the account must be the fresh one of this campaign. *)
Armable == account # None /\ ~account.verified /\ ~account.admin

Arm ==
  /\ Running /\ Here.what = "arm"
  /\ IF Armable THEN account' = [account EXCEPT !.armed = TRUE] /\ Done(run)
                ELSE UNCHANGED account /\ End("unknown")
  /\ UNCHANGED <<now, server, flow, faults>>

(* waitBounded: until the window that began with the campaign has passed,   *)
(* or until the Retry-After of the refused login has.                       *)
Waits == Here.what \in {"waitWindow", "waitReset"}
WaitOver == now >= IF Here.what = "waitWindow" THEN run.start + Window ELSE run.wake

Wait ==
  /\ Running /\ Waits /\ WaitOver
  /\ Done(run)
  /\ UNCHANGED <<now, account, server, flow, faults>>

(* The browser signs in and deletes the account; any failure of it is "unknown". *)
UiPhase ==
  /\ Running /\ Here.what = "ui"
  /\ \/ /\ Usable /\ Admits
        /\ account' = None
        /\ server' = [Counted EXCEPT !.tokens = NewToken, !.live = {}]
        /\ Done(run)
     \/ UNCHANGED <<account, server>> /\ End("unknown")
  /\ UNCHANGED <<now, flow, faults>>

----------------------------------------------------------------------------
(* The workflow. *)

(* preflight: nobody may hold the fixture's identifiers. *)
Preflight ==
  /\ flow.at = "preflight"
  /\ IF account = None
       THEN /\ flow' = [flow EXCEPT !.at = "campaign"]
            /\ run' = [run EXCEPT !.start = now]
       ELSE /\ flow' = [flow EXCEPT !.at = "recovery"]
            /\ UNCHANGED run
  /\ UNCHANGED <<now, account, server, faults>>

CampaignEnds ==
  /\ flow.at = "campaign" /\ run.outcome # None
  /\ flow' = [flow EXCEPT !.at = "cleanup",
                          !.campaign = IF run.outcome = "clear" THEN "clear" ELSE "unknown"]
  /\ UNCHANGED <<now, account, server, run, faults>>

Exact == account # None /\ ~account.admin

Removed ==
  IF Exact THEN /\ account' = None /\ server' = [server EXCEPT !.live = {}]
           ELSE UNCHANGED <<account, server>>

(* removeM2StagingFixture: clear when the account is gone or was never there. *)
Remove(failed) ==
  IF failed THEN UNCHANGED <<account, server>> ELSE Removed

(* Mutant: a cleanup that ran is taken for one that found the account its own. *)
StatusOfRun(failed) == IF ~failed THEN "clear" ELSE "unknown"

Status(failed) == IF ~failed /\ (account = None \/ Exact) THEN "clear" ELSE "unknown"

MainCleanup ==
  /\ flow.at = "cleanup"
  /\ \E failed \in BOOLEAN :
       /\ failed => faults < MaxFaults
       /\ faults' = faults + IF failed THEN 1 ELSE 0
       /\ Remove(failed)
       /\ flow' = [flow EXCEPT !.main = Status(failed),
                      !.at = IF flow.campaign = "clear" /\ Status(failed) = "clear" THEN "decide"
                             ELSE "recovery"]
  /\ UNCHANGED <<now, run>>

RecoveryCleanup ==
  /\ flow.at = "recovery"
  /\ \E failed \in BOOLEAN :
       /\ failed => faults < MaxFaults
       /\ faults' = faults + IF failed THEN 1 ELSE 0
       /\ Remove(failed)
       /\ flow' = [flow EXCEPT !.recovery = Status(failed), !.at = "decide"]
  /\ UNCHANGED <<now, run>>

(* determineM2Decision over the statuses the last job puts together. *)
Residue == IF flow.main = "clear" \/ flow.recovery = "clear" THEN "clear" ELSE "unknown"

Decide ==
  /\ flow.at = "decide"
  /\ LET statuses == {flow.campaign, flow.main, Residue} \cup ({flow.recovery} \ {"not-required"})
     IN flow' = [flow EXCEPT !.at = "done",
                    !.decision = IF statuses = {"clear"} THEN "clear" ELSE "unknown"]
  /\ UNCHANGED <<now, account, server, run, faults>>

(* Time passes during a wait; a request, ten seconds at most, takes little of it. *)
Tick ==
  /\ Running
  /\ \/ Waits /\ ~WaitOver /\ UNCHANGED run
     \/ run.inFlight /\ run.late < MaxLate /\ run' = [run EXCEPT !.late = @ + 1]
  /\ now' = now + 1
  /\ UNCHANGED <<account, server, flow, faults>>

Init ==
  /\ now = 0 /\ faults = 0
  /\ account \in {None} \cup [armed : {FALSE}, verified : BOOLEAN, admin : BOOLEAN]
  /\ server = [end |-> 0, count |-> 0, tokens |-> 0, live |-> {}]
  /\ run = NotRunning
  /\ flow = [at |-> "preflight", campaign |-> "unknown", main |-> "unknown",
             recovery |-> "not-required", decision |-> None]

Next ==
  \/ Preflight \/ Send \/ Answered \/ Lost \/ Unavailable \/ Arm \/ Wait \/ UiPhase
  \/ CampaignEnds \/ MainCleanup \/ RecoveryCleanup \/ Decide \/ Tick

Spec == Init /\ [][Next]_vars

----------------------------------------------------------------------------
(* The decision is clear only when the campaign found everything in order   *)
(* and left no credential behind; and a cleanup that calls itself clear     *)
(* leaves nobody with the fixture's identifiers, whatever step the campaign *)
(* broke off at (determineM2Decision, removeM2StagingFixture).              *)
DecisionEarned ==
  /\ flow.decision = "clear" => run.outcome = "clear" /\ server.live = {}
  /\ flow.main = "clear" \/ flow.recovery = "clear" => account = None

(* "present" says that the release candidate is at fault. This server is    *)
(* right in all it answers, so without a fault no campaign may end so.      *)
PresentIsReal == faults = 0 => run.outcome # "present"

(* The same of the game alone, which is played with the token of the start. *)
GameIsPlayed == faults = 0 /\ run.outcome = "present" => run.stage # "GAME"
=============================================================================
