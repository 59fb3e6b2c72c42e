---------------------------- MODULE AccountPages ----------------------------
(***************************************************************************)
(* The forms of one browser tab: routes/(app)/settings, login, register,   *)
(* forgot-password, reset-password and verify-email, with the session of   *)
(* the auth store they change. A page that is left is destroyed, but only  *)
(* the deletion and the verification of an address stop with it: the other *)
(* calls run on and change the store when they end.                        *)
(***************************************************************************)
EXTENDS Integers, FiniteSets

CONSTANTS
  Users,
  Visited,    \* the pages the user visits
  None,
  MaxMounts,  \* bound on the pages opened
  MaxCommands \* bound on what the user does

VARIABLES
  who,     \* the user the access token belongs to, or Anonymous, or Initializing
  shown,   \* the user of the auth store, as the header shows it
  page,    \* the page that is open
  mount,   \* its number
  calls,   \* calls in flight, of this page and of pages that were left
  timers,  \* pages whose redirect of a verified address is due
  deleted, \* accounts that are gone
  left     \* commands that remain

vars == <<who, shown, page, mount, calls, timers, deleted, left>>

Anonymous == "anonymous"
Initializing == "initializing"

AccountPagesAssumption ==
  /\ {None, Anonymous, Initializing} \cap Users = {}
  /\ None \notin {Anonymous, Initializing, "login", "home"}
  /\ MaxMounts \in Nat \ {0} /\ MaxCommands \in Nat

LoggedIn == who \in Users

SettingsForms == {"profile", "password", "delete"}

(* The forms of a page. *)
FormsOf(name) ==
  CASE name = "settings" -> SettingsForms
    [] name \in {"login", "register", "forgot", "reset"} -> {name}
    [] OTHER -> {}

NewPage(name) ==
  [name |-> name, busy |-> {}, failed |-> {}, done |-> FALSE, profile |-> None,
   loading |-> FALSE, loaded |-> FALSE, unknown |-> FALSE]

(* Mutant: a page that is left does not forget its verification. *)
OpenOnly(name, cs, ts) ==
  /\ mount < MaxMounts /\ mount' = mount + 1 /\ page' = NewPage(name) /\ timers' = ts \ {mount}
  /\ calls' = {IF c.mount = mount /\ c.form = "delete" THEN [c EXCEPT !.aborted = TRUE] ELSE c : c \in cs}

(* goto: the deletion of the page left is aborted, the answer to its        *)
(* verification ignored and its timers cleared.                             *)
Open(name, cs, ts) ==
  /\ mount < MaxMounts /\ mount' = mount + 1 /\ page' = NewPage(name) /\ timers' = ts \ {mount}
  /\ calls' = {IF c.mount = mount /\ c.form \in {"delete", "verify"}
               THEN [c EXCEPT !.aborted = TRUE] ELSE c : c \in cs}

GoTo(name) == Open(name, calls, timers)
Stay == UNCHANGED <<page, mount, calls, timers>>

(* The effect of a page that the session has no business on. *)
Redirect ==
  CASE page.name = "settings" /\ who = Anonymous -> "login"
    [] page.name \in {"login", "register", "forgot", "reset"} /\ LoggedIn -> "home"
    [] OTHER -> None

ProfileDue == page.name = "settings" /\ LoggedIn /\ ~page.loaded /\ ~page.loading
Quiet == Redirect = None /\ ~ProfileDue

Redirected ==
  /\ Redirect # None /\ GoTo(Redirect)
  /\ UNCHANGED <<who, shown, deleted, left>>

Call(form, user) ==
  calls \cup {[form |-> form, mount |-> mount, user |-> user, aborted |-> FALSE, served |-> FALSE]}

(* loadProfile up to its await, from the effect or from the button that     *)
(* loads again.                                                             *)
LoadProfile ==
  /\ page' = [page EXCEPT !.loading = TRUE, !.failed = @ \ {"load"}]
  /\ calls' = Call("load", who)
  /\ UNCHANGED <<who, shown, mount, timers, deleted>>

LoadFirst == Redirect = None /\ ProfileDue /\ LoadProfile /\ UNCHANGED left

User == Quiet /\ left > 0 /\ left' = left - 1

LoadAgain ==
  /\ User /\ page.name = "settings" /\ LoggedIn /\ "load" \in page.failed /\ ~page.loading
  /\ LoadProfile

(* What the user can fill in and send. *)
Offered ==
  IF page.name = "settings"
  THEN IF page.profile # None /\ ~page.loading /\ "load" \notin page.failed THEN SettingsForms ELSE {}
  ELSE IF page.done THEN {} ELSE FormsOf(page.name)

(* A form that was filled in is sent; no form is sent twice at once.        *)
Submit(form, user) ==
  /\ User /\ form \in Offered \ page.busy
  /\ page' = [page EXCEPT !.busy = @ \cup {form}, !.failed = @ \ {form},
                          !.unknown = IF form = "delete" THEN FALSE ELSE @]
  /\ calls' = Call(form, user)
  /\ UNCHANGED <<who, shown, mount, timers, deleted>>

(* The submit handlers up to their await. A login is for the account whose  *)
(* address was typed.                                                       *)
HandleProfileSubmit == Submit("profile", who)
HandlePasswordSubmit == Submit("password", who)
HandleDeleteSubmit == Submit("delete", who)
HandleLogin(user) == Submit("login", user)
HandleRegister(user) == Submit("register", user)
HandleForgotPassword(user) == Submit("forgot", user)
HandleResetPassword(user) == Submit("reset", user)

HandleSubmit ==
  \/ HandleProfileSubmit \/ HandlePasswordSubmit \/ HandleDeleteSubmit
  \/ \E user \in Users :
       HandleLogin(user) \/ HandleRegister(user) \/ HandleForgotPassword(user) \/ HandleResetPassword(user)

(* verify of the page of an address: when it opens, or again after an error.*)
Verify ==
  /\ Quiet /\ page.name = "verify" /\ ~page.done /\ "verify" \notin page.busy
  /\ "verify" \in page.failed => left > 0
  /\ left' = IF "verify" \in page.failed THEN left - 1 ELSE left
  /\ page' = [page EXCEPT !.busy = {"verify"}, !.failed = {}]
  /\ calls' = Call("verify", None)
  /\ UNCHANGED <<who, shown, mount, timers, deleted>>

(* The server: an account may be deleted by a call that was aborted. *)
Serve(c) ==
  /\ c \in calls /\ ~c.served
  /\ calls' = (calls \ {c}) \cup {[c EXCEPT !.served = TRUE]}
  /\ deleted' = IF c.form = "delete" THEN deleted \cup {c.user} ELSE deleted
  /\ UNCHANGED <<who, shown, page, mount, timers, left>>

----------------------------------------------------------------------------
(* The rest of a call. The page's own state matters only while it is open.  *)

Ended(c, p) ==
  IF c.mount = mount
  THEN [p EXCEPT !.busy = @ \ {c.form}, !.loading = @ /\ c.form # "load",
                 !.loaded = @ \/ c.form = "load"]
  ELSE page

SignedOut == who' = Anonymous /\ shown' = None
Without(c) == calls \ {c}

Leave(name, c) == Open(name, Without(c), timers)

(* A call has succeeded. *)
Success(c, form) == Quiet /\ c.form = form /\ c.served /\ ~c.aborted /\ UNCHANGED <<deleted, left>>

InPage(c, p) ==
  /\ page' = Ended(c, p) /\ calls' = Without(c) /\ UNCHANGED mount

(* The rest of the handlers after a success. The store changes for the      *)
(* session of the moment, whoever sent the call.                            *)
ProfileLoaded(c) ==
  /\ Success(c, "load") /\ InPage(c, [page EXCEPT !.profile = c.user])
  /\ UNCHANGED <<who, shown, timers>>

ProfileSaved(c) ==
  /\ Success(c, "profile") /\ InPage(c, [page EXCEPT !.profile = c.user])
  /\ shown' = IF LoggedIn THEN c.user ELSE shown
  /\ UNCHANGED <<who, timers>>

PasswordChanged(c) == Success(c, "password") /\ SignedOut /\ Leave("login", c)

AccountDeleted(c) == Success(c, "delete") /\ SignedOut /\ Leave("home", c)

LoginSucceeded(c) ==
  /\ Success(c, "login") /\ InPage(c, page) /\ who' = c.user /\ shown' = c.user
  /\ UNCHANGED timers

Done(c) == InPage(c, [page EXCEPT !.done = TRUE]) /\ UNCHANGED <<who, shown>>

Registered(c) == Success(c, "register") /\ Done(c) /\ UNCHANGED timers
ForgotPasswordSent(c) == Success(c, "forgot") /\ Done(c) /\ UNCHANGED timers
PasswordReset(c) == Success(c, "reset") /\ Done(c) /\ UNCHANGED timers

(* The redirect is set up. *)
Verified(c) == Success(c, "verify") /\ Done(c) /\ timers' = timers \cup {c.mount}

Succeeded(c) ==
  \/ ProfileLoaded(c) \/ ProfileSaved(c) \/ PasswordChanged(c) \/ AccountDeleted(c)
  \/ LoginSucceeded(c) \/ Registered(c) \/ ForgotPasswordSent(c) \/ PasswordReset(c) \/ Verified(c)

(* handleUnauthorized: the session is given up, whoever's it is. *)
Unauthorized(c) ==
  /\ Quiet /\ ~c.aborted /\ c.form \in SettingsForms \cup {"load"}
  /\ SignedOut /\ Leave("login", c)
  /\ UNCHANGED <<deleted, left>>

(* A refusal or no answer, when the server may have done its part. *)
Failed(c) ==
  /\ Quiet /\ ~c.aborted
  /\ page' = Ended(c, [page EXCEPT !.failed = @ \cup {c.form}])
  /\ calls' = Without(c)
  /\ UNCHANGED <<who, shown, mount, timers, deleted, left>>

(* A deletion aborted by its page is not reported any more. A deletion      *)
(* aborted otherwise leaves its result unknown.                             *)
Dropped(c) ==
  /\ c.aborted /\ calls' = Without(c)
  /\ UNCHANGED <<who, shown, page, mount, timers, deleted, left>>

Interrupted(c) ==
  /\ Quiet /\ c.form = "delete" /\ ~c.aborted /\ c.mount = mount
  /\ page' = Ended(c, [page EXCEPT !.unknown = TRUE])
  /\ calls' = Without(c)
  /\ UNCHANGED <<who, shown, mount, timers, deleted, left>>

(* The redirect of a verified address. *)
TimerFires ==
  /\ Quiet /\ \E t \in timers : Open("login", calls, timers \ {t})
  /\ UNCHANGED <<who, shown, deleted, left>>

----------------------------------------------------------------------------
(* The rest of the tab: links, the header's logout, the refresh at start.   *)

Navigate(name) ==
  /\ User /\ name # page.name /\ GoTo(name)
  /\ UNCHANGED <<who, shown, deleted>>

HeaderLogout ==
  /\ User /\ LoggedIn /\ SignedOut /\ Stay /\ UNCHANGED deleted

Started(user) ==
  /\ Quiet /\ who = Initializing
  /\ who' = user /\ shown' = IF user = Anonymous THEN None ELSE user
  /\ Stay /\ UNCHANGED <<deleted, left>>

Init ==
  /\ who = Initializing /\ shown = None /\ page \in {NewPage(name) : name \in Visited}
  /\ mount = 1 /\ calls = {} /\ timers = {} /\ deleted = {} /\ left = MaxCommands

Next ==
  \/ Redirected \/ HandleSubmit \/ LoadFirst \/ LoadAgain \/ Verify \/ TimerFires \/ HeaderLogout
  \/ \E c \in calls :
       Serve(c) \/ Succeeded(c) \/ Unauthorized(c) \/ Failed(c) \/ Dropped(c) \/ Interrupted(c)
  \/ \E name \in Visited : Navigate(name)
  \/ \E user \in Users \cup {Anonymous} : Started(user)

Spec == Init /\ [][Next]_vars

----------------------------------------------------------------------------
Forms == SettingsForms \cup {"login", "register", "forgot", "reset", "verify", "load"}

TypeOK ==
  /\ who \in Users \cup {Anonymous, Initializing} /\ shown \in Users \cup {None}
  /\ (shown = None) = (who \notin Users)
  /\ page.busy \subseteq Forms /\ page.failed \subseteq Forms /\ page.profile \in Users \cup {None}
  /\ mount \in 1 .. MaxMounts /\ timers \subseteq 1 .. mount /\ deleted \subseteq Users
  /\ calls \subseteq [form : Forms, mount : 1 .. mount, user : Users \cup {None},
                      aborted : BOOLEAN, served : BOOLEAN]

(* A form is never sent twice at once by its page, its sign of being sent   *)
(* stays as long as its call and no longer, and the redirect of a verified  *)
(* address never takes the user away from another page.                     *)
SignsEnd ==
  /\ \A form \in Forms :
       Cardinality({c \in calls : c.mount = mount /\ c.form = form})
         = IF form \in page.busy \/ (form = "load" /\ page.loading) THEN 1 ELSE 0
  /\ \A t \in timers : t = mount

(* The header shows the user whose token the calls carry. TLC refutes it: a *)
(* change of name answered after another user's login shows the first one.  *)
OwnIdentity == who \in Users => shown = who
=============================================================================
