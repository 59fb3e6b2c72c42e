------------------------------ MODULE AuthStore ------------------------------
(***************************************************************************)
(* The authentication of one browser: the AuthStore of each tab, the Web   *)
(* Lock and the cookie jar the tabs share, the network between them and    *)
(* the API, and the auth routes with the session rows they rotate (what    *)
(* AuthService does in detail happens here in one step of Serve).          *)
(*                                                                         *)
(* A fetch is a message on its way to the server and then one on its way   *)
(* back.  Aborting it settles the promise at once and disowns the message: *)
(* the server may still handle it and its Set-Cookie may still arrive.     *)
(* sessionStorage is left out: what it keeps is the user of an             *)
(* authenticated state, and what is loaded from it is only shown once a    *)
(* refresh has replaced it (the fallback for answers without a user, which *)
(* this API no longer sends, is left out with it).                         *)
(***************************************************************************)
EXTENDS Naturals, Integers, Sequences, FiniteSets

CONSTANTS
  Tabs,         \* tabs of the browser
  Slots,        \* refreshes of one tab that can be unfinished at once
  Users,        \* accounts
  NoUser,       \* no account
  NoSlot,       \* no refresh
  MaxSession,   \* bound: session tokens that exist at once
  MaxCommands,  \* bound: page loads, logins, logouts and deletions of one tab
  MaxFaults     \* bound: failed or lost requests and revoked sessions

ASSUME StoreAssumption ==
  /\ NoUser \notin Users /\ NoSlot \notin Slots
  /\ MaxSession \in Nat \ {0} /\ MaxCommands \in Nat /\ MaxFaults \in Nat

VARIABLES
  status, user, access, \* state.status, state.user, accessToken's account
  gen,      \* #authGeneration
  flight,   \* #refreshPromise: the slot of the refresh it tracks
  op,       \* the refreshes of each tab
  queue,    \* the refreshes that wait for the Web Lock, in order
  call,     \* requestWithReauthentication of each tab
  retrying, \* isRetryingAuth of the layout: the refresh it awaits
  up, down, \* messages to the server and back to the browser
  notices,  \* tabs that have not received the account-deleted event yet
  jar,      \* the refresh token cookie: a session, or 0 for none
  rows,     \* session rows of the API: the account, or NoUser
  faults,   \* faults so far
  cmds,     \* page loads, logins, logouts and deletions of each tab
  last,     \* the latest of them
  ended,    \* history: a session was ended or the answer that renewed it lost
  refused   \* history: a refresh that sent a cookie was answered 401

store == <<status, user, access>>
server == <<jar, rows>>
net == <<up, down>>
vars == <<store, gen, flight, op, queue, call, retrying, net, notices, server,
          faults, cmds, last, ended, refused>>

Ops == Tabs \X Slots
Sessions == 1..MaxSession
Unset == -1  \* an answer without Set-Cookie
Idle == [pc |-> "idle", gen |-> 0, born |-> 0, aborted |-> FALSE, ok |-> FALSE,
         body |-> NoUser]
NoCall == [pc |-> "idle", slot |-> NoSlot]

(* The answers performRefresh tells apart: a 200 with its account, 401 or  *)
(* 403, another status, a 200 without a readable account, no answer.       *)
Upward ==
  [kind : {"refresh"}, from : Ops, stray : BOOLEAN, cookie : 0..MaxSession]
  \cup [kind : {"logout"}, from : Tabs, cookie : 0..MaxSession]
Downward ==
  [kind : {"refresh"}, from : Ops, stray : BOOLEAN, set : Unset..MaxSession,
   is : {"ok", "refused", "error", "broken", "lost"}, user : Users \cup {NoUser}]
  \cup [kind : {"logout"}, from : Tabs, set : {Unset, 0}]

-----------------------------------------------------------------------------
SetStore(t, s, u, a) ==
  /\ status' = [status EXCEPT ![t] = s]
  /\ user' = [user EXCEPT ![t] = u]
  /\ access' = [access EXCEPT ![t] = a]

(* Mutant: the token outlives the account. *)
ClearKeepingToken(t) == SetStore(t, "anonymous", NoUser, access[t])

ClearAuthState(t) == SetStore(t, "anonymous", NoUser, NoUser)
EnterUnavailable(t) == SetStore(t, "unavailable", user[t], NoUser)

(* A slot whose last refresh is over and whose messages are all delivered; *)
(* which one does not matter.                                              *)
IsFree(t, s) ==
  /\ op[<<t, s>>].pc = "idle"
  /\ \A m \in up \cup down : m.from # <<t, s>>
FreeSlots(t) ==
  IF \E s \in Slots : IsFree(t, s) THEN {CHOOSE s \in Slots : IsFree(t, s)} ELSE {}

Started(t, g) ==
  [Idle EXCEPT !.pc = "lock", !.gen = g, !.born = cmds[t]]

(* refresh(): it joins the tracked refresh, or starts one that first asks  *)
(* for the Web Lock.  `wait` is the slot whose promise it returns.         *)
Refresh(t, wait) ==
  IF flight[t] # NoSlot
  THEN /\ wait = flight[t]
       /\ UNCHANGED <<store, op, queue, flight>>
  ELSE /\ wait \in FreeSlots(t)
       /\ SetStore(t, "initializing", user[t], NoUser)
       /\ op' = [op EXCEPT ![<<t, wait>>] = Started(t, gen[t])]
       /\ queue' = Append(queue, <<t, wait>>)
       /\ flight' = [flight EXCEPT ![t] = wait]

(* The fetches of tab t are not its own any more. *)
Disown(ms, t) ==
  {IF m.kind = "refresh" /\ m.from[1] = t THEN [m EXCEPT !.stray = TRUE] ELSE m : m \in ms}

(* Mutant: neither the abort, nor a new generation, nor the promise        *)
(* forgotten.                                                              *)
CancelNothing(t) == UNCHANGED <<gen, flight, op, up, down>>

(* cancelRefresh: the aborted fetch rejects with AbortError and the        *)
(* refresh returns false; while the body is being read it is res.json()    *)
(* that rejects.  A refresh that waits for the lock finds its signal       *)
(* aborted when it gets it.                                                *)
CancelRefresh(t) ==
  /\ gen' = [gen EXCEPT ![t] = @ + 1]
  /\ flight' = [flight EXCEPT ![t] = NoSlot]
  /\ op' = [o \in Ops |->
       IF o[1] # t \/ o[2] # flight[t] \/ op[o].pc = "done" THEN op[o]
       ELSE [op[o] EXCEPT !.aborted = TRUE, !.pc = IF @ = "fetch" THEN "done" ELSE @]]
  /\ up' = Disown(up, t)
  /\ down' = Disown(down, t)

-----------------------------------------------------------------------------
(* No tab is open; an earlier visit may have left a session in the jar. *)
Init ==
  \E u \in Users \cup {NoUser} :
    /\ status = [t \in Tabs |-> "closed"]
    /\ user = [t \in Tabs |-> NoUser]
    /\ access = [t \in Tabs |-> NoUser]
    /\ gen = [t \in Tabs |-> 0]
    /\ flight = [t \in Tabs |-> NoSlot]
    /\ op = [o \in Ops |-> Idle]
    /\ queue = <<>>
    /\ call = [t \in Tabs |-> NoCall]
    /\ retrying = [t \in Tabs |-> NoSlot]
    /\ up = {} /\ down = {} /\ notices = {}
    /\ jar = IF u = NoUser THEN 0 ELSE 1
    /\ rows = [s \in Sessions |-> IF s = 1 THEN u ELSE NoUser]
    /\ faults = 0 /\ cmds = [t \in Tabs |-> 0] /\ last = [t \in Tabs |-> "none"]
    /\ ended = FALSE /\ refused = FALSE

Command(t, c) ==
  /\ cmds[t] < MaxCommands
  /\ cmds' = [cmds EXCEPT ![t] = @ + 1]
  /\ last' = [last EXCEPT ![t] = c]

(* A token nobody holds. *)
Fresh ==
  LET free == {s \in Sessions : /\ rows[s] = NoUser /\ s # jar
                                /\ \A m \in up : m.cookie # s
                                /\ \A m \in down : m.set # s}
  IN {s \in free : \A r \in free : s <= r}

(* A page load: the document of tab t goes away with its refreshes, its    *)
(* lock and its requests, and the new layout calls initialize().           *)
Open(t) ==
  \E s \in FreeSlots(t) :
    /\ Command(t, "load")
    /\ SetStore(t, "initializing", IF status[t] = "authenticated" THEN user[t] ELSE NoUser, NoUser)
    /\ op' = [o \in Ops |-> IF o[1] # t THEN op[o]
                            ELSE IF o[2] = s THEN [Started(t, 0) EXCEPT !.born = cmds'[t]]
                            ELSE Idle]
    /\ queue' = Append(SelectSeq(queue, LAMBDA o : o[1] # t), <<t, s>>)
    /\ gen' = [gen EXCEPT ![t] = 0]
    /\ flight' = [flight EXCEPT ![t] = s]
    /\ call' = [call EXCEPT ![t] = NoCall]
    /\ retrying' = [retrying EXCEPT ![t] = NoSlot]
    /\ up' = Disown(up, t)
    /\ down' = Disown(down, t)
    /\ notices' = notices \ {t}
    /\ ended' = (ended \/ \E m \in up \cup down :
                            m.kind = "refresh" /\ m.from[1] = t /\ ~m.stray)
    /\ UNCHANGED <<server, faults, refused>>

(* The "retry" button of the layout, shown when the state is unavailable. *)
Retry(t) ==
  /\ status[t] = "unavailable" /\ retrying[t] = NoSlot
  /\ \E s \in Slots :
       /\ retrying' = [retrying EXCEPT ![t] = s]
       /\ \/ flight[t] = NoSlot /\ Refresh(t, s)
          \/ /\ flight[t] = s
             /\ SetStore(t, "initializing", user[t], NoUser)
             /\ UNCHANGED <<op, queue, flight>>
  /\ UNCHANGED <<gen, call, net, notices, server, faults, cmds, last, ended, refused>>

(* The login page posts the form and hands the answer to login(); the      *)
(* cookie and the row are those of the answer.                             *)
Login(t, u) ==
  /\ Command(t, "login")
  /\ status[t] \in {"initializing", "anonymous"}
  /\ \E s \in Fresh : rows' = [rows EXCEPT ![s] = u] /\ jar' = s
  /\ CancelRefresh(t)
  /\ SetStore(t, "authenticated", u, u)
  /\ UNCHANGED <<queue, call, retrying, notices, faults, ended, refused>>

(* logout(): the state is cleared first, then the request is sent.  An     *)
(* authenticated tab has no refresh left to abort.                         *)
Logout(t) ==
  /\ Command(t, "logout")
  /\ status[t] = "authenticated"
  /\ \A m \in up \cup down : m.from # t
  /\ gen' = [gen EXCEPT ![t] = @ + 1]
  /\ flight' = [flight EXCEPT ![t] = NoSlot]
  /\ ClearAuthState(t)
  /\ up' = up \cup {[kind |-> "logout", from |-> t, cookie |-> jar]}
  /\ ended' = TRUE
  /\ UNCHANGED <<op, down, queue, call, retrying, notices, server, faults, refused>>

(* The settings page deletes the account: the API deletes its rows and the *)
(* cookie, completeAccountDeletion() clears this tab and tells the others. *)
DeleteAccount(t) ==
  /\ Command(t, "deleted")
  /\ status[t] = "authenticated"
  /\ rows' = [s \in Sessions |-> IF rows[s] = user[t] THEN NoUser ELSE rows[s]]
  /\ jar' = 0
  /\ CancelRefresh(t)
  /\ ClearAuthState(t)
  /\ notices' = notices \cup {v \in Tabs \ {t} : status[v] # "closed"}
  /\ ended' = TRUE
  /\ UNCHANGED <<queue, call, retrying, faults, refused>>

(* The account-deleted event reaches another tab. *)
ReceiveDeletion(t) ==
  /\ t \in notices
  /\ Command(t, "deleted")
  /\ notices' = notices \ {t}
  /\ CancelRefresh(t)
  /\ ClearAuthState(t)
  /\ UNCHANGED <<queue, call, retrying, server, faults, ended, refused>>

-----------------------------------------------------------------------------
(* requestWithReauthentication: the request, after a 401 a refresh and the *)
(* request again with the token of the moment.                             *)
Request(t) ==
  /\ call[t].pc = "idle" /\ status[t] = "authenticated"
  /\ call' = [call EXCEPT ![t].pc = "first"]
  /\ UNCHANGED <<store, gen, flight, op, queue, retrying, net, notices, server, faults,
                 cmds, last, ended, refused>>

(* An answer other than 401 ends the call. *)
Answered(t) ==
  /\ call[t].pc \in {"first", "second"}
  /\ call' = [call EXCEPT ![t] = NoCall]
  /\ UNCHANGED <<store, gen, flight, op, queue, retrying, net, notices, server, faults,
                 cmds, last, ended, refused>>

FirstRefused(t) ==
  /\ call[t].pc = "first"
  /\ \E s \in Slots : Refresh(t, s) /\ call' = [call EXCEPT ![t] = [pc |-> "wait", slot |-> s]]
  /\ UNCHANGED <<gen, retrying, net, notices, server, faults, cmds, last, ended, refused>>

(* The second 401 clears the state, whoever is authenticated by now. *)
SecondRefused(t) ==
  /\ call[t].pc = "second"
  /\ call' = [call EXCEPT ![t] = NoCall]
  /\ ClearAuthState(t)
  /\ UNCHANGED <<gen, flight, op, queue, retrying, net, notices, server, faults, cmds, last,
                 ended, refused>>

-----------------------------------------------------------------------------
(* The Web Lock is granted in order, once nobody's callback runs.          *)
HoldsLock(o) == op[o].pc \in {"fetch", "body", "done"}
Granted(o) == queue # <<>> /\ Head(queue) = o /\ \A p \in Ops : ~HoldsLock(p)

(* Mutant: a browser without Web Locks does not wait. *)
FetchWithoutLock(o) ==
  /\ op[o].pc = "lock"
  /\ queue' = SelectSeq(queue, LAMBDA p : p # o)
  /\ IF op[o].aborted
     THEN op' = [op EXCEPT ![o].pc = "done"] /\ UNCHANGED up
     ELSE /\ op' = [op EXCEPT ![o].pc = "fetch"]
          /\ up' = up \cup {[kind |-> "refresh", from |-> o, stray |-> FALSE, cookie |-> jar]}
  /\ UNCHANGED <<store, gen, flight, call, retrying, down, notices, server, faults,
                 cmds, last, ended, refused>>

(* performRefresh: a fetch with an aborted signal rejects at once.         *)
Fetch(o) ==
  /\ op[o].pc = "lock" /\ Granted(o)
  /\ queue' = Tail(queue)
  /\ IF op[o].aborted
     THEN op' = [op EXCEPT ![o].pc = "done"] /\ UNCHANGED up
     ELSE /\ op' = [op EXCEPT ![o].pc = "fetch"]
          /\ up' = up \cup {[kind |-> "refresh", from |-> o, stray |-> FALSE, cookie |-> jar]}
  /\ UNCHANGED <<store, gen, flight, call, retrying, down, notices, server, faults,
                 cmds, last, ended, refused>>

(* The first part of performRefresh after the fetch: a refresh that was    *)
(* cancelled changes nothing, 401 and 403 clear the state, any other       *)
(* failure makes the state unavailable; a 200 is read on.                  *)
Headers(o, is, u) ==
  LET t == o[1] IN
  IF op[o].aborted \/ op[o].gen # gen[t]
    THEN UNCHANGED store /\ op' = [op EXCEPT ![o].pc = "done"]
    ELSE CASE is = "refused" -> ClearAuthState(t) /\ op' = [op EXCEPT ![o].pc = "done"]
           [] is \in {"error", "lost"} -> EnterUnavailable(t) /\ op' = [op EXCEPT ![o].pc = "done"]
           [] OTHER -> UNCHANGED store /\ op' = [op EXCEPT ![o].pc = "body", ![o].body = u]

(* An answer arrives: the browser stores the cookie, also for a fetch      *)
(* nobody waits for unless it was torn down in time.                       *)
Arrive(m) ==
  /\ IF m.kind = "refresh" /\ ~m.stray
     THEN /\ Headers(m.from, m.is, m.user)
          /\ refused' = (refused \/ (m.is = "refused" /\ m.set # Unset))
     ELSE UNCHANGED <<store, op, refused>>
  /\ down' = down \ {m}
  /\ \/ jar' = IF m.set = Unset THEN jar ELSE m.set
     \/ m.kind = "refresh" /\ m.stray /\ m.set # Unset /\ UNCHANGED jar
  /\ UNCHANGED <<gen, flight, queue, call, retrying, up, notices, rows, faults, cmds, last, ended>>

(* The rest of performRefresh: res.json() settles.  When it rejects - the  *)
(* body is not JSON, or the fetch was aborted while it was read - the      *)
(* inner catch clears the state; an aborted refresh never gets further.    *)
ReadBody(o) ==
  LET t == o[1] IN
  /\ op[o].pc = "body"
  /\ IF op[o].aborted \/ op[o].body = NoUser
     THEN ClearAuthState(t) /\ op' = [op EXCEPT ![o].pc = "done"]
     ELSE /\ SetStore(t, "authenticated", op[o].body, op[o].body)
          /\ op' = [op EXCEPT ![o].pc = "done", ![o].ok = TRUE]
  /\ UNCHANGED <<gen, flight, queue, call, retrying, net, notices, server, faults, cmds, last,
                 ended, refused>>

(* Mutant: only the tracked refresh tells those who await it. *)
FinallyOfTracked(o) ==
  LET t == o[1]
      s == o[2] IN
  /\ op[o].pc = "done"
  /\ op' = [op EXCEPT ![o] = Idle]
  /\ flight' = [flight EXCEPT ![t] = IF @ = s THEN NoSlot ELSE @]
  /\ retrying' = [retrying EXCEPT ![t] = IF @ = s THEN NoSlot ELSE @]
  /\ call' = [call EXCEPT ![t] =
       IF @.pc # "wait" \/ @.slot # s \/ flight[t] # s THEN @
       ELSE IF op[o].ok /\ access[t] # NoUser THEN [pc |-> "second", slot |-> NoSlot]
       ELSE NoCall]
  /\ UNCHANGED <<store, gen, queue, net, notices, server, faults, cmds, last, ended, refused>>

(* The lock is released, finally forgets the promise if it is still the    *)
(* tracked one, and whoever awaited it goes on: the call repeats its       *)
(* request with the token the state holds by now, or fails.                *)
Finally(o) ==
  LET t == o[1]
      s == o[2] IN
  /\ op[o].pc = "done"
  /\ op' = [op EXCEPT ![o] = Idle]
  /\ flight' = [flight EXCEPT ![t] = IF @ = s THEN NoSlot ELSE @]
  /\ retrying' = [retrying EXCEPT ![t] = IF @ = s THEN NoSlot ELSE @]
  /\ call' = [call EXCEPT ![t] =
       IF @.pc # "wait" \/ @.slot # s THEN @
       ELSE IF op[o].ok /\ access[t] # NoUser THEN [pc |-> "second", slot |-> NoSlot]
       ELSE NoCall]
  /\ UNCHANGED <<store, gen, queue, net, notices, server, faults, cmds, last, ended, refused>>

-----------------------------------------------------------------------------
(* The auth routes. *)
Back(m, is, u, c) ==
  [kind |-> "refresh", from |-> m.from, stray |-> m.stray, set |-> c, is |-> is, user |-> u]

(* POST /refresh: a known cookie is rotated; without a cookie nothing is   *)
(* cleared; an unknown one is cleared with the 401.  A conflict (409) or   *)
(* an error keeps the cookie; an answer may be unreadable, or be lost on   *)
(* either side of the server.                                              *)
ServeRefresh(m) ==
  LET known == m.cookie # 0 /\ rows[m.cookie] # NoUser
      Answer(is, u, c) == down' = down \cup {Back(m, is, u, c)}
      Fault == faults < MaxFaults /\ faults' = faults + 1
      Rotate(s) == rows' = [rows EXCEPT ![m.cookie] = NoUser, ![s] = rows[m.cookie]]
  IN /\ up' = up \ {m}
     /\ \/ /\ known
           /\ \E s \in Fresh :
                /\ Rotate(s)
                /\ \/ Answer("ok", rows[m.cookie], s) /\ UNCHANGED <<faults, ended>>
                   \/ Answer("broken", NoUser, s) /\ Fault /\ UNCHANGED ended
                   \/ Answer("lost", NoUser, Unset) /\ Fault /\ ended' = TRUE
        \/ /\ ~known
           /\ Answer("refused", NoUser, IF m.cookie = 0 THEN Unset ELSE 0)
           /\ UNCHANGED <<rows, faults, ended>>
        \/ Answer("error", NoUser, Unset) /\ Fault /\ UNCHANGED <<rows, ended>>

(* POST /logout: the cookie is cleared whatever happens to the row; the    *)
(* request may not get there.                                              *)
ServeLogout(m) ==
  /\ up' = up \ {m}
  /\ UNCHANGED ended
  /\ \/ /\ rows' = IF m.cookie = 0 THEN rows ELSE [rows EXCEPT ![m.cookie] = NoUser]
        /\ down' = down \cup {[kind |-> "logout", from |-> m.from, set |-> 0]}
        /\ UNCHANGED faults
     \/ /\ faults < MaxFaults /\ faults' = faults + 1
        /\ UNCHANGED rows
        /\ \E c \in {Unset, 0} : down' = down \cup {[kind |-> "logout", from |-> m.from, set |-> c]}

Serve(m) ==
  /\ IF m.kind = "refresh" THEN ServeRefresh(m) ELSE ServeLogout(m)
  /\ UNCHANGED <<store, gen, flight, op, queue, call, retrying, notices, jar, cmds, last, refused>>

(* A password reset or change, a suspension or a cleanup job ends a session. *)
Revoke(s) ==
  /\ faults < MaxFaults /\ faults' = faults + 1
  /\ rows[s] # NoUser
  /\ rows' = [rows EXCEPT ![s] = NoUser]
  /\ ended' = TRUE
  /\ UNCHANGED <<store, gen, flight, op, queue, call, retrying, net, notices, jar,
                 cmds, last, refused>>

-----------------------------------------------------------------------------
MessagesOf(o, ms) == {m \in ms : m.kind = "refresh" /\ m.from = o}

ServeOf(o) == \E m \in MessagesOf(o, up) : Serve(m)
ArriveOf(o) == \E m \in MessagesOf(o, down) : Arrive(m)
LogoutStep == \/ \E m \in up : m.kind = "logout" /\ Serve(m)
              \/ \E m \in down : m.kind = "logout" /\ Arrive(m)
RefreshStep(o) == Fetch(o) \/ ServeOf(o) \/ ArriveOf(o) \/ ReadBody(o) \/ Finally(o)
RequestStep(t) == Answered(t) \/ FirstRefused(t) \/ SecondRefused(t)

Next ==
  \/ \E t \in Tabs : Open(t) \/ Retry(t) \/ Logout(t) \/ DeleteAccount(t)
                     \/ ReceiveDeletion(t) \/ Request(t) \/ RequestStep(t)
  \/ \E t \in Tabs, u \in Users : Login(t, u)
  \/ \E o \in Ops : RefreshStep(o)
  \/ \E s \in Sessions : Revoke(s)
  \/ LogoutStep

(* Every fetch settles: the browser gives a connection up in the end. *)
Fairness ==
  /\ \A o \in Ops : WF_vars(RefreshStep(o))
  /\ \A t \in Tabs : WF_vars(RequestStep(t))

Spec == Init /\ [][Next]_vars
FairSpec == Spec /\ Fairness

-----------------------------------------------------------------------------
(* The tab shows an account exactly when it holds that account's token. *)
TypeOK ==
  /\ status \in [Tabs -> {"closed", "initializing", "authenticated", "anonymous", "unavailable"}]
  /\ user \in [Tabs -> Users \cup {NoUser}]
  /\ \A t \in Tabs : access[t] = IF status[t] = "authenticated" THEN user[t] ELSE NoUser
  /\ \A t \in Tabs : status[t] = "authenticated" => user[t] \in Users
  /\ flight \in [Tabs -> Slots \cup {NoSlot}]
  /\ \A t \in Tabs : flight[t] # NoSlot => op[<<t, flight[t]>>].pc # "idle"
  /\ up \subseteq Upward /\ down \subseteq Downward
  /\ jar \in 0..MaxSession /\ rows \in [Sessions -> Users \cup {NoUser}]

(* With Web Locks the tabs of a browser never log each other out: as long  *)
(* as no session was ended and no renewing answer lost, no refresh that    *)
(* sent a cookie is refused, however the tabs' refreshes interleave.       *)
LocksKeepSession == refused => ended

(* A refresh that began before the tab's last login, logout, deletion or   *)
(* page load never signs the tab in.                                       *)
CancelledNeverSignsIn ==
  [][\A o \in Ops : (~op[o].ok /\ op'[o].ok) => op[o].born = cmds[o[1]]]_vars

(* A login stands until the tab's next command or a refresh that began     *)
(* after it: "delayed completion of an old refresh() does not overwrite    *)
(* the latest authentication state".                                       *)
LoginStands ==
  [][\A o \in Ops : (op[o].pc # "done" /\ op'[o].pc = "done" /\ op[o].born < cmds[o[1]]
                     /\ status[o[1]] = "authenticated")
                    => status'[o[1]] = "authenticated"]_vars

(* After logout() "the client is always logged out": the tab is not      *)
(* authenticated again before somebody logs in or the page is loaded.      *)
LogoutStands == \A t \in Tabs : last[t] = "logout" => status[t] # "authenticated"

(* Every request a page makes through the store is answered. *)
EveryCallAnswered == \A t \in Tabs : call[t].pc # "idle" ~> call[t].pc = "idle"

=============================================================================
