------------------------------ MODULE AdminPage ------------------------------
(***************************************************************************)
(* The administrators' page, routes/(app)/admin/+page.svelte: the list of  *)
(* users with its filters and pages, the statistics, the dialog with a     *)
(* user's details, and the confirmed changes with the reload after them.   *)
(*                                                                         *)
(* The page is one record, and each function of the source that assigns    *)
(* to its state is an operator from records to records. Its calls go       *)
(* through requestWithReauthentication of the auth store, seen here as     *)
(* whether the user is signed in. Continuations and the effect run as      *)
(* microtasks: no event comes between them, and the effect, which the end  *)
(* of a call schedules, runs before the code that awaits the call.         *)
(***************************************************************************)
EXTENDS Integers, FiniteSets

CONSTANTS
  Users, Filters, None,
  MaxCommands  \* bound on what the administrator does

VARIABLES
  auth,   \* signedIn, refreshing, signedOut, or gone when the layout takes the page away
  dirty,  \* the effect must run because auth or the location changed
  page,   \* the state of the page
  left    \* commands that remain

vars == <<auth, dirty, page, left>>

Locations == [filter : Filters, cursor : BOOLEAN]
Reads == {"list", "stats", "detail"}
Kinds == Reads \cup {"mutation"}
Tails == {"plain", "sync", "submit"}  \* what awaits a call: nothing more, a sync, a sync of a mutation

CallType ==
  [mode : {"initial", "list", "page", "sync", "read", "change", "delete"}, location : Locations \cup {None},
   user : Users \cup {None}, restore : BOOLEAN, tail : Tails, aborted : BOOLEAN,
   phase : {"sent", "reauth", "second", "settled"},
   result : {"ok", "401", "403", "error", None}]

AdminPageAssumption == None \notin CallType /\ MaxCommands \in Nat

(* A call in which no generation is current any more only counts. *)
Count(p) ==
  Cardinality({k \in Kinds : p.call[k] # None /\ p.call[k].phase # "settled"})
  + p.stale["plain"] + p.stale["sync"] + p.stale["submit"]

(* requestWithReauthentication refuses a call at once unless signed in. *)
NewCall(mode, location, user, restore, tail) ==
  [mode |-> mode, location |-> location, user |-> user, restore |-> restore, tail |-> tail,
   aborted |-> FALSE, phase |-> IF auth = "signedIn" THEN "sent" ELSE "settled",
   result |-> IF auth = "signedIn" THEN None ELSE "401"]

(* A new generation: the answer to the call before it will be ignored. *)
Supersede(p, k) ==
  IF p.call[k] = None THEN p
  ELSE [p EXCEPT !.call[k] = None, !.stale[p.call[k].tail] = @ + 1]

(* Mutant: the reads go on. *)
AbortNothing(p, kinds) == p

Abort(p, kinds) ==
  [p EXCEPT !.call = [k \in Kinds |->
     IF k \in kinds /\ p.call[k] # None THEN [p.call[k] EXCEPT !.aborted = TRUE] ELSE p.call[k]]]

----------------------------------------------------------------------------
(* The functions that reset parts of the page.                              *)

CloseDetail(p) ==
  [Supersede(p, "detail") EXCEPT !.mode = "closed", !.user = None, !.detail = None,
     !.errors = @ \ {"detail"}, !.busy = @ \ {"detail"}]

ResetConfirmation(p) ==
  [p EXCEPT !.mode = "closed", !.action = None, !.restore = FALSE, !.errors = @ \ {"mutation"}]

ResetDialog(p) ==
  [ResetConfirmation(CloseDetail(p)) EXCEPT !.focus = FALSE, !.synced = None]

(* enterAnonymousState, enterForbiddenState. *)
Leave(p, access) ==
  ResetDialog([Abort(p, Reads) EXCEPT !.access = access, !.shown = None, !.stats = FALSE])

IsRefusal(result) == result \in {"401", "403"}

(* handleAuthorizationError. *)
Refused(p, result) == Leave(p, IF result = "403" THEN "forbidden" ELSE "anonymous")

----------------------------------------------------------------------------
(* The functions that start a call.                                         *)

StartStats(p) ==
  LET q == Supersede(p, "stats")
  IN [q EXCEPT !.call["stats"] = NewCall("read", None, None, FALSE, "plain"),
               !.busy = @ \cup {"stats"}, !.errors = @ \ {"stats"}]

StartDetail(p, u, tail) ==
  LET q == Supersede(p, "detail")
  IN [q EXCEPT !.call["detail"] = NewCall("read", None, u, FALSE, tail),
               !.user = u, !.detail = None, !.busy = @ \cup {"detail"},
               !.errors = @ \ {"detail"}]

(* authorizeAndLoadUsers up to its await. *)
StartList(p, location, mode, user, restore, tail) ==
  LET q == Abort(Supersede(p, "list"), {"detail"} \cup IF mode = "initial" THEN {"stats"} ELSE {})
      r == [q EXCEPT !.call["list"] = NewCall(mode, location, user, restore, tail),
                     !.active = location]
  IN CASE mode = "initial" ->
            [r EXCEPT !.access = "authorizing", !.busy = @ \cup {"list"}, !.errors = @ \ {"list"}]
       [] mode = "list" ->
            [r EXCEPT !.busy = (@ \cup {"list"}) \ {"page"}, !.errors = @ \ {"list", "page"}]
       [] mode = "page" -> [r EXCEPT !.busy = @ \cup {"page"}, !.errors = @ \ {"page"}]
       [] mode = "sync" -> [r EXCEPT !.busy = @ \cup {"sync"}, !.errors = @ \ {"sync"}]

----------------------------------------------------------------------------
(* The continuations: what follows the await of a call that has settled.    *)

Flag(mode) == IF mode \in {"initial", "list"} THEN "list" ELSE mode

Submitted(p, tail) == IF tail = "submit" THEN [p EXCEPT !.busy = @ \ {"mutation"}] ELSE p

(* The rest of loadStats and loadDetail. *)
EndStats(p, c) ==
  LET q == [p EXCEPT !.call["stats"] = None, !.busy = @ \ {"stats"}]
  IN IF c.aborted THEN q
     ELSE CASE c.result = "ok" -> [q EXCEPT !.stats = TRUE]
            [] IsRefusal(c.result) -> Refused(q, c.result)
            [] OTHER -> [q EXCEPT !.errors = @ \cup {"stats"}]

EndDetail(p, c) ==
  LET q == [p EXCEPT !.call["detail"] = None, !.busy = @ \ {"detail"}]
  IN Submitted(IF c.aborted THEN q
               ELSE CASE c.result = "ok" -> [q EXCEPT !.detail = c.user]
                      [] IsRefusal(c.result) -> Refused(q, c.result)
                      [] OTHER -> [q EXCEPT !.errors = @ \cup {"detail"}], c.tail)

(* Mutant: a failed load leaves no error behind. *)
FailedSilently(p, mode) == p

(* Where the failure of a load shows. *)
Failed(p, mode) ==
  [p EXCEPT !.errors = @ \cup {Flag(mode)}, !.access = IF mode = "initial" THEN "error" ELSE @]

(* The rest of authorizeAndLoadUsers. Of an answer the page keeps whether   *)
(* the list is empty.                                                       *)
Loaded(p, c, empty) ==
  LET q == [p EXCEPT !.call["list"] = None, !.busy = @ \ {Flag(c.mode)}]
  IN IF c.aborted THEN q
     ELSE CASE c.result = "ok" ->
                 LET r == [q EXCEPT !.shown = c.location, !.empty = empty, !.access = "authorized"]
                 IN IF c.mode \in {"initial", "sync"} THEN StartStats(r) ELSE r
            [] IsRefusal(c.result) -> Refused(q, c.result)
            [] OTHER -> Failed(q, c.mode)

(* The rest of synchronizeAfterMutation, given whether the list was loaded: *)
(* a cursor page that has become empty gives way to the first one, a deleted*)
(* user's dialog closes, a change made from the details shows them again.   *)
Synchronized(p, c, loaded) ==
  LET first == p.active.cursor /\ p.empty
      closed == [ResetConfirmation(p) EXCEPT !.synced = None]
  IN CASE ~loaded -> Submitted(ResetConfirmation(p), c.tail)
       [] loaded /\ first ->
            Submitted([closed EXCEPT !.focus = FALSE,
                                     !.location = [p.active EXCEPT !.cursor = FALSE]], c.tail)
       [] loaded /\ ~first /\ p.focus ->
            Submitted([closed EXCEPT !.focus = FALSE, !.user = None], c.tail)
       [] loaded /\ ~first /\ ~p.focus /\ (~c.restore \/ c.user = None) ->
            Submitted([closed EXCEPT !.user = None], c.tail)
       [] OTHER -> StartDetail([closed EXCEPT !.mode = "detail"], c.user, c.tail)

EndList(p, c, empty) ==
  LET q == Loaded(p, c, empty)
  IN IF c.tail = "plain" THEN q ELSE Synchronized(q, c, ~c.aborted /\ c.result = "ok")

(* The rest of submitMutation. *)
EndMutation(p, c) ==
  LET q == [p EXCEPT !.call["mutation"] = None]
  IN CASE c.result = "ok" ->
            StartList([q EXCEPT !.synced = IF c.mode = "delete" THEN "delete" ELSE "other",
                                !.focus = (c.mode = "delete")],
                      q.active, "sync", c.user, c.restore, "submit")
       [] IsRefusal(c.result) -> Submitted(Refused(q, c.result), "submit")
       [] OTHER -> Submitted([q EXCEPT !.errors = @ \cup {"mutation"}], "submit")

----------------------------------------------------------------------------
(* Microtasks.                                                              *)

EffectDue ==
  auth # "gone"
  /\ (dirty \/ (auth = "signedIn" /\ Count(page) = 0 /\ page.location # page.key))

LoadMode(p) ==
  IF p.access # "authorized" THEN "initial" ELSE IF p.location.cursor THEN "page" ELSE "list"

Effect ==
  /\ EffectDue
  /\ page' = CASE auth = "refreshing" -> [page EXCEPT !.access = "checking"]
               [] auth = "signedOut" -> Leave(page, "anonymous")
               [] auth = "signedIn" /\ Count(page) = 0 /\ page.location # page.key ->
                    StartList([page EXCEPT !.key = page.location], page.location,
                              LoadMode(page), None, FALSE, "plain")
               [] OTHER -> page
  /\ dirty' = FALSE
  /\ UNCHANGED <<auth, left>>

Settled(k) == page.call[k] # None /\ page.call[k].phase = "settled"

Continue(k) ==
  /\ Settled(k) /\ ~EffectDue /\ auth # "gone"
  /\ CASE k = "stats" -> page' = EndStats(page, page.call[k])
       [] k = "detail" -> page' = EndDetail(page, page.call[k])
       [] k = "mutation" -> page' = EndMutation(page, page.call[k])
       [] k = "list" -> \E empty \in BOOLEAN :
            page' = EndList(page, page.call[k], empty /\ page.call[k].location.cursor)
  /\ dirty' = (page'.location # page.location)
  /\ UNCHANGED <<auth, left>>

Quiet == ~EffectDue /\ auth # "gone" /\ \A k \in Kinds : ~Settled(k)

----------------------------------------------------------------------------
(* Answers.                                                                 *)

SetPhase(k, phase, result) ==
  page' = [page EXCEPT !.call[k].phase = phase, !.call[k].result = result]

Settle(k, result) == SetPhase(k, "settled", result)

(* An answer to the first request. A refused token starts a refresh, or     *)
(* joins the one that is running.                                           *)
Answer(k) ==
  /\ Quiet /\ page.call[k] # None /\ page.call[k].phase = "sent"
  /\ \/ /\ \E result \in {"ok", "403", "error"} : Settle(k, result)
        /\ UNCHANGED <<auth, dirty>>
     \/ /\ ~page.call[k].aborted
        /\ SetPhase(k, "reauth", None)
        /\ auth' = "refreshing" /\ dirty' = (auth # "refreshing")
  /\ UNCHANGED left

AnswerSecond(k) ==
  /\ Quiet /\ page.call[k] # None /\ page.call[k].phase = "second"
  /\ \E result \in {"ok", "401", "403", "error"} :
       /\ Settle(k, result)
       /\ auth' = IF result = "401" THEN "signedOut" ELSE auth
  /\ dirty' = (auth' # auth)
  /\ UNCHANGED left

Refreshed(phase, result) ==
  page' = [page EXCEPT !.call = [k \in Kinds |->
    IF page.call[k] # None /\ page.call[k].phase = "reauth"
    THEN [page.call[k] EXCEPT !.phase = phase, !.result = result] ELSE page.call[k]]]

(* The refresh succeeds, fails, or finds no server: then the layout shows   *)
(* its own retry and the page is gone.                                      *)
RefreshEnds ==
  /\ Quiet /\ auth = "refreshing"
  /\ \/ auth' = "signedIn" /\ Refreshed("second", None)
     \/ auth' = "signedOut" /\ Refreshed("settled", "401")
     \/ auth' = "gone" /\ UNCHANGED page
  /\ dirty' = TRUE
  /\ UNCHANGED left

(* A superseded call comes to its end; a sync that awaited it closes the    *)
(* confirmation.                                                            *)
StaleEnds(tail) ==
  /\ Quiet /\ page.stale[tail] > 0
  /\ LET q == [page EXCEPT !.stale[tail] = @ - 1]
     IN page' = IF tail = "plain" THEN q ELSE Submitted(ResetConfirmation(q), tail)
  /\ UNCHANGED <<auth, dirty, left>>

----------------------------------------------------------------------------
(* The administrator. Behind an open dialog nothing can be pressed, and a   *)
(* list that is loading is not shown.                                       *)

Act(p) ==
  /\ Quiet /\ left > 0
  /\ left' = left - 1
  /\ page' = p
  /\ dirty' = (p.location # page.location)
  /\ UNCHANGED auth

Ready == page.access = "authorized" /\ page.mode = "closed"
Listed == Ready /\ "list" \notin page.busy /\ page.shown # None /\ ~page.empty

OrLeave(p) == IF auth = "signedIn" THEN p ELSE Leave(page, "anonymous")
OrStay(p) == IF auth = "signedIn" THEN p ELSE page

OpenDetail(u) ==
  Listed /\ Act(OrLeave(StartDetail([page EXCEPT !.mode = "detail"], u, "plain")))

CloseDialog ==
  /\ page.access = "authorized" /\ page.mode # "closed" /\ "mutation" \notin page.busy
  /\ Act(ResetDialog(page))

RetryDetail ==
  /\ page.access = "authorized" /\ page.mode = "detail" /\ "detail" \in page.errors
  /\ Act(OrStay(StartDetail(page, page.user, "plain")))

RetryStats == Ready /\ "stats" \in page.errors /\ Act(OrStay(StartStats(page)))

RetryAuthorization ==
  /\ page.access = "error"
  /\ Act(OrLeave(StartList(page, page.active, "initial", None, FALSE, "plain")))

RetryList ==
  /\ Ready /\ "list" \in page.errors
  /\ Act(OrStay(StartList(page, page.active, "list", None, FALSE, "plain")))

RetryPage ==
  /\ Ready /\ "page" \in page.errors \ page.busy /\ page.active.cursor
  /\ Act(OrStay(StartList(page, page.active, "page", None, FALSE, "plain")))

RetrySync ==
  /\ Ready /\ "sync" \in page.errors \ page.busy
  /\ Act(OrStay(StartList(page, page.active, "sync", None, FALSE, "sync")))

(* Filters, pages and the browser's history change the location; the effect *)
(* loads it.                                                                *)
Navigate(filter, cursor) == [page EXCEPT !.location = [filter |-> filter, cursor |-> cursor]]

Filter(f) ==
  Ready /\ page.busy \cap {"list", "page", "sync"} = {} /\ Act(Navigate(f, FALSE))

NextPage ==
  /\ Listed /\ "page" \notin page.busy \cup page.errors /\ ~page.active.cursor
  /\ Act([Navigate(page.active.filter, TRUE) EXCEPT !.busy = @ \cup {"page"}])

FirstPage ==
  Ready /\ "page" \in page.errors \ page.busy /\ Act(Navigate(page.active.filter, FALSE))

History(f, cursor) == Act(Navigate(f, cursor))

(* openConfirmation, from the list or from the details. *)
Confirm(u, action, fromDetail) ==
  /\ "mutation" \notin page.busy
  /\ IF fromDetail
     THEN page.access = "authorized" /\ page.mode = "detail" /\ page.detail = u
     ELSE Listed
  /\ Act([Supersede(page, "detail") EXCEPT
            !.user = u, !.action = action, !.restore = fromDetail, !.mode = "confirmation",
            !.errors = @ \ {"mutation"}])

(* submitMutation up to its await. *)
Submit ==
  /\ page.access = "authorized" /\ page.mode = "confirmation" /\ page.action # None
  /\ "mutation" \notin page.busy
  /\ Act(OrLeave([page EXCEPT
       !.call["mutation"] = NewCall(page.action, None, page.user, page.restore, "plain"),
       !.busy = @ \cup {"mutation"}, !.errors = @ \ {"mutation"},
       !.synced = None, !.focus = FALSE]))

----------------------------------------------------------------------------
Init ==
  /\ auth \in {"refreshing", "signedIn", "signedOut"} /\ dirty = TRUE /\ left = MaxCommands
  /\ \E location \in Locations :
       page = [access |-> "checking", location |-> location, key |-> None,
               active |-> [filter |-> location.filter, cursor |-> FALSE],
               shown |-> None, empty |-> FALSE, stats |-> FALSE, busy |-> {}, errors |-> {},
               mode |-> "closed", user |-> None, detail |-> None, action |-> None,
               restore |-> FALSE, synced |-> None, focus |-> FALSE,
               call |-> [k \in Kinds |-> None], stale |-> [t \in Tails |-> 0]]

Command ==
  \/ CloseDialog \/ RetryDetail \/ RetryStats \/ RetryAuthorization \/ RetryList \/ RetryPage
  \/ RetrySync \/ NextPage \/ FirstPage \/ Submit
  \/ \E f \in Filters : Filter(f) \/ \E cursor \in BOOLEAN : History(f, cursor)
  \/ \E u \in Users : OpenDetail(u) \/ \E action \in {"change", "delete"}, d \in BOOLEAN :
                                         Confirm(u, action, d)

Next ==
  \/ Effect \/ RefreshEnds \/ Command
  \/ \E k \in Kinds : Continue(k) \/ Answer(k) \/ AnswerSecond(k)
  \/ \E tail \in Tails : StaleEnds(tail)

Spec == Init /\ [][Next]_vars

----------------------------------------------------------------------------
PageType ==
  [access : {"checking", "authorizing", "authorized", "anonymous", "forbidden", "error"},
   location : Locations, key : Locations \cup {None}, active : Locations,
   shown : Locations \cup {None}, empty : BOOLEAN, stats : BOOLEAN,
   busy : SUBSET {"list", "page", "sync", "stats", "detail", "mutation"},
   errors : SUBSET {"list", "page", "sync", "stats", "detail", "mutation"},
   mode : {"closed", "detail", "confirmation"}, user : Users \cup {None},
   detail : Users \cup {None}, action : {"change", "delete", None}, restore : BOOLEAN,
   synced : {"delete", "other", None}, focus : BOOLEAN,
   call : [Kinds -> CallType \cup {None}], stale : [Tails -> Nat]]

TypeOK ==
  /\ auth \in {"signedIn", "refreshing", "signedOut", "gone"} /\ dirty \in BOOLEAN
  /\ left \in 0 .. MaxCommands
  /\ page \in PageType

(* Whatever the order of answers, the list under the filters is the one     *)
(* they ask for unless the page says that it is loading or that loading     *)
(* failed; the details are those of the selected user.                      *)
ShowsWhatWasAsked ==
  /\ Quiet /\ page.access = "authorized" /\ page.call["list"] = None
       /\ page.errors \cap {"list", "page", "sync"} = {} => page.shown = page.active
  /\ page.mode = "detail" => page.detail \in {None, page.user}

(* Without the right to see them nothing of the users is kept, and no late  *)
(* answer brings it back.                                                   *)
RefusedShowsNothing ==
  page.access \in {"anonymous", "forbidden"}
    => page.shown = None /\ ~page.stats /\ page.mode = "closed"

(* When the reload after a completed change fails the page says so and      *)
(* offers to read again.                                                    *)
SyncFailureShown ==
  Quiet /\ auth = "signedIn" /\ "sync" \in page.errors /\ Count(page) = 0
    => page.access # "checking"
=============================================================================
