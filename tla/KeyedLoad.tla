------------------------------ MODULE KeyedLoad ------------------------------
(***************************************************************************)
(* The pages that load one answer per key and drop the answers of other    *)
(* keys: the weak list (routes/(app)/weak), the statistics of mypage, the  *)
(* ranking, the weak count of the game page and the preview of the ranking *)
(* on the home page. The weak list also deletes elements and loads again.  *)
(* A call whose controller was aborted fails before the next event, as do  *)
(* the effects of the event before.                                        *)
(***************************************************************************)
EXTENDS Integers, FiniteSets

CONSTANTS
  Pages,    \* subset of {"weak", "stats", "ranking", "index", "home"}
  MaxToken, \* bound on the access tokens of one user, numbered in their order
  Queries,  \* values of the query string: sort order, mode or period
  Elements, \* elements of the weak list
  None,
  MaxCalls, \* bound on the calls of the page
  MaxSteps  \* bound on what the user does

VARIABLES
  page,      \* which page this is
  session,   \* Initializing, Anonymous or the token of the auth store
  query,     \* query string
  seen,      \* what the effect last ran with
  state,     \* state of the page
  calls,     \* loads that have not ended
  deletions, \* deletions of the weak list that have not ended
  weak,      \* the user's weak list on the server
  issued,    \* number of calls made
  left       \* steps the user has left

vars == <<page, session, query, seen, state, calls, deletions, weak, issued, left>>

Initializing == -1
Anonymous == 0
Tokens == 1 .. MaxToken
Keys == (Queries \cup {None}) \X (Tokens \cup {Anonymous})

KeyedLoadAssumption ==
  /\ MaxToken \in Nat \ {0} /\ MaxCalls \in Nat /\ MaxSteps \in Nat
  /\ None \notin Keys \cup ((Tokens \cup {Initializing, Anonymous}) \X Queries)

(* getRequestKey: the period is part of the ranking's key only. The preview *)
(* has a constant key.                                                      *)
Key ==
  CASE page = "ranking" -> <<query, session>>
    [] page = "home" -> <<None, Anonymous>>
    [] OTHER -> <<None, session>>

----------------------------------------------------------------------------
(* Mutant: the load before is not aborted. *)
AbortNothing(cs, id) == cs

(* AbortController.abort of the load before. *)
Abort(cs, id) == {IF c.id = id THEN [c EXCEPT !.aborted = TRUE] ELSE c : c \in cs}

(* The page and its calls once a load of key has begun. *)
BeginLoad(s, cs, key, force) ==
  [state |-> [s EXCEPT !.controller = issued + 1, !.active = key, !.status = "loading",
                       !.loaded = IF force THEN None ELSE @,
                       !.shown = IF page = "index" THEN None ELSE @],
   calls |-> Abort(cs, s.controller)
               \cup {[id |-> issued + 1, key |-> key, aborted |-> FALSE, answer |-> None]}]

Wanted(force) == force \/ Key \notin {state.active, state.loaded}

(* Mutant: a load that is wanted is taken for one that is running. *)
LoadUnlessBusy(force) ==
  IF state.active # None \/ ~Wanted(force)
  THEN UNCHANGED <<state, calls, issued>>
  ELSE LET next == BeginLoad(state, calls, Key, force)
       IN state' = next.state /\ calls' = next.calls /\ issued' = issued + 1

(* The loading function of a page up to its await. *)
Load(force) ==
  IF ~Wanted(force)
  THEN UNCHANGED <<state, calls, issued>>
  ELSE LET next == BeginLoad(state, calls, Key, force)
       IN /\ issued < MaxCalls /\ issued' = issued + 1
          /\ state' = next.state /\ calls' = next.calls

LoadWeakElements(force) == page = "weak" /\ Load(force)
LoadWeakCount(force) == page = "index" /\ Load(force)
LoadStats(force) == page = "stats" /\ Load(force)
LoadRanking(force) == page = "ranking" /\ Load(force)
LoadRankingPreview(force) == page = "home" /\ Load(force)

(* clearWeakState, resetStatsState. *)
Cleared ==
  [controller |-> 0, active |-> None, loaded |-> None, status |-> "idle", shown |-> None,
   confirming |-> None, deleting |-> {}]

Clear ==
  /\ state' = Cleared
  /\ calls' = Abort(calls, state.controller)
  /\ UNCHANGED issued

----------------------------------------------------------------------------
(* The preview depends on nothing that changes. *)
EffectDue == IF page = "home" THEN seen = None ELSE seen # <<session, query>>
Settling == \E c \in calls : c.aborted
Quiet == ~EffectDue /\ ~Settling

(* The effect of each page; but for the preview, it does nothing while the  *)
(* session is unknown.                                                      *)
Runs ==
  /\ EffectDue /\ seen' = <<session, query>>
  /\ UNCHANGED <<page, session, query, deletions, weak, left>>

Skip == session = Initializing /\ page # "home" /\ UNCHANGED <<state, calls, issued>>
ClearWeak == session = Anonymous /\ page = "weak" /\ Clear
ClearWeakCount == session = Anonymous /\ page = "index" /\ Clear
ResetStats == session = Anonymous /\ page = "stats" /\ Clear

Effect ==
  /\ Runs
  /\ \/ Skip \/ ClearWeak \/ ClearWeakCount \/ ResetStats
     \/ session # Initializing /\ LoadRanking(FALSE)
     \/ session \in Tokens /\ (LoadWeakElements(FALSE) \/ LoadWeakCount(FALSE) \/ LoadStats(FALSE))
     \/ LoadRankingPreview(FALSE)

(* The end of a load: its answer counts only if it was not aborted and its  *)
(* key is still the active one; then the finally block. Deletions that      *)
(* waited for the load end with it.                                         *)
Settle(c) ==
  LET taken == ~c.aborted /\ state.active = c.key
      read == IF ~taken THEN state
              ELSE IF ~c.answer.ok
              THEN [state EXCEPT !.status = "error", !.shown = None,
                                 !.loaded = IF page = "home" THEN c.key ELSE None]
              ELSE [state EXCEPT !.status = "success", !.loaded = c.key,
                                 !.shown = [key |-> c.key, list |-> c.answer.list]]
      ended == {d \in deletions : d.reload = c.id}
  IN /\ state' = [read EXCEPT !.active = IF @ = c.key THEN None ELSE @,
                              !.controller = IF @ = c.id THEN 0 ELSE @,
                              !.deleting = @ \ {d.element : d \in ended}]
     /\ calls' = calls \ {c}
     /\ deletions' = deletions \ ended
     /\ UNCHANGED <<page, session, query, seen, weak, issued, left>>

Aborted == \E c \in calls : c.aborted /\ Settle(c)
Answered == Quiet /\ \E c \in calls : c.answer # None /\ Settle(c)

(* The server answers a load, or the load fails. A list is the one of the   *)
(* moment it was read.                                                      *)
Serve ==
  /\ Quiet
  /\ \E c \in calls, ok \in BOOLEAN :
       /\ c.answer = None
       /\ c.key[2] = Anonymous /\ page \notin {"ranking", "home"} => ~ok
       /\ calls' = (calls \ {c})
                    \cup {[c EXCEPT !.answer = [ok |-> ok, list |-> IF ok THEN weak ELSE {}]]}
  /\ UNCHANGED <<page, session, query, seen, state, deletions, weak, issued, left>>

----------------------------------------------------------------------------
User == Quiet /\ left > 0 /\ left' = left - 1

(* The button that an error offers. *)
Retry ==
  /\ User /\ state.status = "error"
  /\ \/ session \in Tokens /\ (LoadWeakElements(TRUE) \/ LoadWeakCount(TRUE) \/ LoadStats(TRUE))
     \/ session # Initializing /\ LoadRanking(TRUE)
     \/ LoadRankingPreview(TRUE)
  /\ UNCHANGED <<page, session, query, seen, deletions, weak>>

(* Another sort order, mode or period. *)
Navigate ==
  /\ User /\ \E q \in Queries \ {query} : query' = q
  /\ page = "weak" => state.status = "success"
  /\ page \notin {"index", "home"}
  /\ UNCHANGED <<page, session, seen, state, calls, deletions, weak, issued>>

(* The store: the refresh at the start, a rotation, a logout elsewhere. A   *)
(* login takes the user to another page.                                    *)
SessionChanges ==
  /\ User /\ session # Anonymous
  /\ \/ session' = Anonymous
     \/ session < MaxToken /\ session' = IF session = Initializing THEN 1 ELSE session + 1
  /\ UNCHANGED <<page, query, seen, state, calls, deletions, weak, issued>>

----------------------------------------------------------------------------
(* Deletions of the weak list.                                              *)

Listed == page = "weak" /\ session \in Tokens /\ state.status = "success"

RequestDelete ==
  /\ User /\ Listed
  /\ \E e \in state.shown.list \ state.deleting : state' = [state EXCEPT !.confirming = e]
  /\ UNCHANGED <<page, session, query, seen, calls, deletions, weak, issued>>

(* confirmDelete up to its await. *)
ConfirmDelete ==
  /\ User /\ Listed
  /\ state.confirming \in state.shown.list \ state.deleting
  /\ state' = [state EXCEPT !.deleting = @ \cup {state.confirming}]
  /\ deletions' = deletions \cup {[element |-> state.confirming, gone |-> FALSE, reload |-> 0]}
  /\ UNCHANGED <<page, session, query, seen, calls, weak, issued>>

(* deleteWeakElement of weak.service.ts; an element that is not in the list *)
(* is answered by an error.                                                 *)
ServeDelete ==
  /\ Quiet
  /\ \E d \in deletions :
       /\ ~d.gone /\ d.element \in weak
       /\ weak' = weak \ {d.element}
       /\ deletions' = (deletions \ {d}) \cup {[d EXCEPT !.gone = TRUE]}
  /\ UNCHANGED <<page, session, query, seen, state, calls, issued, left>>

(* A deletion that was answered loads the list again, with the token of the *)
(* moment; the row stays marked until that load ends.                       *)
Deleted ==
  /\ Quiet /\ issued < MaxCalls
  /\ \E d \in deletions :
       /\ d.gone /\ d.reload = 0
       /\ LET next == BeginLoad([state EXCEPT !.confirming = None], calls, Key, TRUE)
          IN state' = next.state /\ calls' = next.calls
       /\ deletions' = (deletions \ {d}) \cup {[d EXCEPT !.reload = issued + 1]}
  /\ issued' = issued + 1
  /\ UNCHANGED <<page, session, query, seen, weak, left>>

DeleteFails ==
  /\ Quiet
  /\ \E d \in deletions :
       /\ d.reload = 0
       /\ deletions' = deletions \ {d}
       /\ state' = [state EXCEPT !.deleting = @ \ {d.element}]
  /\ UNCHANGED <<page, session, query, seen, calls, weak, issued, left>>

----------------------------------------------------------------------------
Init ==
  /\ page \in Pages /\ session \in {Initializing, Anonymous, 1}
  /\ query \in Queries /\ seen = None
  /\ state = [Cleared EXCEPT !.status = IF page = "home" THEN "loading" ELSE "idle"] /\ calls = {} /\ deletions = {}
  /\ weak = Elements /\ issued = 0 /\ left = MaxSteps

Next ==
  \/ Effect \/ Aborted \/ Answered \/ Serve \/ Retry \/ Navigate \/ SessionChanges
  \/ RequestDelete \/ ConfirmDelete \/ ServeDelete \/ Deleted \/ DeleteFails

Spec == Init /\ [][Next]_vars

----------------------------------------------------------------------------
TypeOK ==
  /\ page \in Pages /\ session \in Tokens \cup {Initializing, Anonymous} /\ query \in Queries
  /\ state.active \in Keys \cup {None} /\ state.loaded \in Keys \cup {None}
  /\ state.status \in {"idle", "loading", "success", "error"}
  /\ state.shown = None \/ (state.shown.key \in Keys /\ state.shown.list \subseteq Elements)
  /\ state.confirming \in Elements \cup {None} /\ state.deleting \subseteq Elements
  /\ Cardinality({c \in calls : ~c.aborted}) <= 1
  /\ issued \in 0 .. MaxCalls /\ left \in 0 .. MaxSteps

(* What a page shows as loaded belongs to the session of the moment, and a  *)
(* weak list never shows an element that the page has been told is deleted. *)
ShowsWhatWasAsked ==
  Quiet /\ state.status = "success" =>
    /\ page # "home" => state.shown.key[2] = session
    /\ \A d \in deletions : d.reload # 0 => d.element \notin state.shown.list

(* Only the latest period's ranking is shown, however fast it is switched   *)
(* (docs/plans/ranking-page/plan.md).                                       *)
LatestPeriodShown ==
  Quiet /\ page = "ranking" /\ state.status = "success" => state.shown.key[1] = query

(* A sign of loading stays only while a load runs whose answer will be      *)
(* taken. The weak list is left out: two deletions at once break it.        *)
SignsEnd ==
  Quiet /\ page # "weak" /\ state.status = "loading" =>
    \E c \in calls : c.id = state.controller /\ c.key = state.active
=============================================================================
