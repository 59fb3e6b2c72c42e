------------------------------ MODULE PagedLoad ------------------------------
(***************************************************************************)
(* The pages that number their calls and take the answer of the last one:  *)
(* the history of games of routes/(app)/mypage, which appends pages, and   *)
(* the search of routes/(app)/elements; with getGameSessionHistory of      *)
(* game.service.ts, which pages by the last session shown while other      *)
(* games are being saved.                                                  *)
(***************************************************************************)
EXTENDS Integers, Sequences, FiniteSets

CONSTANTS
  Pages,     \* subset of {"history", "elements"}
  Modes,     \* modes of games; filters of the search
  None,      \* no mode: all games; no value
  Limit,     \* sessions of a page of the history
  MaxPlayed, \* bound on the games played, numbered in the order of playedAt
  MaxToken,  \* bound on the access tokens of the user
  MaxCalls,  \* bound on the calls of the page
  MaxSteps   \* bound on what the user does

VARIABLES
  page,    \* which page this is
  session, \* Initializing, Anonymous or the token of the auth store
  query,   \* mode or filter of the URL
  seen,    \* what the effect last ran with
  state,   \* state of the page
  calls,   \* calls that have not ended
  saved,   \* the user's saved games and their modes
  issued,  \* number of calls made: requestSequence
  left     \* steps the user has left

vars == <<page, session, query, seen, state, calls, saved, issued, left>>

Initializing == -1
Anonymous == 0
Tokens == 1 .. MaxToken
Games == 1 .. MaxPlayed
Key == <<query, session>>

PagedLoadAssumption ==
  /\ Limit \in Nat \ {0} /\ MaxPlayed \in Nat /\ MaxToken \in Nat \ {0}
  /\ MaxCalls \in Nat /\ MaxSteps \in Nat
  /\ None \notin Int \cup Modes
  /\ None \notin (Modes \cup {None}) \X (Tokens \cup {Initializing, Anonymous})

----------------------------------------------------------------------------
(* getGameSessionHistory.                                                   *)

OfMode(mode) == {g \in Games : saved[g] # None /\ mode \in {None, saved[g]}}

(* The i-th of a set of games, newest first. *)
Newest(games, i) == CHOOSE g \in games : Cardinality({h \in games : h > g}) = i - 1

(* The first n of a set of games. *)
Page(games, n) ==
  [i \in 1 .. (IF Cardinality(games) < n THEN Cardinality(games) ELSE n) |-> Newest(games, i)]

(* Mutant: the page after a session begins with that session. *)
HistoryFrom(mode, cursor) ==
  LET rows == Page({g \in OfMode(mode) : cursor = None \/ g <= cursor}, Limit + 1)
  IN [ok |-> TRUE, list |-> SubSeq(rows, 1, IF Len(rows) > Limit THEN Limit ELSE Len(rows)),
      next |-> IF Len(rows) > Limit THEN rows[Limit] ELSE None, known |-> OfMode(mode)]

(* One row more than a page tells whether there is a next one. What was     *)
(* saved at that time is kept for the properties.                           *)
History(mode, cursor) ==
  LET rows == Page({g \in OfMode(mode) : cursor = None \/ g < cursor}, Limit + 1)
  IN [ok |-> TRUE, list |-> SubSeq(rows, 1, IF Len(rows) > Limit THEN Limit ELSE Len(rows)),
      next |-> IF Len(rows) > Limit THEN rows[Limit] ELSE None, known |-> OfMode(mode)]

Failure == [ok |-> FALSE, list |-> <<>>, next |-> None, known |-> {}]

----------------------------------------------------------------------------
(* The pages.                                                               *)

NewState ==
  [list |-> <<>>, for |-> None, cursor |-> None, known |-> {}, initial |-> TRUE, busy |-> FALSE,
   error |-> FALSE, controller |-> 0, key |-> None, applied |-> None]

Abort(cs, id) == {IF c.id = id THEN [c EXCEPT !.aborted = TRUE] ELSE c : c \in cs}

(* loadHistory and loadElements up to their await. busy is isLoadingMore of *)
(* the one and isSearching of the other.                                    *)
Load(s, for, append) ==
  /\ issued < MaxCalls /\ issued' = issued + 1
  /\ calls' = Abort(calls, s.controller)
                \cup {[id |-> issued', for |-> for, append |-> append,
                       cursor |-> IF append THEN s.cursor ELSE None,
                       aborted |-> FALSE, answer |-> None]}
  /\ state' = CASE append ->
                     [s EXCEPT !.controller = issued', !.error = FALSE, !.busy = TRUE]
                [] page = "history" /\ ~append ->
                     [s EXCEPT !.controller = issued', !.error = FALSE, !.initial = TRUE,
                               !.list = <<>>, !.cursor = None, !.known = {}]
                [] page = "elements" /\ ~append ->
                     [s EXCEPT !.controller = issued', !.error = FALSE, !.busy = ~s.initial]

(* resetHistoryState, and isInitialLoading. *)
Reset ==
  /\ calls' = Abort(calls, state.controller)
  /\ state' = [NewState EXCEPT !.initial = FALSE, !.busy = FALSE, !.applied = state.applied]
  /\ UNCHANGED issued

EffectDue == seen # Key
Settling == \E c \in calls : c.aborted
Quiet == ~EffectDue /\ ~Settling

Effect ==
  /\ EffectDue
  /\ seen' = Key
  /\ CASE session = Initializing -> UNCHANGED <<state, calls, issued>>
       [] session = Anonymous /\ page = "history" -> Reset
       [] OTHER -> IF state.key = Key THEN UNCHANGED <<state, calls, issued>>
                   ELSE Load([state EXCEPT !.key = Key, !.applied = query], Key, FALSE)
  /\ UNCHANGED <<page, session, query, saved, left>>

(* Mutant: an answer is taken whatever was asked after it. *)
SettleAny(c) ==
  LET read == IF c.aborted THEN state
              ELSE IF ~c.answer.ok
              THEN [state EXCEPT !.error = TRUE]
              ELSE [state EXCEPT !.list = IF c.append THEN @ \o c.answer.list ELSE c.answer.list,
                                 !.for = c.for, !.cursor = c.answer.next,
                                 !.known = IF c.append THEN @ ELSE c.answer.known]
  IN /\ state' = [read EXCEPT !.initial = FALSE, !.busy = FALSE]
     /\ calls' = calls \ {c}
     /\ UNCHANGED <<page, session, query, seen, saved, issued, left>>

(* The rest of a load. An aborted call fails; only the last call counts,    *)
(* whether it was aborted or not.                                           *)
Settle(c) ==
  LET read == IF c.aborted THEN state
              ELSE IF ~c.answer.ok
              THEN [state EXCEPT !.error = TRUE, !.list = IF page = "elements" THEN <<>> ELSE @]
              ELSE [state EXCEPT !.list = IF c.append THEN @ \o c.answer.list ELSE c.answer.list,
                                 !.for = c.for, !.cursor = c.answer.next,
                                 !.known = IF c.append THEN @ ELSE c.answer.known]
  IN /\ state' = IF c.id # issued THEN state
                 ELSE [read EXCEPT !.initial = FALSE, !.busy = FALSE,
                                   !.controller = IF @ = c.id THEN 0 ELSE @]
     /\ calls' = calls \ {c}
     /\ UNCHANGED <<page, session, query, seen, saved, issued, left>>

Aborted == \E c \in calls : c.aborted /\ Settle(c)
Answered == Quiet /\ \E c \in calls : c.answer # None /\ Settle(c)

Serve ==
  /\ Quiet
  /\ \E c \in calls :
       /\ c.answer = None
       /\ \E answer \in {Failure, IF page = "history" THEN History(c.for[1], c.cursor)
                                   ELSE [Failure EXCEPT !.ok = TRUE]} :
            calls' = (calls \ {c}) \cup {[c EXCEPT !.answer = answer]}
  /\ UNCHANGED <<page, session, query, seen, state, saved, issued, left>>

----------------------------------------------------------------------------
User == Quiet /\ left > 0 /\ left' = left - 1

(* retryHistory, and the button of an element list that failed. *)
Retry ==
  /\ User /\ state.error /\ ~state.initial
  /\ page = "history" => session \in Tokens /\ state.list = <<>>
  /\ Load(state, <<state.applied, session>>, FALSE)
  /\ UNCHANGED <<page, session, query, seen, saved>>

(* loadMore. *)
LoadMore ==
  /\ User /\ page = "history" /\ session \in Tokens
  /\ state.cursor # None /\ ~state.initial /\ ~state.busy
  /\ Load(state, <<state.applied, session>>, TRUE)
  /\ UNCHANGED <<page, session, query, seen, saved>>

(* handleModeChange, applyFilters, and the back button. *)
Navigate ==
  /\ User /\ \E q \in Modes \cup {None} : q # query /\ query' = q
  /\ UNCHANGED <<page, session, seen, state, calls, saved, issued>>

SessionChanges ==
  /\ User /\ session # Anonymous
  /\ \/ session' = Anonymous
     \/ session < MaxToken /\ session' = IF session = Initializing THEN 1 ELSE session + 1
  /\ UNCHANGED <<page, query, seen, state, calls, saved, issued>>

(* A game is saved elsewhere; one that was played earlier may be saved      *)
(* later.                                                                   *)
Play ==
  /\ Quiet /\ page = "history"
  /\ \E g \in Games, mode \in Modes : saved[g] = None /\ saved' = [saved EXCEPT ![g] = mode]
  /\ UNCHANGED <<page, session, query, seen, state, calls, issued, left>>

----------------------------------------------------------------------------
Init ==
  /\ page \in Pages /\ session \in {Initializing, Anonymous, 1}
  /\ query \in Modes \cup {None} /\ seen = None
  /\ state = NewState /\ calls = {} /\ saved = [g \in Games |-> None]
  /\ issued = 0 /\ left = MaxSteps

Next ==
  \/ Effect \/ Aborted \/ Answered \/ Serve \/ Retry \/ LoadMore \/ Navigate
  \/ SessionChanges \/ Play

Spec == Init /\ [][Next]_vars

----------------------------------------------------------------------------
Keys == (Modes \cup {None}) \X (Tokens \cup {Anonymous})

TypeOK ==
  /\ page \in Pages /\ session \in Tokens \cup {Initializing, Anonymous}
  /\ query \in Modes \cup {None} /\ saved \in [Games -> Modes \cup {None}]
  /\ state.for \in Keys \cup {None} /\ state.key \in Keys \cup {None}
  /\ state.cursor \in Games \cup {None} /\ state.known \subseteq Games
  /\ \A i \in DOMAIN state.list : state.list[i] \in Games
  /\ Cardinality({c \in calls : ~c.aborted}) <= 1
  /\ issued \in 0 .. MaxCalls /\ left \in 0 .. MaxSteps

(* A page that is neither loading nor in error shows what its URL and its   *)
(* session ask for.                                                         *)
ShowsWhatWasAsked ==
  Quiet /\ session # Initializing /\ ~state.initial /\ ~state.busy /\ ~state.error
    => state.for = Key \/ (page = "history" /\ session = Anonymous /\ state.list = <<>>)

(* The pages of a history fit together while games are being saved: newest  *)
(* first, none twice, all of the mode, and none left out that was saved     *)
(* when the first page was read.                                            *)
HistoryInOrder ==
  /\ \A i, j \in DOMAIN state.list : i < j => state.list[i] > state.list[j]
  /\ \A g \in state.known :
       /\ \E i \in DOMAIN state.list : state.list[i] <= g
       => \E i \in DOMAIN state.list : state.list[i] = g
  /\ \A i \in DOMAIN state.list : state.for[1] \in {None, saved[state.list[i]]}

(* A sign of loading stays only while the last call runs.                   *)
SignsEnd ==
  Quiet /\ session # Initializing /\ (state.initial \/ state.busy)
    => \E c \in calls : c.id = issued
=============================================================================
