------------------------------ MODULE GamePages ------------------------------
(***************************************************************************)
(* Playing a game in the browser: routes/(app)/game/play/+page.svelte with *)
(* its timers, the submission of the answers, and the page of the result,  *)
(* routes/(app)/game/result/+page.svelte, with the store that carries a    *)
(* result from the one to the other. A user's token changes only when the  *)
(* user does. Effects run before the next event.                           *)
(***************************************************************************)
EXTENDS Integers, Sequences, FiniteSets

CONSTANTS
  Users, Modes, None,
  Questions,   \* questions of a game
  MaxSets,     \* bound on the question sets the server issues
  MaxCommands  \* bound on what the user does besides answering

VARIABLES
  who,     \* the user of the auth store, Anonymous, or Initializing
  at,      \* the page shown, with its mode or its session
  game,    \* the state of the play page
  restore, \* the state of the result page
  store,   \* gameSessionResultStore: a session and a user, or None
  issued,  \* number of question sets issued; a set is known by its number
  wire,    \* submissions on their way to the server
  saved,   \* the submission each saved session came from
  left     \* commands that remain

vars == <<who, at, game, restore, store, issued, wire, saved, left>>

Anonymous == "anonymous"
Initializing == "initializing"
Sets == 1 .. MaxSets
Answers == Seq(Sets \X (1 .. Questions))
Submissions == [set : Sets, answers : Answers, user : Users, try : 0 .. MaxCommands]

GamePagesAssumption ==
  /\ Questions \in Nat \ {0} /\ MaxSets \in Nat /\ MaxCommands \in Nat
  /\ {None, Anonymous, Initializing} \cap Users = {} /\ Anonymous # Initializing
  /\ None \notin Sets \cup Modes \cup Submissions

----------------------------------------------------------------------------
(* The play page.                                                           *)

(* Mutant: the timer of the feedback goes on. *)
ResetGameOnly(g) ==
  [g EXCEPT !.index = 1, !.phase = "answering", !.answers = <<>>, !.submit = "idle",
            !.sending = None]

(* resetGame. *)
ResetGame(g) ==
  [g EXCEPT !.index = 1, !.phase = "answering", !.answers = <<>>, !.submit = "idle",
            !.sending = None, !.feedback = FALSE]

(* abortQuestionLoad and resetQuestionState. *)
ResetQuestions(g) ==
  [ResetGame(g) EXCEPT !.set = None, !.status = "idle", !.loading = FALSE]

(* loadQuestions up to its await: a load that was running is aborted. *)
LoadQuestions(g) ==
  [ResetGame(g) EXCEPT !.set = None, !.status = "loading", !.loading = TRUE]

(* The effect on the mode, then the one on the mode and the token. *)
PlayEffects(g, mode) ==
  LET h == IF mode = g.mode THEN g ELSE [ResetGame(g) EXCEPT !.mode = mode]
  IN CASE who = Initializing -> h
       [] who # Initializing /\ (who = Anonymous \/ mode = None) ->
            [ResetQuestions(h) EXCEPT !.key = None]
       [] OTHER -> IF h.key = <<mode, who>> THEN h
                   ELSE [LoadQuestions(h) EXCEPT !.key = <<mode, who>>]

NewGame ==
  [mode |-> None, key |-> None, status |-> "idle", loading |-> FALSE, set |-> None,
   index |-> 1, phase |-> "answering", answers |-> <<>>, feedback |-> FALSE,
   submit |-> "idle", sending |-> None, try |-> 0]

CanAnswer ==
  at.page = "play" /\ who \in Users /\ at.mode # None
  /\ game.status = "loaded" /\ game.phase = "answering" /\ game.submit # "submitting"

----------------------------------------------------------------------------
(* The result page.                                                         *)

(* Mutant: a result is taken for the session alone. *)
MatchesSession(kept, session) == kept # None /\ kept.session = session

(* matches of the store, and the same test on the restored result. *)
Matches(kept, session) ==
  kept # None /\ who \in Users /\ kept.session = session /\ kept.user = who

(* The result shown, or None. *)
Result ==
  IF at.session = None THEN None
  ELSE IF Matches(store, at.session) THEN store
  ELSE IF Matches(restore.kept, at.session) THEN restore.kept ELSE None

(* What the effect depends on. *)
Dependencies == <<at.session, who, restore.retries, Result>>

Unseen == <<>>

NewRestore ==
  [status |-> "idle", kept |-> None, retries |-> 0, calling |-> FALSE, seen |-> Unseen]

(* Each run of the effect aborts the call of the run before. *)
RestoreEffect ==
  LET call == Result = None /\ at.session # None /\ who \in Users
  IN [restore EXCEPT
        !.seen = Dependencies, !.calling = call,
        !.status = CASE Result # None -> "idle"
                     [] Result = None /\ at.session = None -> "empty"
                     [] Result = None /\ at.session # None /\ who = Anonymous -> "unauthenticated"
                     [] OTHER -> "loading"]

----------------------------------------------------------------------------
(* Effects.                                                                 *)

EffectsDue ==
  \/ at.page = "play" /\ PlayEffects(game, at.mode) # game
  \/ at.page = "result" /\ restore.seen # Dependencies

Effects ==
  /\ EffectsDue
  /\ IF at.page = "play"
     THEN game' = PlayEffects(game, at.mode) /\ UNCHANGED restore
     ELSE restore' = RestoreEffect /\ UNCHANGED game
  /\ UNCHANGED <<who, at, store, issued, wire, saved, left>>

----------------------------------------------------------------------------
(* Questions.                                                               *)

(* The answer to a load: questions of a new set, none, or a failure. *)
QuestionsArrive ==
  /\ ~EffectsDue /\ game.loading
  /\ \/ /\ issued < MaxSets
        /\ issued' = issued + 1
        /\ game' = [game EXCEPT !.loading = FALSE, !.status = "loaded", !.set = issued']
     \/ game' = [game EXCEPT !.loading = FALSE, !.status = "error"] /\ UNCHANGED issued
  /\ UNCHANGED <<who, at, restore, store, wire, saved, left>>

(* retryQuestionLoad, restartGame: the key is dropped and the questions are *)
(* loaded; the effect that watches the key then loads them again.           *)
Reload ==
  /\ ~EffectsDue /\ left > 0 /\ at.page = "play" /\ who \in Users /\ at.mode # None
  /\ game.status = "error" \/ (game.phase = "completed" /\ game.submit # "submitting")
  /\ game' = [LoadQuestions(game) EXCEPT !.key = None]
  /\ left' = left - 1
  /\ UNCHANGED <<who, at, restore, store, issued, wire, saved>>

(* submitAnswer: a click, a key, or null when the time is up. *)
SubmitAnswer ==
  /\ ~EffectsDue /\ CanAnswer
  /\ game' = [game EXCEPT !.answers = Append(@, <<game.set, game.index>>),
                          !.phase = "feedback", !.feedback = TRUE]
  /\ UNCHANGED <<who, at, restore, store, issued, wire, saved, left>>

(* submitCompletedGame up to its await. *)
SubmitCompleted(g) ==
  LET request == [set |-> g.set, answers |-> g.answers, user |-> who, try |-> g.try]
  IN IF who \notin Users \/ g.mode = None \/ g.set = None \/ Len(g.answers) # Questions
     THEN game' = [g EXCEPT !.submit = "error"] /\ UNCHANGED wire
     ELSE /\ game' = [g EXCEPT !.submit = "submitting", !.sending = request, !.try = @ + 1]
          /\ wire' = wire \cup {request}

(* The callback of scheduleNextStep. *)
NextStep ==
  /\ ~EffectsDue /\ game.feedback
  /\ LET g == [game EXCEPT !.feedback = FALSE]
     IN IF g.index < Questions
        THEN game' = [g EXCEPT !.index = @ + 1, !.phase = "answering"] /\ UNCHANGED wire
        ELSE SubmitCompleted([g EXCEPT !.phase = "completed"])
  /\ UNCHANGED <<who, at, restore, store, issued, saved, left>>

Resubmit ==
  /\ ~EffectsDue /\ left > 0
  /\ at.page = "play" /\ game.phase = "completed" /\ game.submit # "submitting"
  /\ SubmitCompleted(game)
  /\ left' = left - 1
  /\ UNCHANGED <<who, at, restore, store, issued, saved>>

----------------------------------------------------------------------------
(* The server, and its answers.                                             *)

(* The set of a user is scored once; a second submission is refused. *)
Serve(request) ==
  /\ request \in wire
  /\ wire' = wire \ {request}
  /\ saved' = [saved EXCEPT ![request.set] = IF @ = None THEN request ELSE @]
  /\ UNCHANGED <<who, at, game, restore, store, issued, left>>

(* The rest of submitCompletedGame: the result is kept for its user and the *)
(* result page opened.                                                      *)
Submitted ==
  /\ ~EffectsDue /\ game.sending # None /\ game.sending \notin wire
  /\ saved[game.sending.set] = game.sending
  /\ store' = [session |-> game.sending.set, user |-> game.sending.user]
  /\ at' = [page |-> "result", mode |-> None, session |-> game.sending.set]
  /\ game' = NewGame
  /\ UNCHANGED <<who, restore, issued, wire, saved, left>>

(* A refusal, or no answer: the submission may have been saved all the same. *)
SubmitFails ==
  /\ ~EffectsDue /\ game.sending # None
  /\ game' = [game EXCEPT !.submit = "error", !.sending = None]
  /\ UNCHANGED <<who, at, restore, store, issued, wire, saved, left>>

(* The answer to the result page: a session is found by its own user only. *)
Restored ==
  /\ ~EffectsDue /\ restore.calling
  /\ \/ /\ saved[at.session] # None /\ saved[at.session].user = who
        /\ LET result == [session |-> at.session, user |-> who]
           IN /\ store' = result
              /\ restore' = [restore EXCEPT !.kept = result, !.status = "idle", !.calling = FALSE]
     \/ /\ restore' = [restore EXCEPT !.status = "error", !.calling = FALSE]
        /\ UNCHANGED store
  /\ UNCHANGED <<who, at, game, issued, wire, saved, left>>

RetryRestore ==
  /\ ~EffectsDue /\ left > 0 /\ at.page = "result" /\ restore.status = "error"
  /\ restore' = [restore EXCEPT !.retries = @ + 1]
  /\ left' = left - 1
  /\ UNCHANGED <<who, at, game, store, issued, wire, saved>>

----------------------------------------------------------------------------
(* Navigation. A page that is left is destroyed, with its timers and calls; *)
(* a change of mode or session keeps the page.                              *)

Places ==
  {[page |-> "play", mode |-> m, session |-> None] : m \in Modes \cup {None}}
  \cup {[page |-> "result", mode |-> None, session |-> s] : s \in (1 .. issued) \cup {None}}
  \cup {[page |-> "away", mode |-> None, session |-> None]}

GoTo(place) ==
  /\ ~EffectsDue /\ left > 0 /\ place # at
  /\ at' = place
  /\ game' = IF place.page = "play" /\ at.page = "play" THEN game ELSE NewGame
  /\ restore' = IF place.page = "result" /\ at.page = "result" THEN restore ELSE NewRestore
  /\ left' = left - 1
  /\ UNCHANGED <<who, store, issued, wire, saved>>

(* The refresh at the start ends; another tab or the header signs out; a    *)
(* user signs in.                                                           *)
SignIn(u) ==
  /\ ~EffectsDue /\ left > 0 /\ who # u
  /\ who = Initializing \/ at.page = "away"
  /\ who' = u /\ left' = left - 1
  /\ UNCHANGED <<at, game, restore, store, issued, wire, saved>>

SignOut ==
  /\ ~EffectsDue /\ left > 0 /\ who # Anonymous
  /\ who' = Anonymous /\ left' = left - 1
  /\ UNCHANGED <<at, game, restore, store, issued, wire, saved>>

----------------------------------------------------------------------------
Init ==
  /\ who = Initializing /\ issued = 0 /\ wire = {} /\ saved = [s \in Sets |-> None]
  /\ store = None /\ left = MaxCommands
  /\ game = NewGame /\ restore = NewRestore
  /\ at \in Places

Next ==
  \/ Effects \/ QuestionsArrive \/ Reload \/ SubmitAnswer \/ NextStep \/ Resubmit
  \/ Submitted \/ SubmitFails \/ Restored \/ RetryRestore \/ SignOut
  \/ \E request \in wire : Serve(request)
  \/ \E place \in Places : GoTo(place)
  \/ \E u \in Users : SignIn(u)

Spec == Init /\ [][Next]_vars

----------------------------------------------------------------------------
PlaceType ==
  [page : {"play", "result", "away"}, mode : Modes \cup {None}, session : Sets \cup {None}]
Kept == [session : Sets, user : Users] \cup {None}

TypeOK ==
  /\ who \in Users \cup {Anonymous, Initializing} /\ at \in PlaceType /\ store \in Kept
  /\ issued \in 0 .. MaxSets /\ wire \subseteq Submissions /\ left \in 0 .. MaxCommands
  /\ \A s \in Sets : saved[s] = None \/ saved[s] \in Submissions
  /\ game.status \in {"idle", "loading", "loaded", "error"} /\ game.set \in Sets \cup {None}
  /\ game.index \in 1 .. Questions /\ game.phase \in {"answering", "feedback", "completed"}
  /\ game.answers \in Answers /\ game.submit \in {"idle", "submitting", "error"}
  /\ restore.status \in {"idle", "loading", "empty", "unauthenticated", "error"}
  /\ restore.kept \in Kept

InOrder(set, answers) == answers = [i \in DOMAIN answers |-> <<set, i>>]

(* The answers are those of the questions shown so far, each answered once, *)
(* whatever timers and loads were running when the game was reset; and what *)
(* is sent or saved is a whole game of one set by one user.                 *)
GameInOrder ==
  /\ InOrder(game.set, game.answers)
  /\ game.status = "loaded" =>
       Len(game.answers) = CASE game.phase = "answering" -> game.index - 1
                             [] game.phase = "feedback" -> game.index
                             [] game.phase = "completed" -> Questions
  /\ \A request \in wire \cup ({saved[s] : s \in Sets} \ {None}) :
       InOrder(request.set, request.answers) /\ Len(request.answers) = Questions

(* A result is shown to the user who played the game only, though the store *)
(* outlives the sessions of users.                                          *)
OwnResult ==
  at.page = "result" /\ Result # None
    => saved[Result.session] # None /\ saved[Result.session].user = who

(* A sign of loading or sending stays only while there is a call that will  *)
(* take it away.                                                            *)
SignsEnd ==
  ~EffectsDue =>
    /\ game.status = "loading" => game.loading
    /\ game.submit = "submitting" => game.sending # None
    /\ at.page = "result" /\ restore.status = "loading" => restore.calling \/ who = Initializing
=============================================================================
