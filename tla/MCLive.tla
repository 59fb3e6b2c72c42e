------------------------------- MODULE MCLive ------------------------------
(***************************************************************************)
(* What always ends, for TLC: the runs of the cleanup jobs (Retention      *)
(* itself), two submissions of games that lock weak rows in opposite       *)
(* orders, and the requests a tab makes through the auth store.            *)
(***************************************************************************)
EXTENDS Retention, TLC

CONSTANTS
  h, he, Requests, Tabs, Slots, Users, Faults, NoRow, Unwritten

VARIABLES
  which, \* the component of this behaviour
  gameClock, gameSets, gamePlayed, gameWeak, gameStats, gamePc, gameTx,
  storeStatus, storeUser, storeAccess, storeGen, storeFlight, storeOp,
  storeQueue, storeCall, storeRetrying, storeUp, storeDown, storeNotices,
  storeJar, storeRows, storeFaults, storeCmds, storeLast, storeEnded,
  storeRefused

gameVars ==
  <<gameClock, gameSets, gamePlayed, gameWeak, gameStats, gamePc, gameTx>>
storeVars ==
  <<storeStatus, storeUser, storeAccess, storeGen, storeFlight, storeOp,
    storeQueue, storeCall, storeRetrying, storeUp, storeDown, storeNotices,
    storeJar, storeRows, storeFaults, storeCmds, storeLast, storeEnded,
    storeRefused>>
allVars ==
  <<which, vars, gameVars, storeVars>>

(* The questions of two sets that ask both elements in opposite orders. *)
Orders == <<<<h, he>>, <<he, h>>>>

Game == INSTANCE GameSessionProperties WITH
    SetIds <- DOMAIN Orders, Elements <- {h, he}, QuestionCount <- 2,
    MinWeak <- 3, ExpirySpan <- 1, WeekLength <- 1, JobLag <- 0,
    MaxClock <- 0, clock <- gameClock, sets <- gameSets, played <- gamePlayed,
    weak <- gameWeak, stats <- gameStats, pc <- gamePc, tx <- gameTx
Store == INSTANCE AuthStore WITH
    NoUser <- NoRow, NoSlot <- NoRow, MaxSession <- 6, MaxCommands <- 3,
    MaxFaults <- Faults, status <- storeStatus, user <- storeUser,
    access <- storeAccess, gen <- storeGen, flight <- storeFlight,
    op <- storeOp, queue <- storeQueue, call <- storeCall,
    retrying <- storeRetrying, up <- storeUp, down <- storeDown,
    notices <- storeNotices, jar <- storeJar, rows <- storeRows,
    faults <- storeFaults, cmds <- storeCmds, last <- storeLast,
    ended <- storeEnded, refused <- storeRefused

CleanupRests ==
  job = "tokens" /\ enabled = FALSE /\ now = 1 /\ due = [r \in Rows |-> Unborn]
  /\ run = [w \in Runs |-> Idle] /\ removed = 0

GameRests ==
  Game!Init

StoreRests ==
  Store!Init /\ storeJar = 0

(* Every set is issued, asking both elements in one order or the other, and *)
(* the requests that are served are submissions of the sets, retried as *)
(* often as they like.                                                     *)
InitIssued ==
  /\ gameClock = 0 /\ gamePlayed = <<>> /\ gameStats = NoRow
  /\ gameWeak = [e \in {h, he} |-> NoRow]
  /\ gameSets = [s \in DOMAIN Orders |-> [status |-> "open", mode |-> "normal",
                                   questions |-> Orders[s], expiresAt |-> 1]]
  /\ gamePc = [r \in Requests |-> "idle"]
  /\ gameTx = [r \in Requests |-> Game!BlankTx]

NextSubmission ==
  \E r \in Requests :
    \/ \E s \in DOMAIN Orders, marks \in Game!Marks :
         Game!StartSubmit(r, s, "normal", marks)
    \/ Game!Statement(r) \/ Game!Rollback(r) \/ Game!DeadlockVictim(r)

(* All start, and then only one component moves. *)
AllInit ==
  /\ which \in {"cleanup", "game", "store"}
  /\ IF which = "cleanup" THEN Init ELSE CleanupRests
  /\ IF which = "game" THEN InitIssued ELSE GameRests
  /\ IF which = "store" THEN Store!Init ELSE StoreRests

AllNext ==
  \/ /\ which = "cleanup" /\ Next
     /\ UNCHANGED <<which, gameVars, storeVars>>
  \/ /\ which = "game" /\ NextSubmission
     /\ UNCHANGED <<which, vars, storeVars>>
  \/ /\ which = "store" /\ Store!Next
     /\ UNCHANGED <<which, vars, gameVars>>

(* The fairness of each component, for its own behaviours. *)
AllFairness ==
  /\ \A w \in Runs : WF_vars(which = "cleanup" /\ RunNext(w))
  /\ \A r \in Requests :
       /\ SF_gameVars(which = "game" /\ Game!Statement(r))
       /\ WF_gameVars(which = "game" /\ Game!DeadlockVictim(r))
  /\ \A o \in Store!Ops : WF_storeVars(which = "store" /\ Store!RefreshStep(o))
  /\ \A t \in Tabs : WF_storeVars(which = "store" /\ Store!RequestStep(t))

AllSpec == AllInit /\ [][AllNext]_allVars /\ AllFairness

(* A request always ends: row locks never leave two submissions waiting    *)
(* for each other for ever.                                                *)
RequestsEnd ==
  Game!RequestsEnd

(* Every request a page makes through the auth store is answered.          *)
EveryCallAnswered ==
  Store!EveryCallAnswered

=============================================================================
