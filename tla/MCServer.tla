------------------------------ MODULE MCServer -----------------------------
(***************************************************************************)
(* The server beside accounts and games: the rate limit (RateLimit         *)
(* itself), and what is told, reported, cleaned up and rehearsed.          *)
(***************************************************************************)
EXTENDS RateLimit, TLC

CONSTANTS
  general, account, Names, Rows, Synthetic, e, None,
  CampaignLimit, CampaignWindow, TokenLife, MaxLate, MaxLost, \* the campaign
  Owned, MaxProbes, MaxFailures,                              \* the measured deletion
  MaxAuditFaults,                                             \* the audit log
  Ids, MaxTime, PageLimits, MaxPage, MaxChanges,              \* the list of users
  BatchSize, MaxRows, Lifetime, MaxNow,                       \* the cleanup jobs
  MapKeys, MapLimit, MapWindow, MapSize,                      \* the counters in memory
  MaxMoves,                                                   \* the rehearsals
  LockSpan, MaxClock, MaxHash, MaxOverlap                     \* the locked account

VARIABLES
  which, \* the component of this behaviour
  memoryEntries, memoryForgot,
  apiAccount, apiCall,
  releaseNow, releaseAccount, releaseServer, releaseRun, releaseFlow,
  releaseFaults,
  measureRows, measureRun, measureReport, measureFaults,
  rehearsalTable, rehearsalWork, rehearsalMoves,
  trailUser, trailReq, trailLog, trailFaults,
  listTable, listClock, listChanges, listWalk,
  commandUser, commandRun,
  cleanupJob, cleanupEnabled, cleanupNow, cleanupDue, cleanupRun,
  cleanupRemoved,
  lockClock, lockUser, lockPc, lockTx

memoryVars ==
  <<memoryEntries, memoryForgot>>
apiVars ==
  <<apiAccount, apiCall>>
releaseVars ==
  <<releaseNow, releaseAccount, releaseServer, releaseRun, releaseFlow,
    releaseFaults>>
measureVars ==
  <<measureRows, measureRun, measureReport, measureFaults>>
rehearsalVars ==
  <<rehearsalTable, rehearsalWork, rehearsalMoves>>
trailVars ==
  <<trailUser, trailReq, trailLog, trailFaults>>
listVars ==
  <<listTable, listClock, listChanges, listWalk>>
commandVars ==
  <<commandUser, commandRun>>
cleanupVars ==
  <<cleanupJob, cleanupEnabled, cleanupNow, cleanupDue, cleanupRun,
    cleanupRemoved>>
lockVars ==
  <<lockClock, lockUser, lockPc, lockTx>>
allVars ==
  <<which, vars, memoryVars, apiVars, releaseVars, measureVars, rehearsalVars,
    trailVars, listVars, commandVars, cleanupVars, lockVars>>

Memory == INSTANCE MemoryStore WITH
    Keys <- MapKeys, Limit <- MapLimit, Window <- MapWindow, MaxEntries <- MapSize,
    entries <- memoryEntries, forgot <- memoryForgot
Site == INSTANCE Api WITH
    account <- apiAccount, call <- apiCall
Release == INSTANCE Campaign WITH
    Limit <- CampaignLimit, Window <- CampaignWindow, MaxFaults <- MaxLost,
    now <- releaseNow, account <- releaseAccount, server <- releaseServer,
    run <- releaseRun, flow <- releaseFlow, faults <- releaseFaults
Measure == INSTANCE DeletionPerformance WITH
    Runs <- Calls, MaxFaults <- MaxFailures,
    rows <- measureRows, run <- measureRun, report <- measureReport,
    faults <- measureFaults
Rehearsal == INSTANCE Fixtures WITH
    Workers <- Calls, table <- rehearsalTable,
    work <- rehearsalWork, moves <- rehearsalMoves
Trail == INSTANCE Audit WITH
    Users <- Names, Requests <- Calls, MaxFaults <- MaxAuditFaults,
    user <- trailUser, req <- trailReq, log <- trailLog, faults <- trailFaults
List == INSTANCE AdminUsers WITH
    Limits <- PageLimits, MaxLimit <- MaxPage, table <- listTable, clock <- listClock,
    changes <- listChanges, walk <- listWalk
Command == INSTANCE CreateAdmin WITH
    Commands <- Calls, user <- commandUser, run <- commandRun
Cleanup == INSTANCE Retention WITH
    Runs <- Calls, job <- cleanupJob, enabled <- cleanupEnabled, now <- cleanupNow,
    due <- cleanupDue, run <- cleanupRun, removed <- cleanupRemoved
Lock == INSTANCE Accounts WITH
    Users <- {e}, Admins <- {}, Unverified <- {}, Lockable <- {e}, Changers <- {e},
    Requests <- Calls, NoRow <- None, clock <- lockClock, user <- lockUser,
    pc <- lockPc, tx <- lockTx

(* What the modules take for granted of their constants.                    *)
ASSUME InstancesAssumption ==
  /\ Memory!MemoryStoreAssumption /\ Release!CampaignAssumption
  /\ Measure!DeletionPerformanceAssumption /\ Rehearsal!FixturesAssumption
  /\ Trail!AuditAssumption /\ List!AdminUsersAssumption
  /\ Command!CreateAdminAssumption /\ Site!ApiAssumption
  /\ Cleanup!RetentionAssumption
  /\ Lock!AccountsAssumption /\ Lock!NoRowAssumption

ApiRests ==
  /\ apiAccount = None /\ apiCall = None

CampaignRests ==
  /\ releaseNow = None /\ releaseAccount = None /\ releaseServer = None
  /\ releaseRun = None /\ releaseFlow = None /\ releaseFaults = None

DeletionRests ==
  /\ measureRows = None /\ measureRun = None /\ measureReport = None
  /\ measureFaults = None

FixturesRests ==
  /\ rehearsalTable = [n \in Names |-> None] /\ rehearsalMoves = 0
  /\ rehearsalWork = [w \in Calls |-> Rehearsal!Idle]

AuditRests ==
  /\ trailUser = None /\ trailReq = None /\ trailLog = None
  /\ trailFaults = None

UsersRests ==
  /\ listTable = None /\ listClock = None /\ listChanges = None
  /\ listWalk = None

CleanupRests ==
  /\ cleanupJob = None /\ cleanupEnabled = None /\ cleanupNow = None
  /\ cleanupDue = None /\ cleanupRun = None /\ cleanupRemoved = None

(* All start, and then only one component moves. *)
AllInit ==
  /\ which \in {"rate", "memory", "api", "campaign", "deletion", "fixtures",
                  "audit", "users", "command", "cleanup", "lock"}
  /\ Init /\ Memory!Init /\ Command!Init /\ Lock!Init
  /\ IF which = "api" THEN Site!Init ELSE ApiRests
  /\ IF which = "campaign" THEN Release!Init ELSE CampaignRests
  /\ IF which = "deletion" THEN Measure!Init ELSE DeletionRests
  /\ IF which = "fixtures" THEN Rehearsal!Init ELSE FixturesRests
  /\ IF which = "audit" THEN Trail!Init ELSE AuditRests
  /\ IF which = "users" THEN List!Init ELSE UsersRests
  /\ IF which = "cleanup" THEN Cleanup!Init ELSE CleanupRests

AllNext ==
  \/ /\ which = "rate" /\ Next
     /\ UNCHANGED <<which, memoryVars, apiVars, releaseVars, measureVars,
                  rehearsalVars, trailVars, listVars, commandVars,
                  cleanupVars, lockVars>>
  \/ /\ which = "memory" /\ Memory!Next
     /\ UNCHANGED <<which, vars, apiVars, releaseVars, measureVars,
                  rehearsalVars, trailVars, listVars, commandVars,
                  cleanupVars, lockVars>>
  \/ /\ which = "api" /\ Site!Next
     /\ UNCHANGED <<which, vars, memoryVars, releaseVars, measureVars,
                  rehearsalVars, trailVars, listVars, commandVars,
                  cleanupVars, lockVars>>
  \/ /\ which = "campaign" /\ Release!Next
     /\ UNCHANGED <<which, vars, memoryVars, apiVars, measureVars,
                  rehearsalVars, trailVars, listVars, commandVars,
                  cleanupVars, lockVars>>
  \/ /\ which = "deletion" /\ Measure!Next
     /\ UNCHANGED <<which, vars, memoryVars, apiVars, releaseVars,
                  rehearsalVars, trailVars, listVars, commandVars,
                  cleanupVars, lockVars>>
  \/ /\ which = "fixtures" /\ Rehearsal!Next
     /\ UNCHANGED <<which, vars, memoryVars, apiVars, releaseVars, measureVars,
                  trailVars, listVars, commandVars, cleanupVars, lockVars>>
  \/ /\ which = "audit" /\ Trail!Next
     /\ UNCHANGED <<which, vars, memoryVars, apiVars, releaseVars, measureVars,
                  rehearsalVars, listVars, commandVars, cleanupVars, lockVars>>
  \/ /\ which = "users" /\ List!Next
     /\ UNCHANGED <<which, vars, memoryVars, apiVars, releaseVars, measureVars,
                  rehearsalVars, trailVars, commandVars, cleanupVars, lockVars>>
  \/ /\ which = "command" /\ Command!Next
     /\ UNCHANGED <<which, vars, memoryVars, apiVars, releaseVars, measureVars,
                  rehearsalVars, trailVars, listVars, cleanupVars, lockVars>>
  \/ /\ which = "cleanup" /\ Cleanup!Next
     /\ UNCHANGED <<which, vars, memoryVars, apiVars, releaseVars, measureVars,
                  rehearsalVars, trailVars, listVars, commandVars, lockVars>>
  \/ /\ which = "lock" /\ Lock!Next
     /\ UNCHANGED <<which, vars, memoryVars, apiVars, releaseVars, measureVars,
                  rehearsalVars, trailVars, listVars, commandVars, cleanupVars>>

AllSpec == AllInit /\ [][AllNext]_allVars

(* The counters kept in memory stay within their limit, and a counter that *)
(* may still refuse is only given up when there are too many.              *)
ForgetsOnlyWhenFull ==
  /\ Memory!ForgetsOnlyWhenFull /\ []Memory!MapBounded

(* A page tells the user what the server did with the call and why.        *)
ToldTruly ==
  /\ (which = "api" => Site!ToldTruly)

(* What is reported is what happened: by the audit log, by the release     *)
(* campaign, by the measured deletion, by the pages of the list of users,  *)
(* and by a run of a cleanup job, which succeeds only if it left nothing   *)
(* that was due.                                                           *)
ReportsAreTrue ==
  /\ (which = "audit" => Trail!LogTellsWhatHappened)
  /\ (which = "campaign" => Release!DecisionEarned)
  /\ (which = "deletion" => Measure!FixtureTold)
  /\ (which = "users" => List!ListsEveryoneOnce)
  /\ (which = "cleanup" => Cleanup!SuccessLeavesNothing)
  /\ (which = "cleanup" => Cleanup!CountsAddUp)
  /\ (which = "cleanup" => Cleanup!TypeOK)

(* What a command or a request says it did it did in that step: the        *)
(* fixtures of a rehearsal are replaced as a whole and nobody else's row   *)
(* is touched, an administrator is created exactly if the command says so, *)
(* and an account is deleted with the password of the moment.              *)
CommandsTellTruth ==
  /\ Rehearsal!FixturesReplaced
  /\ Command!ExitTellsTheTruth /\ Lock!SelfDeleteKnowsPassword

(* A route behind two middlewares, and one whose middleware has two buckets. *)
MCRoutes == {<<{general}, {account}>>, <<{general, account}>>}

(* Limits a request may ask for: below the least, in between, above the greatest. *)
MCPageLimits == {-1, 1, 9}

Symmetry == Permutations(Calls)

=============================================================================
