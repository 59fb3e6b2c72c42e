------------------------ MODULE DeletionPerformance -------------------------
(***************************************************************************)
(* The staging measurement of an account deletion: a run makes a synthetic *)
(* user with rows of its own, deletes it through the user service or       *)
(* writes to it while a migration runs, and cleans up after itself. Any    *)
(* statement may fail with or without effect, and a run may be killed.     *)
(***************************************************************************)
EXTENDS Integers, FiniteSets

CONSTANTS
  Runs,       \* the runs, one after the other
  Owned,      \* statements that give the synthetic user its rows
  MaxProbes,  \* bound on the write probes of a run
  MaxFaults,  \* bound on failing statements and killed runs
  None        \* no run, no outcome

DeletionPerformanceAssumption ==
  /\ {Owned, MaxProbes, MaxFaults} \subseteq Nat
  /\ None \notin Runs \cup {"refused", "failed", "passed", "killed", "completed", "not-required"}

VARIABLES
  rows,    \* per run, its user, the rows of it, and the audit entry of its deletion
  run,     \* the run at work: who, in which mode, where, and what it knows
  report,  \* per run, how it ended and what it says of its fixture
  faults   \* statements that failed and runs that were killed

vars == <<rows, run, report, faults>>

NoRows == [user |-> FALSE, owned |-> 0, audit |-> FALSE]
Idle == [id |-> None, mode |-> "execute", at |-> "idle", made |-> FALSE, probes |-> 0,
         passed |-> FALSE, failed |-> FALSE, status |-> "not-required"]
NoReport == [outcome |-> None, status |-> None]

Mine == rows[run.id]
WithoutUser(r) == [r EXCEPT !.user = FALSE, !.owned = 0]

Goto(at) == run' = [run EXCEPT !.at = at]

(* A statement that turns this run's rows into `after` succeeds, or fails   *)
(* with or without effect.                                                  *)
Statement(after, ok, failed) ==
  \/ rows' = [rows EXCEPT ![run.id] = after] /\ run' = ok /\ UNCHANGED faults
  \/ /\ faults < MaxFaults /\ faults' = faults + 1
     /\ rows' \in {rows, [rows EXCEPT ![run.id] = after]}
     /\ run' = failed

Start(r, mode) ==
  /\ run.at = "idle" /\ report[r] = NoReport
  /\ run' = [Idle EXCEPT !.id = r, !.mode = mode,
                         !.at = IF mode = "execute" THEN "preview" ELSE "create"]
  /\ UNCHANGED <<rows, report, faults>>

End(outcome) ==
  /\ report' = [report EXCEPT ![run.id] = [outcome |-> outcome, status |-> run.status]]
  /\ run' = Idle

(* A run that finds the user of an earlier one refuses to begin. *)
Stale == \E r \in Runs : rows[r].user

Preview ==
  /\ run.at = "preview"
  /\ \/ Stale /\ End("refused") /\ UNCHANGED faults
     \/ ~Stale /\ Goto("create") /\ UNCHANGED <<report, faults>>
     \/ faults < MaxFaults /\ faults' = faults + 1 /\ End("failed")
  /\ UNCHANGED rows

(* createStagingAccountDeletionFixture: the user, then one statement after  *)
(* the other; the first that fails makes it clean up and give up.           *)
Undo == [run EXCEPT !.at = "undoAudit", !.failed = TRUE]

Create ==
  /\ run.at = "create"
  /\ LET next == IF ~Mine.user THEN [Mine EXCEPT !.user = TRUE] ELSE [Mine EXCEPT !.owned = @ + 1]
         ready == [run EXCEPT !.made = TRUE, !.at = IF run.mode = "execute" THEN "delete" ELSE "probe"]
     IN Statement(next, IF next.owned = Owned THEN ready ELSE run, Undo)
  /\ UNCHANGED report

UndoAudit ==
  /\ run.at = "undoAudit"
  /\ Statement([Mine EXCEPT !.audit = FALSE], [run EXCEPT !.at = "undoUser"],
               [run EXCEPT !.at = "end", !.status = "failed"])
  /\ UNCHANGED report

UndoUser ==
  /\ run.at = "undoUser"
  /\ Statement(WithoutUser(Mine), [run EXCEPT !.at = "end", !.status = "completed"],
               [run EXCEPT !.at = "end", !.status = "failed"])
  /\ UNCHANGED report

(* The user service deletes the account and writes its audit entry. *)
Broken == [run EXCEPT !.at = "cleanAudit", !.failed = TRUE]

Delete ==
  /\ run.at = "delete"
  /\ Statement([WithoutUser(Mine) EXCEPT !.audit = TRUE], [run EXCEPT !.at = "verify"], Broken)
  /\ UNCHANGED report

(* verifyFixtureDeleted, and the threshold of the measured time. *)
Verify ==
  /\ run.at = "verify"
  /\ \/ /\ UNCHANGED faults
        /\ IF Mine.user THEN run' = Broken
           ELSE \E inTime \in BOOLEAN :
                  run' = [run EXCEPT !.at = "cleanAudit", !.passed = inTime, !.failed = ~inTime]
     \/ faults < MaxFaults /\ faults' = faults + 1 /\ run' = Broken
  /\ UNCHANGED <<rows, report>>

(* probeOnce writes to each row of the user, again and again. *)
Probe ==
  /\ run.at = "probe"
  /\ \/ run' = [run EXCEPT !.probes = @ + 1] /\ run.probes < MaxProbes /\ UNCHANGED faults
     \/ /\ run.probes > 0 /\ UNCHANGED faults
        /\ run' = [run EXCEPT !.at = "cleanAudit", !.passed = TRUE]
     \/ faults < MaxFaults /\ faults' = faults + 1 /\ run' = Broken
  /\ UNCHANGED <<rows, report>>

(* The finally block, entered with a fixture: audit entry first, then the user. *)
CleanFailed == [run EXCEPT !.at = "end", !.status = "failed", !.failed = TRUE]

CleanAudit ==
  /\ run.at = "cleanAudit"
  /\ Statement([Mine EXCEPT !.audit = FALSE], [run EXCEPT !.at = "cleanUser"], CleanFailed)
  /\ UNCHANGED report

(* Mutant: a failing cleanup is swallowed. *)
CleanUserSwallowed ==
  /\ run.at = "cleanUser"
  /\ LET done == [run EXCEPT !.at = "end", !.status = "completed"]
     IN Statement(WithoutUser(Mine), done, done)
  /\ UNCHANGED report

CleanUser ==
  /\ run.at = "cleanUser"
  /\ Statement(WithoutUser(Mine), [run EXCEPT !.at = "end", !.status = "completed"], CleanFailed)
  /\ UNCHANGED report

Finish ==
  /\ run.at = "end"
  /\ End(IF run.failed \/ ~run.passed THEN "failed" ELSE "passed")
  /\ UNCHANGED <<rows, faults>>

(* The job is cancelled or times out: nothing more of it happens. *)
Killed ==
  /\ run.at # "idle" /\ faults < MaxFaults
  /\ faults' = faults + 1
  /\ report' = [report EXCEPT ![run.id] = [outcome |-> "killed", status |-> None]]
  /\ run' = Idle
  /\ UNCHANGED rows

Init ==
  /\ rows = [r \in Runs |-> NoRows]
  /\ run = Idle
  /\ report = [r \in Runs |-> NoReport]
  /\ faults = 0

Next ==
  \/ \E r \in Runs, mode \in {"execute", "probe"} : Start(r, mode)
  \/ Preview \/ Create \/ UndoAudit \/ UndoUser \/ Delete \/ Verify \/ Probe
  \/ CleanAudit \/ CleanUser \/ Finish \/ Killed

Spec == Init /\ [][Next]_vars

----------------------------------------------------------------------------
(* What a run reports of its fixture is true: after "completed" and after   *)
(* "not-required" nothing of it is in the database, whichever statement     *)
(* failed on the way, and a run only passes with its fixture cleaned up     *)
(* (runStagingAccountDeletionPerformance and the two cleanups).             *)
FixtureTold ==
  \A r \in Runs :
    /\ report[r].status \in {"completed", "not-required"} => rows[r] = NoRows
    /\ report[r].outcome = "passed" => report[r].status = "completed"
=============================================================================
