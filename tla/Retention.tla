------------------------------ MODULE Retention ------------------------------
(***************************************************************************)
(* The jobs that delete old rows in batches: expired refresh tokens        *)
(* (cleanupExpiredRefreshTokens.ts), audit logs past their retention       *)
(* (cleanupAuditLogs.ts) and the users soft-deleted by an older release    *)
(* (deleteLegacySoftDeletedUsers.ts), each with the command that runs it.  *)
(* Several runs of a job may overlap, and the application goes on writing  *)
(* and deleting rows beside them.                                          *)
(***************************************************************************)
EXTENDS Integers, FiniteSets, Functions

CONSTANTS
  Rows,       \* the rows of the job's table
  Synthetic,  \* the rows a run with --staging-synthetic-only is confined to
  Runs,       \* one member for each start of the job
  BatchSize, MaxRows,  \* rows per batch and per run
  Lifetime,   \* time until a new row is due: a token's lifetime or the retention
  MaxNow      \* bound on the clock

ASSUME RetentionAssumption ==
  /\ Synthetic \subseteq Rows /\ IsFiniteSet(Rows) /\ IsFiniteSet(Runs)
  /\ BatchSize \in Nat \ {0} /\ MaxRows \in Nat \ {0}
  /\ Lifetime \in Nat \ {0} /\ MaxNow \in Nat \ {0}

VARIABLES
  job,      \* which of the three jobs
  enabled,  \* the configuration lets it delete
  now,
  due,      \* when each row falls due; Unborn before it is written, Gone after it is deleted
  run,      \* the state of each run
  removed   \* rows the job's statements deleted (observed by the properties only)

vars == <<job, enabled, now, due, run, removed>>

Jobs == {"tokens", "audit", "users"}
Gone == -1
Unborn == -2
Never == MaxNow + Lifetime + 1  \* a user who is not soft-deleted

(* The rows a statement with this cutoff finds. *)
Due(cutoff) == {r \in Rows : due[r] >= 0 /\ due[r] < cutoff}

----------------------------------------------------------------------------
(* Starting a run.                                                          *)

Idle == [pc |-> "idle", dryRun |-> FALSE, scope |-> Rows, cutoff |-> 0,
         batch |-> {}, deleted |-> 0, stopped |-> FALSE, exit |-> 0]

(* A cutoff for users admits every soft-deleted one. *)
Cutoff == IF job = "users" THEN Never ELSE now

Scopes(dryRun) == IF job = "users" /\ ~dryRun THEN {Rows, Synthetic} ELSE {Rows}

(* The arguments and the configuration decide what a run may do. Deletion   *)
(* of users without the configuration is refused with exit code 2, of       *)
(* tokens and audit logs skipped.                                           *)
Start(w) == \E dryRun \in BOOLEAN : \E scope \in Scopes(dryRun) :
  LET begun == [Idle EXCEPT !.dryRun = dryRun, !.scope = scope, !.cutoff = Cutoff]
      refused == ~dryRun /\ ~enabled
  IN /\ run[w].pc = "idle"
     /\ run' = [run EXCEPT ![w] =
          CASE job = "tokens" /\ ~dryRun /\ enabled -> [begun EXCEPT !.pc = "read"]
            [] job = "tokens" /\ refused -> [begun EXCEPT !.pc = "skipped"]
            [] job = "users" /\ refused -> [begun EXCEPT !.pc = "skipped", !.exit = 2]
            [] OTHER -> [begun EXCEPT !.pc = "look"]]
     /\ UNCHANGED <<job, enabled, now, due, removed>>

(* The first look at the table: the count of a preview, the health of the   *)
(* audit log, the users to delete.                                          *)
Look(w) ==
  /\ run[w].pc = "look"
  /\ run' = [run EXCEPT ![w].pc =
       IF run[w].dryRun THEN "previewed"
       ELSE IF ~enabled THEN "skipped"
       ELSE IF Due(run[w].cutoff) = {} THEN "check" ELSE "read"]
  /\ UNCHANGED <<job, enabled, now, due, removed>>

----------------------------------------------------------------------------
(* The batch loop.                                                          *)

Size(w) ==
  IF job = "users" \/ BatchSize <= MaxRows - run[w].deleted
  THEN BatchSize ELSE MaxRows - run[w].deleted

(* A run of the retention jobs stops at its limit of rows, or when its time *)
(* is up.                                                                   *)
Stop(w) ==
  /\ run[w].pc = "read" /\ job # "users"
  /\ run' = [run EXCEPT ![w].pc = "check", ![w].stopped = TRUE]
  /\ UNCHANGED <<job, enabled, now, due, removed>>

MustStop(w) == job # "users" /\ run[w].deleted >= MaxRows

(* Mutant: an empty batch is deleted like any other. *)
AfterReadAlways(rows) == "delete"

AfterRead(rows) == IF rows = {} THEN "check" ELSE "delete"

(* The oldest rows that are due, as many as the batch takes. *)
IsBatch(rows, found, size) ==
  /\ Cardinality(rows) = IF Cardinality(found) < size THEN Cardinality(found) ELSE size
  /\ \A r \in rows, s \in found \ rows : due[r] <= due[s]

ReadBatch(w) ==
  LET found == Due(run[w].cutoff) \cap run[w].scope
  IN /\ run[w].pc = "read" /\ ~MustStop(w)
     /\ \E rows \in SUBSET found :
          /\ IsBatch(rows, found, Size(w))
          /\ run' = [run EXCEPT ![w].batch = rows, ![w].pc = AfterRead(rows)]
     /\ UNCHANGED <<job, enabled, now, due, removed>>

(* After a batch shorter than asked for nothing is left; the refresh token  *)
(* job looks again when another run deleted the whole batch first.          *)
Again(w, rows) ==
  IF (rows = {} /\ job = "tokens") \/ Cardinality(run[w].batch) >= Size(w)
  THEN "read" ELSE "check"

(* Mutant: the rows selected are counted. *)
CountedAsRead(w, rows) == run[w].deleted + Cardinality(run[w].batch)

CountedAsDeleted(w, rows) == run[w].deleted + Cardinality(rows)

Deleted(rows) ==
  /\ due' = [r \in Rows |-> IF r \in rows THEN Gone ELSE due[r]]
  /\ removed' = removed + Cardinality(rows)

(* One deleteMany with the condition of the read: it passes over the rows   *)
(* that another run or the application deleted meanwhile.                   *)
DeleteBatch(w) ==
  LET rows == run[w].batch \cap Due(run[w].cutoff)
  IN /\ run[w].pc = "delete"
     /\ Deleted(rows)
     /\ run' = [run EXCEPT ![w].deleted = CountedAsDeleted(w, rows),
                           ![w].batch = {}, ![w].pc = Again(w, rows)]
     /\ UNCHANGED <<job, enabled, now>>

----------------------------------------------------------------------------
(* The end of a run.                                                        *)

(* Mutant: reaching the limit is no news. *)
LimitIgnored(w) == 0

(* The exit code. A run that stopped early looks whether it left anything;  *)
(* the users' command counts what remains, whatever its scope.              *)
LimitReached(w) ==
  IF (run[w].stopped \/ MustStop(w) \/ job = "users") /\ Due(run[w].cutoff) # {} THEN 1 ELSE 0

Check(w) ==
  /\ run[w].pc = "check"
  /\ run' = [run EXCEPT ![w].exit = LimitReached(w),
                        ![w].pc = IF job = "users" THEN "verify" ELSE "completed"]
  /\ UNCHANGED <<job, enabled, now, due, removed>>

(* The users' command runs a preview after the deletion. *)
Verify(w) ==
  /\ run[w].pc = "verify"
  /\ run' = [run EXCEPT ![w].pc = "completed",
                        ![w].exit = IF @ = 0 THEN LimitReached(w) ELSE @]
  /\ UNCHANGED <<job, enabled, now, due, removed>>

(* A database call fails and the job with it; a deletion may have been      *)
(* committed before its answer was lost.                                    *)
Fail(w) ==
  /\ run[w].pc \in {"look", "read", "delete", "check", "verify"}
  /\ run' = [run EXCEPT ![w].pc = "failed", ![w].exit = 1]
  /\ \/ UNCHANGED <<due, removed>>
     \/ run[w].pc = "delete" /\ Deleted(run[w].batch \cap Due(run[w].cutoff))
  /\ UNCHANGED <<job, enabled, now>>

----------------------------------------------------------------------------
(* The application and the clock.                                           *)

Insert(r) ==
  /\ due[r] = Unborn
  /\ due' = [due EXCEPT ![r] = IF job = "users" THEN Never ELSE now + Lifetime]
  /\ UNCHANGED <<job, enabled, now, run, removed>>

(* A token is used or revoked, an account deleted with its rows. *)
Remove(r) ==
  /\ job # "audit" /\ due[r] >= 0
  /\ due' = [due EXCEPT ![r] = Gone]
  /\ UNCHANGED <<job, enabled, now, run, removed>>

Tick ==
  /\ now < MaxNow
  /\ now' = now + 1
  /\ UNCHANGED <<job, enabled, due, run, removed>>

----------------------------------------------------------------------------
Init ==
  /\ job \in Jobs /\ enabled \in BOOLEAN /\ now = 1
  /\ due \in [Rows -> {Unborn, 0, IF job = "users" THEN Never ELSE 1}]
  /\ run = [w \in Runs |-> Idle]
  /\ removed = 0

RunNext(w) ==
  Look(w) \/ Stop(w) \/ ReadBatch(w) \/ DeleteBatch(w) \/ Check(w) \/ Verify(w) \/ Fail(w)

Next ==
  \/ \E w \in Runs : Start(w) \/ RunNext(w)
  \/ \E r \in Rows : Insert(r) \/ Remove(r)
  \/ Tick

Spec == Init /\ [][Next]_vars

(* A process that is running goes on running. *)
Fairness == \A w \in Runs : WF_vars(RunNext(w))

FairSpec == Spec /\ Fairness

----------------------------------------------------------------------------
RunType ==
  [pc : {"idle", "look", "read", "delete", "check", "verify",
         "completed", "previewed", "skipped", "failed"},
   dryRun : BOOLEAN, scope : {Rows, Synthetic}, cutoff : 0 .. Never, batch : SUBSET Rows,
   deleted : 0 .. Cardinality(Rows), stopped : BOOLEAN, exit : 0 .. 2]

(* The types; the rows a run deletes never exceed the limit of a run. *)
TypeOK ==
  /\ job \in Jobs /\ enabled \in BOOLEAN /\ now \in 1 .. MaxNow
  /\ due \in [Rows -> {Gone, Unborn} \cup 0 .. Never]
  /\ run \in [Runs -> RunType]
  /\ removed \in 0 .. Cardinality(Rows)
  /\ job # "users" => \A w \in Runs : run[w].deleted <= MaxRows

(* A run that reports success (exit code 0, no limit reached) has left      *)
(* nothing that was due at its cutoff, though other runs and the            *)
(* application worked on the same rows.                                     *)
SuccessLeavesNothing ==
  \A w \in Runs : run[w].pc = "completed" /\ run[w].exit = 0 => Due(run[w].cutoff) = {}

(* Overlapping runs never count a row twice, and never one that the         *)
(* application deleted: the numbers they report add up to at most the rows  *)
(* the job deleted, and to exactly them unless an answer was lost.          *)
CountsAddUp ==
  LET reported == SumFunction([w \in Runs |-> run[w].deleted])
  IN /\ reported <= removed
     /\ (\A w \in Runs : run[w].pc # "failed") => reported = removed

(* Every run that is started ends. *)
RunsEnd ==
  \A w \in Runs : run[w].pc # "idle" ~> run[w].pc \in {"completed", "previewed", "skipped", "failed"}
=============================================================================
