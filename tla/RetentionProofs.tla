--------------------------- MODULE RetentionProofs ---------------------------
(***************************************************************************)
(* Proofs about Retention, for any rows, runs, batches and limits.         *)
(***************************************************************************)
EXTENDS Retention, SetTheorems, FiniteSetTheorems, TLAPS

(* The rows that have not been deleted. *)
Present == {r \in Rows : due[r] # Gone}

(* What is removed and what is present is not more than there is, and no    *)
(* run has deleted more rows than were removed.                             *)
Accounted ==
  /\ removed + Cardinality(Present) <= Cardinality(Rows)
  /\ \A w \in Runs : run[w].deleted <= removed

(* A batch never takes a retention job past its limit. *)
WithinLimit(w) ==
  job # "users" =>
    /\ run[w].deleted <= MaxRows
    /\ run[w].pc = "delete" => run[w].deleted + Cardinality(run[w].batch) <= MaxRows

(* The retention jobs look at all rows that were due when they began. *)
WholeTable(w) == job # "users" => run[w].scope = Rows /\ run[w].cutoff <= now

(* A short batch holds all that is due. *)
ShortBatch(w) ==
  job # "users" /\ run[w].pc = "delete" /\ Cardinality(run[w].batch) < Size(w)
    => Due(run[w].cutoff) \subseteq run[w].batch

(* Such a run leaves its loop only because nothing is due any more or      *)
(* because it had to stop.                                                  *)
LoopEnds(w) ==
  job # "users" /\ run[w].pc = "check" /\ ~run[w].stopped /\ ~MustStop(w) => Due(run[w].cutoff) = {}

Success(w) == run[w].pc = "completed" /\ run[w].exit = 0 => Due(run[w].cutoff) = {}

(* Only the command for users looks twice. *)
OnlyUsers(w) == run[w].pc = "verify" => job = "users"

RunInv(w) ==
  WithinLimit(w) /\ WholeTable(w) /\ ShortBatch(w) /\ LoopEnds(w) /\ Success(w) /\ OnlyUsers(w)

IInv == TypeOK /\ Accounted /\ \A w \in Runs : RunInv(w)

----------------------------------------------------------------------------
LEMMA ConstantsTyped ==
  /\ Cardinality(Rows) \in Nat /\ MaxNow \in Nat \ {0} /\ Never \in Nat /\ Lifetime \in Nat \ {0}
  /\ MaxRows \in Nat \ {0} /\ BatchSize \in Nat \ {0} /\ Never = MaxNow + Lifetime + 1
BY RetentionAssumption, FS_CardinalityType DEF Never

LEMMA SubsetsFinite ==
  ASSUME NEW S \in SUBSET Rows
  PROVE  IsFiniteSet(S) /\ Cardinality(S) \in Nat /\ Cardinality(S) <= Cardinality(Rows)
BY RetentionAssumption, FS_Subset, FS_CardinalityType

LEMMA IdleTyped == Idle \in RunType
BY ConstantsTyped DEF Idle, RunType

(* Updating a run. *)
Stages == {"idle", "look", "read", "delete", "check", "verify",
           "completed", "previewed", "skipped", "failed"}

SameWork(n, t) ==
  /\ n.deleted = t.deleted /\ n.scope = t.scope /\ n.cutoff = t.cutoff
  /\ n.dryRun = t.dryRun /\ n.stopped = t.stopped /\ n.batch = t.batch

AtStage(t, p) == [t EXCEPT !.pc = p]
Ended(t, p, e) == [t EXCEPT !.pc = p, !.exit = e]

LEMMA StageTyped ==
  ASSUME NEW t \in RunType, NEW p \in Stages
  PROVE  /\ AtStage(t, p) \in RunType /\ AtStage(t, p).pc = p /\ AtStage(t, p).exit = t.exit
         /\ SameWork(AtStage(t, p), t)
BY DEF RunType, Stages, SameWork, AtStage

LEMMA EndTyped ==
  ASSUME NEW t \in RunType, NEW p \in Stages, NEW e \in 0 .. 2
  PROVE  /\ Ended(t, p, e) \in RunType /\ Ended(t, p, e).pc = p /\ Ended(t, p, e).exit = e
         /\ SameWork(Ended(t, p, e), t)
<1>1. Ended(t, p, e) = [AtStage(t, p) EXCEPT !.exit = e]
  BY DEF Ended, AtStage
<1>2. \A m \in RunType : LET n == [m EXCEPT !.exit = e]
                         IN n \in RunType /\ n.pc = m.pc /\ n.exit = e /\ SameWork(n, m)
  BY DEF RunType, SameWork
<1>3. AtStage(t, p) \in RunType /\ AtStage(t, p).pc = p /\ SameWork(AtStage(t, p), t)
  BY StageTyped
<1>4. \A n \in RunType : SameWork(n, AtStage(t, p)) => SameWork(n, t)
  BY <1>3 DEF SameWork
<1>5. /\ Ended(t, p, e) \in RunType /\ Ended(t, p, e).pc = p /\ Ended(t, p, e).exit = e
      /\ SameWork(Ended(t, p, e), AtStage(t, p))
  BY <1>1, <1>2, <1>3
<1> QED BY <1>4, <1>5

LEMMA InitIInv == Init => IInv
<1> SUFFICES ASSUME Init PROVE IInv
  OBVIOUS
<1>1. TypeOK
  <2>1. \A w \in Runs : run[w] \in RunType /\ run[w].deleted = 0
    BY IdleTyped DEF Init, Idle
  <2>2. due \in [Rows -> {Gone, Unborn} \cup 0 .. Never]
    BY ConstantsTyped DEF Init, Unborn
  <2> QED BY <2>1, <2>2, ConstantsTyped DEF Init, TypeOK
<1>2. Accounted
  <2>1. Cardinality(Present) <= Cardinality(Rows) /\ Cardinality(Present) \in Nat
    BY SubsetsFinite DEF Present
  <2> QED BY <2>1, ConstantsTyped DEF Init, Accounted, Idle
<1>3. \A w \in Runs : RunInv(w)
  BY ConstantsTyped DEF Init, Idle, RunInv, WithinLimit, WholeTable, ShortBatch, LoopEnds, Success, OnlyUsers
<1> QED BY <1>1, <1>2, <1>3 DEF IInv

----------------------------------------------------------------------------
(* What a step does to the runs that do not take it.                        *)

(* A run keeps its promises while no row becomes due at its cutoff. *)
LEMMA OthersKeep ==
  ASSUME NEW v \in Runs, RunInv(v), run'[v] = run[v], job' = job,
         job # "users" => run[v].cutoff <= now',
         Due(run[v].cutoff)' \subseteq Due(run[v].cutoff)
  PROVE  RunInv(v)'
<1>1. Size(v)' = Size(v) /\ (MustStop(v)' <=> MustStop(v))
  BY DEF Size, MustStop
<1>2. WithinLimit(v)' /\ WholeTable(v)'
  BY DEF RunInv, WithinLimit, WholeTable
<1>3. ShortBatch(v)'
  BY <1>1 DEF RunInv, ShortBatch
<1>4. LoopEnds(v)'
  BY <1>1 DEF RunInv, LoopEnds
<1>5. Success(v)' /\ OnlyUsers(v)'
  BY DEF RunInv, Success, OnlyUsers
<1> QED BY <1>2, <1>3, <1>4, <1>5 DEF RunInv

(* A step of a run that only moves on. *)
LEMMA MovesOn ==
  ASSUME IInv, NEW w \in Runs, NEW new \in RunType, new.deleted <= run[w].deleted,
         run' = [run EXCEPT ![w] = new], UNCHANGED <<job, enabled, now, due, removed>>,
         RunInv(w)'
  PROVE  IInv'
<1>1. TypeOK /\ Accounted
  BY DEF IInv
<1>2. run'[w] = new /\ \A v \in Runs \ {w} : run'[v] = run[v]
  BY <1>1 DEF TypeOK
<1>3. TypeOK'
  <2>1. job # "users" => new.deleted <= MaxRows
    BY <1>2 DEF RunInv, WithinLimit
  <2> QED BY <1>1, <1>2, <2>1 DEF TypeOK
<1>4. Accounted'
  <2>1. new.deleted \in Nat /\ run[w].deleted \in Nat /\ removed \in Nat
    BY <1>1, ConstantsTyped DEF TypeOK, RunType
  <2>2. \A v \in Runs : run'[v].deleted <= removed
    BY <1>1, <1>2, <2>1 DEF Accounted
  <2> QED BY <1>1, <2>2 DEF Accounted, Present
<1>5. \A v \in Runs \ {w} : RunInv(v)'
  <2> TAKE v \in Runs \ {w}
  <2>1. Due(run[v].cutoff)' = Due(run[v].cutoff)
    BY <1>2 DEF Due
  <2>2. job # "users" => run[v].cutoff <= now'
    BY DEF IInv, RunInv, WholeTable
  <2> QED BY <1>2, <2>1, <2>2, OthersKeep DEF IInv
<1> QED BY <1>3, <1>4, <1>5 DEF IInv

(* A row falls due when none has begun to look for it. *)
LEMMA TableMoves ==
  ASSUME IInv, UNCHANGED <<job, enabled, run, removed>>,
         now' \in now .. MaxNow, due' \in [Rows -> {Gone, Unborn} \cup 0 .. Never],
         \A r \in Rows : \/ due'[r] = due[r] \/ due'[r] = Gone
                         \/ due[r] # Gone /\ due'[r] = IF job = "users" THEN Never ELSE now + Lifetime
  PROVE  IInv'
<1>1. TypeOK /\ Accounted
  BY DEF IInv
<1>2. now \in Nat /\ now' \in 1 .. MaxNow /\ now <= now'
  BY <1>1, ConstantsTyped DEF TypeOK
<1>3. TypeOK'
  BY <1>1, <1>2 DEF TypeOK
<1>4. Accounted'
  <2>1. Present' \in SUBSET Present /\ Present \in SUBSET Rows
    BY DEF Present
  <2>2. IsFiniteSet(Present) /\ Cardinality(Present) \in Nat
    BY <2>1, SubsetsFinite
  <2>3. Cardinality(Present') <= Cardinality(Present) /\ Cardinality(Present') \in Nat
    BY <2>1, <2>2, FS_Subset, SubsetsFinite
  <2>4. removed \in Nat /\ Cardinality(Rows) \in Nat
    BY <1>1, ConstantsTyped DEF TypeOK
  <2> QED BY <1>1, <2>2, <2>3, <2>4 DEF Accounted
<1>5. \A v \in Runs : RunInv(v)'
  <2> TAKE v \in Runs
  <2>1. RunInv(v) /\ run[v].cutoff \in 0 .. Never
    BY <1>1 DEF IInv, TypeOK, RunType
  <2>2. job # "users" => run[v].cutoff <= now
    BY <2>1 DEF RunInv, WholeTable
  <2>3. Due(run[v].cutoff)' \subseteq Due(run[v].cutoff)
    <3> SUFFICES ASSUME NEW r \in Rows, due'[r] >= 0, due'[r] < run[v].cutoff
                 PROVE  due[r] >= 0 /\ due[r] < run[v].cutoff
      BY DEF Due
    <3> QED BY <1>2, <2>1, <2>2, ConstantsTyped DEF Gone
  <2> QED BY <1>2, <2>1, <2>2, <2>3, OthersKeep
<1> QED BY <1>3, <1>4, <1>5 DEF IInv

----------------------------------------------------------------------------
(* The steps.                                                               *)

LEMMA StartKeeps ==
  ASSUME IInv, NEW w \in Runs, Start(w)
  PROVE  IInv'
<1>0. TypeOK
  BY DEF IInv
<1>1. PICK dryRun \in BOOLEAN : \E scope \in Scopes(dryRun) :
        LET begun == [Idle EXCEPT !.dryRun = dryRun, !.scope = scope, !.cutoff = Cutoff]
            refused == ~dryRun /\ ~enabled
        IN /\ run[w].pc = "idle"
           /\ run' = [run EXCEPT ![w] =
                CASE job = "tokens" /\ ~dryRun /\ enabled -> [begun EXCEPT !.pc = "read"]
                  [] job = "tokens" /\ refused -> [begun EXCEPT !.pc = "skipped"]
                  [] job = "users" /\ refused -> [begun EXCEPT !.pc = "skipped", !.exit = 2]
                  [] OTHER -> [begun EXCEPT !.pc = "look"]]
           /\ UNCHANGED <<job, enabled, now, due, removed>>
  BY DEF Start
<1>2. PICK scope \in Scopes(dryRun) :
        LET begun == [Idle EXCEPT !.dryRun = dryRun, !.scope = scope, !.cutoff = Cutoff]
            refused == ~dryRun /\ ~enabled
        IN /\ run[w].pc = "idle"
           /\ run' = [run EXCEPT ![w] =
                CASE job = "tokens" /\ ~dryRun /\ enabled -> [begun EXCEPT !.pc = "read"]
                  [] job = "tokens" /\ refused -> [begun EXCEPT !.pc = "skipped"]
                  [] job = "users" /\ refused -> [begun EXCEPT !.pc = "skipped", !.exit = 2]
                  [] OTHER -> [begun EXCEPT !.pc = "look"]]
           /\ UNCHANGED <<job, enabled, now, due, removed>>
  BY <1>1
<1> DEFINE begun == [Idle EXCEPT !.dryRun = dryRun, !.scope = scope, !.cutoff = Cutoff]
           new == run'[w]
<1>3. new \in {[begun EXCEPT !.pc = "read"], [begun EXCEPT !.pc = "skipped"],
               [begun EXCEPT !.pc = "skipped", !.exit = 2], [begun EXCEPT !.pc = "look"]}
  BY <1>0, <1>2 DEF TypeOK
<1>4. scope \in {Rows, Synthetic} /\ (job # "users" => scope = Rows)
  BY DEF Scopes
<1>5. Cutoff \in 0 .. Never /\ (job # "users" => Cutoff = now)
  BY <1>0, ConstantsTyped DEF Cutoff, TypeOK
<1>6. begun \in RunType /\ begun.deleted = 0 /\ begun.scope = scope /\ begun.cutoff = Cutoff
  BY <1>4, <1>5, IdleTyped DEF Idle, RunType
<1> HIDE DEF begun
<1>7. /\ new \in RunType /\ new.deleted = 0 /\ new.scope = scope /\ new.cutoff = Cutoff
      /\ new.pc \in {"read", "skipped", "look"}
  <2>1. new \in {AtStage(begun, "read"), AtStage(begun, "skipped"), Ended(begun, "skipped", 2),
                AtStage(begun, "look")}
    BY <1>3 DEF AtStage, Ended
  <2> HIDE DEF new
  <2>2. CASE \E p \in {"read", "skipped", "look"} : new = AtStage(begun, p)
    BY <1>6, <2>2, StageTyped DEF SameWork, Stages
  <2>3. CASE new = Ended(begun, "skipped", 2)
    BY <1>6, <2>3, EndTyped DEF SameWork, Stages
  <2> QED BY <2>1, <2>2, <2>3
<1>8. run' = [run EXCEPT ![w] = new]
  BY <1>0, <1>2 DEF TypeOK
<1>9. UNCHANGED <<job, enabled, now, due, removed>>
  BY <1>2
<1>10. run[w].deleted \in Nat /\ now \in Nat
  BY <1>0, ConstantsTyped DEF TypeOK, RunType
<1> HIDE DEF new
<1>11. run'[w] = new
  BY DEF new
<1>12. RunInv(w)'
  BY <1>4, <1>5, <1>7, <1>9, <1>10, <1>11, ConstantsTyped
  DEF RunInv, WithinLimit, WholeTable, ShortBatch, LoopEnds, Success, OnlyUsers
<1>13. new.deleted <= run[w].deleted
  BY <1>7, <1>10
<1> QED BY <1>7, <1>8, <1>9, <1>12, <1>13, MovesOn

(* A step of run w that changes no more than pc, stopped, exit and batch.  *)
LEMMA RunMoves ==
  ASSUME IInv, NEW w \in Runs, NEW new \in RunType,
         new.deleted = run[w].deleted, new.scope = run[w].scope, new.cutoff = run[w].cutoff,
         run' = [run EXCEPT ![w] = new], UNCHANGED <<job, enabled, now, due, removed>>,
         job # "users" /\ new.pc = "delete" =>
           /\ new.deleted + Cardinality(new.batch) <= MaxRows
           /\ Cardinality(new.batch) < Size(w) => Due(new.cutoff) \subseteq new.batch,
         job # "users" /\ new.pc = "check" /\ ~new.stopped /\ ~MustStop(w) => Due(new.cutoff) = {},
         new.pc = "completed" /\ new.exit = 0 => Due(new.cutoff) = {},
         new.pc = "verify" => job = "users"
  PROVE  IInv'
<1>1. TypeOK /\ RunInv(w)
  BY DEF IInv
<1>2. run'[w] = new /\ new.deleted \in Nat /\ run[w].deleted \in Nat
  BY <1>1, ConstantsTyped DEF TypeOK, RunType
<1>3. Size(w)' = Size(w) /\ (MustStop(w)' <=> MustStop(w)) /\ Due(new.cutoff)' = Due(new.cutoff)
  BY <1>2 DEF Size, MustStop, Due
<1>4. WithinLimit(w)' /\ WholeTable(w)'
  BY <1>1, <1>2 DEF RunInv, WithinLimit, WholeTable
<1>5. ShortBatch(w)' /\ LoopEnds(w)' /\ Success(w)' /\ OnlyUsers(w)'
  BY <1>2, <1>3 DEF ShortBatch, LoopEnds, Success, OnlyUsers
<1>6. RunInv(w)' /\ new.deleted <= run[w].deleted
  BY <1>2, <1>4, <1>5 DEF RunInv
<1> QED BY <1>6, MovesOn

LEMMA LookKeeps ==
  ASSUME IInv, NEW w \in Runs, Look(w)
  PROVE  IInv'
<1>1. TypeOK
  BY DEF IInv
<1> DEFINE pc == IF run[w].dryRun THEN "previewed" ELSE IF ~enabled THEN "skipped"
                 ELSE IF Due(run[w].cutoff) = {} THEN "check" ELSE "read"
           new == [run[w] EXCEPT !.pc = pc]
<1>2. run' = [run EXCEPT ![w] = new] /\ UNCHANGED <<job, enabled, now, due, removed>>
  BY <1>1 DEF Look, TypeOK
<1>3. /\ new \in RunType /\ new.pc = pc /\ new.deleted = run[w].deleted
      /\ new.scope = run[w].scope /\ new.cutoff = run[w].cutoff
  BY <1>1 DEF TypeOK, RunType
<1>4. pc \in {"previewed", "skipped", "check", "read"} /\ (pc = "check" => Due(run[w].cutoff) = {})
  OBVIOUS
<1> HIDE DEF pc, new
<1> QED BY <1>2, <1>3, <1>4, RunMoves

LEMMA StopKeeps ==
  ASSUME IInv, NEW w \in Runs, Stop(w)
  PROVE  IInv'
<1>1. TypeOK
  BY DEF IInv
<1> DEFINE new == [run[w] EXCEPT !.pc = "check", !.stopped = TRUE]
<1>2. run' = [run EXCEPT ![w] = new] /\ UNCHANGED <<job, enabled, now, due, removed>>
  BY <1>1 DEF Stop, TypeOK
<1>3. /\ new \in RunType /\ new.pc = "check" /\ new.deleted = run[w].deleted /\ new.stopped = TRUE
      /\ new.scope = run[w].scope /\ new.cutoff = run[w].cutoff
  BY <1>1 DEF TypeOK, RunType
<1> HIDE DEF new
<1> QED BY <1>2, <1>3, RunMoves

(* The size of a batch. *)
LEMMA SizeFits ==
  ASSUME TypeOK, NEW w \in Runs, ~MustStop(w)
  PROVE  Size(w) \in Nat \ {0} /\ (job # "users" => run[w].deleted + Size(w) <= MaxRows)
<1>1. run[w].deleted \in Nat
  BY ConstantsTyped DEF TypeOK, RunType
<1> QED BY <1>1, ConstantsTyped DEF Size, MustStop

LEMMA ReadBatchKeeps ==
  ASSUME IInv, NEW w \in Runs, ReadBatch(w)
  PROVE  IInv'
<1>1. TypeOK /\ RunInv(w)
  BY DEF IInv
<1> DEFINE found == Due(run[w].cutoff) \cap run[w].scope
<1>2. PICK rows \in SUBSET found :
        /\ IsBatch(rows, found, Size(w))
        /\ run' = [run EXCEPT ![w].batch = rows, ![w].pc = AfterRead(rows)]
  BY DEF ReadBatch
<1>3. ~MustStop(w) /\ UNCHANGED <<job, enabled, now, due, removed>>
  BY DEF ReadBatch
<1>4. found \in SUBSET Rows /\ rows \in SUBSET Rows
  BY DEF Due
<1>5. /\ IsFiniteSet(found) /\ Cardinality(found) \in Nat
      /\ IsFiniteSet(rows) /\ Cardinality(rows) \in Nat
  BY <1>4, SubsetsFinite
<1>6. Size(w) \in Nat \ {0} /\ (job # "users" => run[w].deleted + Size(w) <= MaxRows)
  BY <1>1, <1>3, SizeFits
<1>7. Cardinality(rows) = IF Cardinality(found) < Size(w) THEN Cardinality(found) ELSE Size(w)
  BY <1>2 DEF IsBatch
<1>8. Cardinality(rows) < Size(w) => rows = found
  <2> SUFFICES ASSUME Cardinality(rows) < Size(w) PROVE rows = found
    OBVIOUS
  <2>1. Cardinality(rows) = Cardinality(found)
    BY <1>5, <1>6, <1>7
  <2>2. Cardinality(found \ rows) = Cardinality(found) - Cardinality(found \cap rows) /\ IsFiniteSet(found \ rows)
    BY <1>5, FS_Difference
  <2>3. found \cap rows = rows
    OBVIOUS
  <2>4. Cardinality(found \ rows) = 0
    <3>1. Cardinality(found \ rows) = Cardinality(found) - Cardinality(rows)
      BY <2>2, <2>3
    <3> QED BY <1>5, <2>1, <3>1
  <2>5. found \ rows = {}
    BY <2>2, <2>4, FS_EmptySet
  <2> QED BY <2>5
<1>9. job # "users" => found = Due(run[w].cutoff)
  BY <1>1 DEF RunInv, WholeTable, Due
<1> HIDE DEF found
<1> DEFINE new == [run[w] EXCEPT !.batch = rows, !.pc = AfterRead(rows)]
<1>10. run' = [run EXCEPT ![w] = new]
  BY <1>1, <1>2 DEF TypeOK
<1>11. AfterRead(rows) \in {"check", "delete"} /\ (AfterRead(rows) = "check" <=> rows = {})
  BY DEF AfterRead
<1>12. /\ new \in RunType /\ new.pc = AfterRead(rows) /\ new.batch = rows /\ new.deleted = run[w].deleted
       /\ new.scope = run[w].scope /\ new.cutoff = run[w].cutoff /\ new.stopped = run[w].stopped
  BY <1>1, <1>4, <1>11 DEF TypeOK, RunType
<1>13. rows = {} => Cardinality(rows) = 0
  BY FS_EmptySet
<1>14. job # "users" => run[w].deleted + Cardinality(rows) <= MaxRows
  <2>1. Cardinality(rows) <= Size(w)
    BY <1>5, <1>6, <1>7
  <2>2. run[w].deleted \in Nat
    BY <1>1, ConstantsTyped DEF TypeOK, RunType
  <2> QED BY <1>5, <1>6, <2>1, <2>2, ConstantsTyped
<1>15. job # "users" /\ Cardinality(new.batch) < Size(w) => Due(new.cutoff) \subseteq new.batch
  BY <1>8, <1>9, <1>12
<1>16. job # "users" /\ new.pc = "check" => Due(new.cutoff) = {}
  BY <1>5, <1>6, <1>8, <1>9, <1>11, <1>12, <1>13
<1>17. new.pc \notin {"completed", "verify"}
  BY <1>11, <1>12
<1> HIDE DEF new
<1> QED BY <1>3, <1>10, <1>12, <1>14, <1>15, <1>16, <1>17, RunMoves

(* A statement that deletes rows, in a step of run w.                       *)
LEMMA RowsGo ==
  ASSUME IInv, NEW w \in Runs, NEW rows \in SUBSET Present, NEW new \in RunType, Deleted(rows),
         run' = [run EXCEPT ![w] = new], UNCHANGED <<job, enabled, now>>,
         new.deleted <= run[w].deleted + Cardinality(rows),
         RunInv(w)'
  PROVE  IInv'
<1>1. TypeOK /\ Accounted
  BY DEF IInv
<1>2. run'[w] = new /\ \A v \in Runs \ {w} : run'[v] = run[v]
  BY <1>1 DEF TypeOK
<1>3. /\ due' \in [Rows -> {Gone, Unborn} \cup 0 .. Never]
      /\ \A r \in Rows : due'[r] = IF r \in rows THEN Gone ELSE due[r]
  BY <1>1 DEF TypeOK, Deleted
<1>4. Present' = Present \ rows
  BY <1>3 DEF Present
<1>5. /\ IsFiniteSet(Present) /\ Cardinality(Present) \in Nat /\ Cardinality(rows) \in Nat
      /\ Cardinality(Rows) \in Nat
  <2>1. Present \in SUBSET Rows /\ rows \in SUBSET Rows
    BY DEF Present
  <2> QED BY <2>1, SubsetsFinite, ConstantsTyped
<1>6. Cardinality(Present') = Cardinality(Present) - Cardinality(rows)
  <2>1. Cardinality(Present \ rows) = Cardinality(Present) - Cardinality(Present \cap rows)
    BY <1>5, FS_Difference
  <2>2. Present \cap rows = rows
    OBVIOUS
  <2> QED BY <1>4, <2>1, <2>2
<1>7. removed' = removed + Cardinality(rows) /\ removed \in Nat
  BY <1>1, <1>5 DEF Deleted, TypeOK
<1>8. removed' + Cardinality(Present') <= Cardinality(Rows) /\ Cardinality(Present') \in Nat
  <2>1. Present \ rows \in SUBSET Rows
    BY DEF Present
  <2>2. Cardinality(Present') \in Nat
    BY <1>4, <2>1, SubsetsFinite
  <2> QED BY <1>1, <1>5, <1>6, <1>7, <2>2 DEF Accounted
<1>9. Accounted'
  <2>1. \A v \in Runs : run[v].deleted <= removed /\ run[v].deleted \in Nat
    BY <1>1, ConstantsTyped DEF Accounted, TypeOK, RunType
  <2>2. new.deleted \in Nat
    BY ConstantsTyped DEF RunType
  <2>3. \A v \in Runs : run'[v].deleted <= removed'
    <3> TAKE v \in Runs
    <3>1. CASE v = w
      BY <1>2, <1>5, <1>7, <2>1, <2>2, <3>1
    <3>2. CASE v # w
      BY <1>2, <1>5, <1>7, <2>1, <3>2
    <3> QED BY <3>1, <3>2
  <2> QED BY <1>8, <2>3 DEF Accounted
<1>10. TypeOK'
  <2>1. job # "users" => new.deleted <= MaxRows
    BY <1>2 DEF RunInv, WithinLimit
  <2>2. removed' \in 0 .. Cardinality(Rows)
    BY <1>5, <1>7, <1>8
  <2> QED BY <1>1, <1>2, <1>3, <2>1, <2>2 DEF TypeOK
<1>11. \A v \in Runs \ {w} : RunInv(v)'
  <2> TAKE v \in Runs \ {w}
  <2>1. RunInv(v) /\ run[v].cutoff \in 0 .. Never
    BY <1>1 DEF IInv, TypeOK, RunType
  <2>2. Due(run[v].cutoff)' \subseteq Due(run[v].cutoff)
    BY <1>2, <1>3 DEF Due, Gone
  <2>3. job # "users" => run[v].cutoff <= now'
    BY <2>1 DEF RunInv, WholeTable
  <2> QED BY <1>2, <2>1, <2>2, <2>3, OthersKeep
<1> QED BY <1>9, <1>10, <1>11 DEF IInv

LEMMA DeleteBatchKeeps ==
  ASSUME IInv, NEW w \in Runs, DeleteBatch(w)
  PROVE  IInv'
<1>1. TypeOK /\ RunInv(w) /\ Accounted
  BY DEF IInv
<1> DEFINE rows == run[w].batch \cap Due(run[w].cutoff)
           new == [run[w] EXCEPT !.deleted = CountedAsDeleted(w, rows), !.batch = {}, !.pc = Again(w, rows)]
<1>2. /\ run[w].pc = "delete" /\ Deleted(rows) /\ run' = [run EXCEPT ![w] = new]
      /\ UNCHANGED <<job, enabled, now>>
  BY <1>1 DEF DeleteBatch, TypeOK
<1>3. /\ run[w].batch \in SUBSET Rows /\ rows \in SUBSET Rows
      /\ run[w].cutoff \in 0 .. Never /\ run[w].scope \in {Rows, Synthetic}
      /\ run[w].deleted \in Nat
  BY <1>1, ConstantsTyped DEF TypeOK, RunType
<1>4. rows \in SUBSET Present
  BY <1>3 DEF Present, Due, Gone
<1>5. /\ IsFiniteSet(run[w].batch) /\ Cardinality(run[w].batch) \in Nat
      /\ Cardinality(rows) \in Nat /\ Cardinality(rows) <= Cardinality(run[w].batch)
  BY <1>3, SubsetsFinite, FS_Subset
<1>6. CountedAsDeleted(w, rows) = run[w].deleted + Cardinality(rows)
  BY DEF CountedAsDeleted
<1>7. CountedAsDeleted(w, rows) \in 0 .. Cardinality(Rows)
  <2>1. Cardinality(rows) <= Cardinality(Present) /\ Cardinality(Present) \in Nat
    <3>1. Present \in SUBSET Rows
      BY DEF Present
    <3>2. IsFiniteSet(Present) /\ Cardinality(Present) \in Nat
      BY <3>1, SubsetsFinite
    <3> QED BY <1>4, <3>2, FS_Subset
  <2>2. removed \in Nat /\ run[w].deleted <= removed /\ removed + Cardinality(Present) <= Cardinality(Rows)
    BY <1>1 DEF Accounted, TypeOK
  <2> QED BY <1>3, <1>5, <1>6, <2>1, <2>2, ConstantsTyped
<1>8. Again(w, rows) \in {"read", "check"}
  BY DEF Again
<1>9. /\ new \in RunType /\ new.pc = Again(w, rows) /\ new.deleted = run[w].deleted + Cardinality(rows)
      /\ new.batch = {} /\ new.cutoff = run[w].cutoff /\ new.scope = run[w].scope
      /\ new.stopped = run[w].stopped
  BY <1>1, <1>6, <1>7, <1>8 DEF TypeOK, RunType
<1>10. \A r \in Rows : due'[r] = IF r \in rows THEN Gone ELSE due[r]
  BY <1>2 DEF Deleted
<1>11. job # "users" /\ Again(w, rows) = "check" => Due(run[w].cutoff) \subseteq run[w].batch
  <2>1. Size(w) \in Int
    BY <1>3, ConstantsTyped DEF Size
  <2> QED BY <1>1, <1>2, <1>5, <2>1 DEF Again, RunInv, ShortBatch
<1>12. run'[w] = new
  BY <1>1, <1>2 DEF TypeOK
<1>13. Due(run[w].cutoff)' = Due(run[w].cutoff) \ rows
  <2> SUFFICES ASSUME NEW r \in Rows
               PROVE  due'[r] >= 0 /\ due'[r] < run[w].cutoff
                        <=> due[r] >= 0 /\ due[r] < run[w].cutoff /\ r \notin rows
    BY <1>9, <1>12 DEF Due
  <2> QED BY <1>10 DEF Gone
<1>14. job # "users" /\ Again(w, rows) = "check" => Due(run[w].cutoff)' = {}
  <2> SUFFICES ASSUME Due(run[w].cutoff) \subseteq run[w].batch PROVE Due(run[w].cutoff)' = {}
    BY <1>11
  <2>1. rows = Due(run[w].cutoff)
    OBVIOUS
  <2> QED BY <1>9, <1>13, <2>1
<1> HIDE DEF new, rows
<1>15. job # "users" => run[w].deleted + Cardinality(run[w].batch) <= MaxRows
  BY <1>1, <1>2 DEF RunInv, WithinLimit
<1>16. RunInv(w)'
  <2>1. WithinLimit(w)'
    BY <1>2, <1>3, <1>5, <1>8, <1>9, <1>12, <1>15, ConstantsTyped DEF WithinLimit
  <2>2. WholeTable(w)'
    BY <1>1, <1>2, <1>9, <1>12 DEF RunInv, WholeTable
  <2>3. ShortBatch(w)' /\ Success(w)' /\ OnlyUsers(w)'
    BY <1>8, <1>9, <1>12 DEF ShortBatch, Success, OnlyUsers
  <2>4. LoopEnds(w)'
    BY <1>2, <1>8, <1>9, <1>12, <1>14 DEF LoopEnds
  <2> QED BY <2>1, <2>2, <2>3, <2>4 DEF RunInv
<1>17. new.deleted <= run[w].deleted + Cardinality(rows)
  BY <1>3, <1>5, <1>9
<1> QED BY <1>2, <1>4, <1>9, <1>16, <1>17, RowsGo

LEMMA CheckKeeps ==
  ASSUME IInv, NEW w \in Runs, Check(w)
  PROVE  IInv'
<1>1. TypeOK /\ RunInv(w)
  BY DEF IInv
<1> DEFINE pc == IF job = "users" THEN "verify" ELSE "completed"
           new == [run[w] EXCEPT !.exit = LimitReached(w), !.pc = pc]
<1>2. /\ run[w].pc = "check" /\ run' = [run EXCEPT ![w] = new]
      /\ UNCHANGED <<job, enabled, now, due, removed>>
  BY <1>1 DEF Check, TypeOK
<1>3. LimitReached(w) \in {0, 1}
  BY DEF LimitReached
<1>4. /\ new \in RunType /\ new.pc = pc /\ new.deleted = run[w].deleted /\ new.exit = LimitReached(w)
      /\ new.scope = run[w].scope /\ new.cutoff = run[w].cutoff
  <2>1. new = Ended(run[w], pc, LimitReached(w))
    <3>1. \A t \in RunType, p \in Stages, e \in {0, 1} :
            [t EXCEPT !.exit = e, !.pc = p] = [t EXCEPT !.pc = p, !.exit = e]
      BY DEF RunType, Stages
    <3>2. run[w] \in RunType
      BY <1>1 DEF TypeOK
    <3> QED BY <1>3, <3>1, <3>2 DEF Ended, Stages
  <2>2. run[w] \in RunType /\ pc \in Stages
    BY <1>1 DEF TypeOK, Stages
  <2> HIDE DEF new, pc
  <2> QED BY <1>3, <2>1, <2>2, EndTyped DEF SameWork
<1>5. LimitReached(w) = 0 => Due(run[w].cutoff) = {} \/ job = "users"
  BY <1>1, <1>2 DEF LimitReached, RunInv, LoopEnds
<1>6. pc \in {"verify", "completed"} /\ (pc = "completed" <=> job # "users")
  OBVIOUS
<1> HIDE DEF new, pc
<1> QED BY <1>2, <1>4, <1>5, <1>6, RunMoves

LEMMA VerifyKeeps ==
  ASSUME IInv, NEW w \in Runs, Verify(w)
  PROVE  IInv'
<1>1. TypeOK /\ RunInv(w)
  BY DEF IInv
<1> DEFINE exit == IF run[w].exit = 0 THEN LimitReached(w) ELSE run[w].exit
           new == [run[w] EXCEPT !.pc = "completed", !.exit = exit]
<1>2. /\ run[w].pc = "verify" /\ run' = [run EXCEPT ![w] = new]
      /\ UNCHANGED <<job, enabled, now, due, removed>>
  BY <1>1 DEF Verify, TypeOK
<1>3. exit \in 0 .. 2
  BY <1>1 DEF LimitReached, TypeOK, RunType
<1> HIDE DEF exit
<1>4. /\ new \in RunType /\ new.pc = "completed" /\ new.deleted = run[w].deleted /\ new.exit = exit
      /\ new.scope = run[w].scope /\ new.cutoff = run[w].cutoff
  <2>1. new = Ended(run[w], "completed", exit)
    BY DEF Ended
  <2> HIDE DEF new
  <2>2. run[w] \in RunType /\ "completed" \in Stages
    BY <1>1 DEF TypeOK, Stages
  <2> QED BY <1>3, <2>1, <2>2, EndTyped DEF SameWork
<1>5. exit = 0 => LimitReached(w) = 0
  BY DEF exit
<1>6. job = "users"
  BY <1>1, <1>2 DEF RunInv, OnlyUsers
<1>7. exit = 0 => Due(run[w].cutoff) = {}
  BY <1>5, <1>6 DEF LimitReached
<1> HIDE DEF new
<1> QED BY <1>2, <1>4, <1>7, RunMoves

LEMMA FailKeeps ==
  ASSUME IInv, NEW w \in Runs, Fail(w)
  PROVE  IInv'
<1>1. TypeOK /\ RunInv(w)
  BY DEF IInv
<1> DEFINE new == [run[w] EXCEPT !.pc = "failed", !.exit = 1]
<1>2. run' = [run EXCEPT ![w] = new] /\ UNCHANGED <<job, enabled, now>>
  BY <1>1 DEF Fail, TypeOK
<1>3. /\ new \in RunType /\ new.pc = "failed" /\ new.deleted = run[w].deleted
      /\ new.scope = run[w].scope /\ new.cutoff = run[w].cutoff
  <2>1. new = Ended(run[w], "failed", 1)
    BY DEF Ended
  <2> HIDE DEF new
  <2>2. run[w] \in RunType /\ "failed" \in Stages
    BY <1>1 DEF TypeOK, Stages
  <2> QED BY <2>1, <2>2, EndTyped DEF SameWork
<1>4. run'[w] = new /\ run[w].deleted \in Nat
  BY <1>1, <1>2, ConstantsTyped DEF TypeOK, RunType
<1> HIDE DEF new
<1>5. CASE UNCHANGED <<due, removed>>
  BY <1>2, <1>3, <1>5, RunMoves
<1>6. CASE Deleted(run[w].batch \cap Due(run[w].cutoff))
  <2> DEFINE rows == run[w].batch \cap Due(run[w].cutoff)
  <2>1. rows \in SUBSET Present /\ rows \in SUBSET Rows
    BY DEF Present, Due, Gone
  <2>2. Cardinality(rows) \in Nat
    BY <2>1, SubsetsFinite
  <2> HIDE DEF rows
  <2>3. RunInv(w)'
    BY <1>1, <1>2, <1>3, <1>4
    DEF RunInv, WithinLimit, WholeTable, ShortBatch, LoopEnds, Success, OnlyUsers
  <2>4. new.deleted <= run[w].deleted + Cardinality(rows)
    BY <1>3, <1>4, <2>2
  <2>5. Deleted(rows)
    BY <1>6 DEF rows
  <2> QED BY <1>2, <1>3, <2>1, <2>3, <2>4, <2>5, RowsGo
<1> QED BY <1>5, <1>6 DEF Fail

----------------------------------------------------------------------------
LEMMA TableKeeps ==
  ASSUME IInv, Tick \/ \E r \in Rows : Insert(r) \/ Remove(r)
  PROVE  IInv'
<1>1. TypeOK /\ now \in Nat
  BY ConstantsTyped DEF IInv, TypeOK
<1>2. CASE Tick
  BY <1>1, <1>2, ConstantsTyped, TableMoves DEF Tick, TypeOK
<1>3. ASSUME NEW r \in Rows, Insert(r) PROVE IInv'
  <2>1. now + Lifetime \in 0 .. Never /\ Never \in 0 .. Never
    BY <1>1, ConstantsTyped DEF TypeOK
  <2>2. due' \in [Rows -> {Gone, Unborn} \cup 0 .. Never]
    BY <1>1, <1>3, <2>1 DEF Insert, TypeOK
  <2>3. \A s \in Rows : \/ due'[s] = due[s]
                        \/ due[s] # Gone /\ due'[s] = IF job = "users" THEN Never ELSE now + Lifetime
    BY <1>1, <1>3 DEF Insert, TypeOK, Gone, Unborn
  <2>4. now' \in now .. MaxNow /\ UNCHANGED <<job, enabled, run, removed>>
    BY <1>1, <1>3, ConstantsTyped DEF Insert, TypeOK
  <2> QED BY <2>2, <2>3, <2>4, TableMoves
<1>4. ASSUME NEW r \in Rows, Remove(r) PROVE IInv'
  <2>1. due' \in [Rows -> {Gone, Unborn} \cup 0 .. Never] /\ \A s \in Rows : due'[s] \in {due[s], Gone}
    BY <1>1, <1>4 DEF Remove, TypeOK
  <2>2. now' \in now .. MaxNow /\ UNCHANGED <<job, enabled, run, removed>>
    BY <1>1, <1>4, ConstantsTyped DEF Remove, TypeOK
  <2> QED BY <2>1, <2>2, TableMoves
<1> QED BY <1>2, <1>3, <1>4

LEMMA StepIInv == IInv /\ [Next]_vars => IInv'
<1> SUFFICES ASSUME IInv, [Next]_vars PROVE IInv'
  OBVIOUS
<1>1. ASSUME NEW w \in Runs, Start(w) \/ RunNext(w) PROVE IInv'
  BY <1>1, StartKeeps, LookKeeps, StopKeeps, ReadBatchKeeps, DeleteBatchKeeps, CheckKeeps,
     VerifyKeeps, FailKeeps DEF RunNext
<1>2. CASE Tick \/ \E r \in Rows : Insert(r) \/ Remove(r)
  BY <1>2, TableKeeps
<1>3. CASE UNCHANGED vars
  BY <1>3 DEF vars, IInv, TypeOK, Accounted, Present, RunInv, WithinLimit, WholeTable, ShortBatch,
              LoopEnds, Success, OnlyUsers, Due, Size, MustStop
<1> QED BY <1>1, <1>2, <1>3 DEF Next

(* What every step keeps. *)
LEMMA Invariance == Spec => []IInv
BY InitIInv, StepIInv, PTL DEF Spec

(* The state keeps its types, and no retention job deletes more than        *)
(* MaxRows in a run, with any number of overlapping runs and any batch      *)
(* size.                                                                    *)
THEOREM Typed == Spec => []TypeOK
<1>1. IInv => TypeOK
  BY DEF IInv
<1> QED BY <1>1, Invariance, PTL

(* A run that ends with exit code 0 leaves nothing that was due at its      *)
(* cutoff: cleanupExpiredRefreshTokens, cleanupAuditLogs and                *)
(* deleteLegacySoftDeletedUsers, whatever runs beside them.                 *)
THEOREM Thorough == Spec => []SuccessLeavesNothing
<1>1. IInv => SuccessLeavesNothing
  BY DEF IInv, RunInv, Success, SuccessLeavesNothing
<1> QED BY <1>1, Invariance, PTL

----------------------------------------------------------------------------
(* What the runs report together.                                           *)

Reports == [w \in Runs |-> run[w].deleted]

(* A run that has not started has nothing to report. *)
NothingYet == \A w \in Runs : run[w].pc = "idle" => run[w].deleted = 0

CountInv == TypeOK /\ NothingYet /\ CountsAddUp

LEMMA Reported == CountsAddUp <=>
  /\ SumFunctionOnSet(Reports, Runs) <= removed
  /\ (\A w \in Runs : run[w].pc # "failed") => SumFunctionOnSet(Reports, Runs) = removed
BY DEF CountsAddUp, Reports, SumFunction

LEMMA CountInit == Init => CountInv
<1> SUFFICES ASSUME Init PROVE CountInv
  OBVIOUS
<1>1. TypeOK
  BY InitIInv DEF IInv
<1>2. \A w \in Runs : run[w].deleted = 0 /\ Reports[w] = 0
  BY DEF Init, Idle, Reports
<1>3. SumFunctionOnSet(Reports, Runs) = 0
  BY <1>2, SumOfZeros, RetentionAssumption
<1>4. removed = 0
  BY DEF Init
<1> QED BY <1>1, <1>2, <1>3, <1>4, Reported DEF CountInv, NothingYet

LEMMA Moved ==
  \A b, g, m, n \in Int : /\ b <= m /\ g <= n - m => b + g <= n
                          /\ b = m /\ g = n - m => b + g = n
OBVIOUS

(* A run reports no more than was removed in its step, and exactly that     *)
(* unless it fails.                                                         *)
LEMMA RunReports ==
  ASSUME CountInv, TypeOK', NEW w \in Runs, \A v \in Runs \ {w} : run'[v] = run[v],
         run'[w].deleted - run[w].deleted <= removed' - removed,
         run'[w].pc # "failed" =>
           run[w].pc # "failed" /\ run'[w].deleted - run[w].deleted = removed' - removed,
         run'[w].pc # "idle"
  PROVE  CountInv'
<1>1. TypeOK /\ NothingYet /\ CountsAddUp
  BY DEF CountInv
<1>2. \A v \in Runs : /\ Reports[v] = run[v].deleted /\ Reports[v] \in Int
                      /\ Reports'[v] = run'[v].deleted /\ Reports'[v] \in Int
  BY <1>1, ConstantsTyped DEF Reports, TypeOK, RunType
<1>3. \A v \in Runs \ {w} : Reports[v] = Reports'[v]
  BY <1>2
<1> DEFINE now0 == Reports
           now1 == Reports'
<1>4. SumFunctionOnSet(now1, Runs) = SumFunctionOnSet(now0, Runs) + (now1[w] - now0[w])
  <2> HIDE DEF now0, now1
  <2>1. (\A v \in Runs : now0[v] \in Int /\ now1[v] \in Int) /\ \A v \in Runs \ {w} : now0[v] = now1[v]
    BY <1>2, <1>3 DEF now0, now1
  <2> QED BY <2>1, SumChange, RetentionAssumption
<1>5. SumFunctionOnSet(now0, Runs) \in Int
  <2> HIDE DEF now0
  <2>1. \A v \in Runs : now0[v] \in Int
    BY <1>2 DEF now0
  <2> QED BY <2>1, SumTyped, RetentionAssumption
<1>6. removed \in Int /\ removed' \in Int
  BY <1>1, ConstantsTyped DEF TypeOK
<1> DEFINE before == SumFunctionOnSet(Reports, Runs)
           after == SumFunctionOnSet(Reports', Runs)
           grown == run'[w].deleted - run[w].deleted
<1>7. after = before + grown /\ before \in Int /\ grown \in Int
  BY <1>2, <1>4, <1>5
<1>8. before <= removed /\ ((\A v \in Runs : run[v].pc # "failed") => before = removed)
  BY <1>1, Reported
<1>9. after <= removed'
  <2>1. grown <= removed' - removed
    OBVIOUS
  <2>2. before <= removed
    BY <1>8
  <2> HIDE DEF before, after, grown
  <2> QED BY <1>6, <1>7, <2>1, <2>2, Moved
<1>10. (\A v \in Runs : run'[v].pc # "failed") => after = removed'
  <2> SUFFICES ASSUME \A v \in Runs : run'[v].pc # "failed" PROVE after = removed'
    OBVIOUS
  <2>1. (\A v \in Runs : run[v].pc # "failed") /\ grown = removed' - removed
    OBVIOUS
  <2>2. before = removed
    BY <1>8, <2>1
  <2> HIDE DEF before, after, grown
  <2> QED BY <1>6, <1>7, <2>1, <2>2, Moved
<1>11. NothingYet'
  BY <1>1 DEF NothingYet
<1> QED BY <1>9, <1>10, <1>11, Reported DEF CountInv, CountsAddUp, Reports, SumFunction

(* The steps that neither delete rows nor report any.                       *)
LEMMA QuietStep ==
  ASSUME CountInv, TypeOK', NEW w \in Runs,
         Start(w) \/ Look(w) \/ Stop(w) \/ ReadBatch(w) \/ Check(w) \/ Verify(w)
  PROVE  CountInv'
<1>1. TypeOK /\ NothingYet
  BY DEF CountInv
<1>2. /\ \A v \in Runs \ {w} : run'[v] = run[v]
      /\ run'[w].deleted = run[w].deleted /\ removed' = removed
      /\ run[w].pc # "failed" /\ run'[w].pc \notin {"failed", "idle"}
  <2>1. CASE Start(w)
    <3>1. run[w].pc = "idle" /\ run[w].deleted = 0 /\ removed' = removed
      BY <1>1, <2>1 DEF Start, NothingYet
    <3> DEFINE begun(d, c) == [Idle EXCEPT !.dryRun = d, !.scope = c, !.cutoff = Cutoff]
               begins(d, c) == run' = [run EXCEPT ![w] =
                 CASE job = "tokens" /\ ~d /\ enabled -> [begun(d, c) EXCEPT !.pc = "read"]
                   [] job = "tokens" /\ ~d /\ ~enabled -> [begun(d, c) EXCEPT !.pc = "skipped"]
                   [] job = "users" /\ ~d /\ ~enabled -> [begun(d, c) EXCEPT !.pc = "skipped", !.exit = 2]
                   [] OTHER -> [begun(d, c) EXCEPT !.pc = "look"]]
    <3>2. PICK d \in BOOLEAN : \E c \in Scopes(d) : begins(d, c)
      BY <2>1 DEF Start
    <3>3. PICK c \in Scopes(d) : begins(d, c)
      BY <3>2
    <3>4. run'[w].deleted = 0 /\ run'[w].pc \in {"read", "skipped", "look"}
      BY <1>1, <3>3 DEF TypeOK, Idle
    <3>5. \A v \in Runs \ {w} : run'[v] = run[v]
      BY <1>1, <3>3 DEF TypeOK
    <3> QED BY <3>1, <3>4, <3>5
  <2>2. CASE Look(w)
    BY <1>1, <2>2 DEF Look, TypeOK, RunType
  <2>3. CASE Stop(w)
    BY <1>1, <2>3 DEF Stop, TypeOK, RunType
  <2>4. CASE ReadBatch(w)
    <3>1. PICK rows : run' = [run EXCEPT ![w].batch = rows, ![w].pc = AfterRead(rows)]
      BY <2>4 DEF ReadBatch
    <3>2. run[w].pc = "read" /\ removed' = removed
      BY <2>4 DEF ReadBatch
    <3>3. AfterRead(rows) \in {"check", "delete"}
      BY DEF AfterRead
    <3> QED BY <1>1, <3>1, <3>2, <3>3 DEF TypeOK, RunType
  <2>5. CASE Check(w)
    BY <1>1, <2>5 DEF Check, TypeOK, RunType
  <2>6. CASE Verify(w)
    BY <1>1, <2>6 DEF Verify, TypeOK, RunType
  <2> QED BY <2>1, <2>2, <2>3, <2>4, <2>5, <2>6
<1>3. run[w].deleted \in Int /\ removed \in Int
  BY <1>1, ConstantsTyped DEF TypeOK, RunType
<1>4. run'[w].deleted - run[w].deleted = removed' - removed
  BY <1>2, <1>3
<1>5. run'[w].deleted - run[w].deleted <= removed' - removed
  BY <1>2, <1>3
<1> QED BY <1>2, <1>4, <1>5, RunReports

LEMMA DeletingStep ==
  ASSUME CountInv, TypeOK', NEW w \in Runs, DeleteBatch(w) \/ Fail(w)
  PROVE  CountInv'
<1>1. TypeOK /\ NothingYet
  BY DEF CountInv
<1> DEFINE rows == run[w].batch \cap Due(run[w].cutoff)
           n == Cardinality(rows)
<1>2. n \in Nat
  <2>1. rows \in SUBSET Rows
    BY DEF Due
  <2> QED BY <2>1, SubsetsFinite
<1>3. run[w].deleted \in Int /\ removed \in Int
  BY <1>1, ConstantsTyped DEF TypeOK, RunType
<1>4. CASE DeleteBatch(w)
  <2>1. /\ run'[w].deleted = run[w].deleted + n /\ removed' = removed + n
        /\ run[w].pc # "failed" /\ run'[w].pc \notin {"failed", "idle"}
        /\ \A v \in Runs \ {w} : run'[v] = run[v]
    BY <1>1, <1>4, ZenonT(40) DEF DeleteBatch, Deleted, CountedAsDeleted, Again, TypeOK, RunType
  <2> HIDE DEF n
  <2>2. run'[w].deleted - run[w].deleted = removed' - removed
    BY <1>2, <1>3, <2>1
  <2>3. run'[w].deleted - run[w].deleted <= removed' - removed
    BY <1>2, <1>3, <2>1
  <2> QED BY <2>1, <2>2, <2>3, RunReports
<1>5. CASE Fail(w)
  <2>1. /\ run'[w].deleted = run[w].deleted /\ removed' \in {removed, removed + n}
        /\ run'[w].pc = "failed"
        /\ \A v \in Runs \ {w} : run'[v] = run[v]
    BY <1>1, <1>5 DEF Fail, Deleted, TypeOK, RunType
  <2> HIDE DEF n
  <2>2. run'[w].deleted - run[w].deleted <= removed' - removed
    BY <1>2, <1>3, <2>1
  <2> QED BY <2>1, <2>2, RunReports
<1> QED BY <1>4, <1>5

LEMMA CountStep ==
  ASSUME CountInv, TypeOK', [Next]_vars
  PROVE  CountInv'
<1>1. ASSUME NEW w \in Runs, Start(w) \/ RunNext(w) PROVE CountInv'
  BY <1>1, QuietStep, DeletingStep DEF RunNext
<1>2. CASE UNCHANGED <<run, removed>>
  BY <1>2 DEF CountInv, NothingYet, CountsAddUp
<1> QED BY <1>1, <1>2 DEF Next, Tick, Insert, Remove, vars

(* The numbers that overlapping runs report add up to no more than the rows *)
(* that were deleted, and to exactly them as long as no run failed          *)
(* (deleteMany's count, not the size of the batch that was read), for any   *)
(* number of runs and rows.                                                 *)
THEOREM ReportsAddUp == Spec => []CountsAddUp
<1>1. CountInv /\ TypeOK' /\ [Next]_vars => CountInv'
  BY CountStep
<1>2. CountInv => CountsAddUp
  BY DEF CountInv
<1> QED BY <1>1, <1>2, CountInit, Typed, PTL DEF Spec
=============================================================================
