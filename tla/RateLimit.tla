------------------------------ MODULE RateLimit ------------------------------
(***************************************************************************)
(* A request enters the Worker, and each rate limit middleware on its way  *)
(* counts it in all of its buckets at once before the route runs. A bucket *)
(* is a Durable Object of its own with one row and an alarm that removes   *)
(* it; the calls to it may fail before or after it has counted.            *)
(***************************************************************************)
EXTENDS Integers, Sequences

CONSTANTS
  Calls,       \* requests under way
  Keys,        \* the buckets: digests of a policy and an address, user or e-mail
  FailClosed,  \* those whose policy is "fail-closed"
  Routes,      \* the buckets of a route: a set of keys for each middleware it passes
  Limit,       \* RATE_LIMIT_POLICIES[..].limit
  Window,      \* RATE_LIMIT_POLICIES[..].windowMs
  Second,      \* MILLISECONDS_PER_SECOND
  MaxCount,    \* a counter far beyond the limit
  NoRow        \* a row, an alarm or an answer that does not exist

ASSUME RateLimitAssumption ==
  /\ FailClosed \subseteq Keys /\ Routes \subseteq Seq(SUBSET Keys)
  /\ Limit \in Nat \ {0} /\ Window \in Nat \ {0} /\ Second \in Nat \ {0}
  /\ MaxCount \in Nat /\ MaxCount > Limit

VARIABLES
  counter,  \* the row of each Durable Object; resetAt - Date.now() is left
  alarm,    \* how long until its alarm is due
  ringing,  \* the Durable Objects whose alarm is being delivered
  pc,       \* where a request is
  call      \* its buckets and what they have answered

vars == <<counter, alarm, ringing, pc, call>>
stores == <<counter, alarm, ringing>>

----------------------------------------------------------------------------
(* The answer of a counter that has reached count, wait before its end. *)
Result(count, wait) ==
  [allowed |-> count <= Limit, wait |-> wait,
   remaining |-> IF count < Limit THEN Limit - count ELSE 0,
   retryAfter |-> IF count <= Limit THEN 0 ELSE (wait + Second - 1) \div Second]

(* validateResult *)
Valid(result) ==
  /\ result.remaining \in 0 .. Limit
  /\ IF result.allowed THEN result.retryAfter = 0
                       ELSE result.remaining = 0 /\ result.retryAfter > 0

Idle == [todo |-> <<>>, asked |-> {}, pending |-> {}, answer |-> [k \in Keys |-> NoRow], granted |-> {},
         needs |-> {}, retry |-> 0]

At(c, label) == pc[c] = label
Goto(c, label) == pc' = [pc EXCEPT ![c] = label]

(* Request c has the answer of bucket k; NoRow stands for an error. *)
Answer(c, k, result) ==
  call' = [call EXCEPT ![c].pending = @ \ {k},
                       ![c].answer = [@ EXCEPT ![k] = result]]

----------------------------------------------------------------------------
(* All buckets of the middlewares of a route, or of those that remain. *)
BucketsOf(route) == UNION {route[i] : i \in DOMAIN route}

(* The fetch handler checks the configuration, builds the adapters and then *)
(* the application: 500, 503, or a route is found.                          *)
Arrive(c) ==
  /\ At(c, "idle")
  /\ \/ \E route \in Routes :
          /\ Goto(c, "resolve")
          /\ call' = [call EXCEPT ![c] = [Idle EXCEPT
                        !.todo = route,
                        !.needs = BucketsOf(route) \cap FailClosed]]
     \/ \E code \in {"500", "503"} : Goto(c, code) /\ UNCHANGED call
  /\ UNCHANGED stores

(* createBucket leaves a bucket without a key when its address or user is   *)
(* not known or its digest fails.                                           *)
Unkeyed(buckets) == SUBSET buckets

(* A middleware resolves its buckets; some have no key, and the store may   *)
(* be missing as well. Either refuses a fail-closed bucket and lets the     *)
(* others pass.                                                             *)
Resolve(c) ==
  /\ At(c, "resolve") /\ call[c].todo # <<>>
  /\ LET buckets == Head(call[c].todo)
     IN \E missing \in Unkeyed(buckets), store \in BOOLEAN :
          LET valid == buckets \ missing
              refused == missing \cup (IF store THEN {} ELSE valid)
          IN /\ IF refused \cap FailClosed # {}
                  THEN Goto(c, "503") /\ call' = [call EXCEPT ![c] = Idle]
                  ELSE /\ Goto(c, "count")
                       /\ call' = [call EXCEPT
                            ![c].todo = Tail(@),
                            ![c].asked = IF store THEN valid ELSE {},
                            ![c].pending = IF store THEN valid ELSE {},
                            ![c].answer = Idle.answer]
  /\ UNCHANGED stores

(* Behind the last middleware the handler of the route runs. *)
Pass(c) ==
  /\ At(c, "resolve") /\ call[c].todo = <<>>
  /\ Goto(c, "route")
  /\ UNCHANGED <<stores, call>>

(* Mutant: a window begins with nothing counted. *)
CountedFromZero(k) ==
  IF counter[k] = NoRow \/ counter[k].left = 0
    THEN [count |-> 0, left |-> Window]
    ELSE [counter[k] EXCEPT !.count = IF @ < MaxCount THEN @ + 1 ELSE MaxCount]

(* What the Durable Object of bucket k does in one turn: a new window with  *)
(* an alarm at its end, or one more in this one.                            *)
Counted(k) ==
  IF counter[k] = NoRow \/ counter[k].left = 0
    THEN [count |-> 1, left |-> Window]
    ELSE [counter[k] EXCEPT !.count = IF @ < MaxCount THEN @ + 1 ELSE MaxCount]

(* The answer arrives and is validated, or is lost on the way. *)
Consume(c, k) ==
  LET row == Counted(k)
      result == Result(row.count, row.left)
  IN /\ At(c, "count") /\ k \in call[c].pending
     /\ counter' = [counter EXCEPT ![k] = row]
     /\ alarm' = IF row.count = 1 THEN [alarm EXCEPT ![k] = row.left] ELSE alarm
     /\ \/ Answer(c, k, IF Valid(result) THEN result ELSE NoRow)
        \/ Answer(c, k, NoRow)
     /\ UNCHANGED <<ringing, pc>>

(* The Durable Object cannot be reached. *)
StoreError(c, k) ==
  /\ At(c, "count") /\ k \in call[c].pending
  /\ Answer(c, k, NoRow)
  /\ UNCHANGED <<stores, pc>>

(* A due alarm is delivered, on time or late. *)
Deliver(k) ==
  /\ alarm[k] = 0
  /\ alarm' = [alarm EXCEPT ![k] = NoRow]
  /\ ringing' = ringing \cup {k}
  /\ UNCHANGED <<counter, pc, call>>

(* Mutant: an alarm deletes the row it finds. *)
AlarmDeletes(k) ==
  /\ k \in ringing
  /\ ringing' = ringing \ {k}
  /\ counter' = [counter EXCEPT ![k] = NoRow]
  /\ UNCHANGED <<alarm, pc, call>>

(* Its handler may run when another window has begun: it then only sets     *)
(* itself again. A row whose window has ended is deleted. A handler that    *)
(* fails afterwards is run once more.                                       *)
Alarm(k) ==
  LET row == counter[k]
      live == row # NoRow /\ row.left > 0
  IN /\ k \in ringing
     /\ ringing' \in {ringing, ringing \ {k}}
     /\ alarm' = IF live THEN [alarm EXCEPT ![k] = row.left] ELSE alarm
     /\ counter' = IF live THEN counter ELSE [counter EXCEPT ![k] = NoRow]
     /\ UNCHANGED <<pc, call>>

----------------------------------------------------------------------------
(* Mutant: the shortest wait is answered. *)
ShortestWait(S) == CHOOSE n \in S : \A m \in S : n <= m

LongestWait(S) == CHOOSE n \in S : \A m \in S : m <= n

Buckets(c) == {k \in Keys : call[c].answer[k] # NoRow}

(* Mutant: an error in a bucket lets the request pass. *)
DecideOpen(c) ==
  LET limited == {k \in Buckets(c) : ~call[c].answer[k].allowed}
  IN /\ At(c, "count") /\ call[c].pending = {}
     /\ IF limited # {}
          THEN /\ Goto(c, "429")
               /\ call' = [call EXCEPT ![c].retry =
                    LongestWait({call[c].answer[k].retryAfter : k \in limited})]
          ELSE /\ Goto(c, "resolve")
               /\ call' = [call EXCEPT ![c].granted = @ \cup (Buckets(c) \cap FailClosed),
                                       ![c].answer = Idle.answer]
     /\ UNCHANGED stores

(* Promise.all: once every bucket has answered, an error in a fail-closed   *)
(* one is 503, a limited one is 429 with the longest wait, and otherwise    *)
(* the next middleware resolves its buckets.                                *)
Decide(c) ==
  LET limited == {k \in Buckets(c) : ~call[c].answer[k].allowed}
      failed == call[c].asked \ Buckets(c)
  IN /\ At(c, "count") /\ call[c].pending = {}
     /\ IF failed \cap FailClosed # {}
          THEN Goto(c, "503") /\ call' = [call EXCEPT ![c] = Idle]
          ELSE IF limited # {}
          THEN /\ Goto(c, "429")
               /\ call' = [call EXCEPT ![c].retry =
                    LongestWait({call[c].answer[k].retryAfter : k \in limited})]
          ELSE /\ Goto(c, "resolve")
               /\ call' = [call EXCEPT ![c].granted = @ \cup (Buckets(c) \cap FailClosed),
                                       ![c].answer = Idle.answer]
     /\ UNCHANGED stores

Done(c) ==
  /\ pc[c] \in {"route", "429", "500", "503"}
  /\ Goto(c, "idle")
  /\ call' = [call EXCEPT ![c] = Idle]
  /\ UNCHANGED stores

(* Time passes; a row and an alarm that nobody handles stay. *)
Tick ==
  /\ \E k \in Keys : counter[k] # NoRow /\ counter[k].left > 0
  /\ counter' = [k \in Keys |-> IF counter[k] = NoRow \/ counter[k].left = 0 THEN counter[k]
                                ELSE [counter[k] EXCEPT !.left = @ - 1]]
  /\ alarm' = [k \in Keys |-> IF alarm[k] \in {NoRow, 0} THEN alarm[k] ELSE alarm[k] - 1]
  /\ UNCHANGED <<ringing, pc, call>>

----------------------------------------------------------------------------
Init ==
  /\ counter = [k \in Keys |-> NoRow] /\ alarm = [k \in Keys |-> NoRow]
  /\ ringing = {}
  /\ pc = [c \in Calls |-> "idle"]
  /\ call = [c \in Calls |-> Idle]

Next ==
  \/ \E c \in Calls :
       \/ Arrive(c) \/ Resolve(c) \/ Pass(c) \/ Decide(c) \/ Done(c)
       \/ \E k \in Keys : Consume(c, k) \/ StoreError(c, k)
  \/ \E k \in Keys : Deliver(k) \/ Alarm(k)
  \/ Tick

Spec == Init /\ [][Next]_vars

----------------------------------------------------------------------------
ResultType == [allowed : BOOLEAN, wait : 0 .. Window, remaining : 0 .. Limit,
               retryAfter : 0 .. Window]
RowType == [count : 1 .. MaxCount, left : 0 .. Window]

(* What is missing is neither a row nor an answer. *)
ASSUME NoRowAssumption == NoRow \notin RowType \cup ResultType

CallType == [todo : Seq(SUBSET Keys), asked : SUBSET Keys, pending : SUBSET Keys,
             answer : [Keys -> ResultType \cup {NoRow}], granted : SUBSET Keys,
             needs : SUBSET Keys, retry : 0 .. Window]

TypeOK ==
  /\ counter \in [Keys -> RowType \cup {NoRow}]
  /\ alarm \in [Keys -> (0 .. Window) \cup {NoRow}]
  /\ ringing \subseteq Keys
  /\ pc \in [Calls -> {"idle", "resolve", "count", "route", "429", "500", "503"}]
  /\ call \in [Calls -> CallType]

(* The handler of a route runs only when every fail-closed bucket of every *)
(* middleware before it has been counted and had room, whatever fails.     *)
RouteIsCounted ==
  \A c \in Calls : pc[c] = "route" => call[c].needs \subseteq call[c].granted

(* Who waits as long as Retry-After says finds all the windows that        *)
(* refused the request ended.                                              *)
RetryAfterSuffices ==
  \A c \in Calls : pc[c] = "429" =>
    \A k \in Buckets(c) :
      LET result == call[c].answer[k]
      IN ~result.allowed => call[c].retry * Second >= result.wait

(* Every bucket keeps the promise of FixedWindow: late, repeated and       *)
(* outdated alarms and lost answers do not show.                           *)
Live(k) == counter[k] # NoRow /\ counter[k].left > 0
Promise == INSTANCE FixedWindow WITH
  left <- [k \in Keys |-> IF Live(k) THEN counter[k].left ELSE 0],
  passed <- [k \in Keys |-> IF ~Live(k) THEN 0
                            ELSE IF counter[k].count < Limit THEN counter[k].count ELSE Limit]
KeepsPromise == Promise!Spec
=============================================================================
