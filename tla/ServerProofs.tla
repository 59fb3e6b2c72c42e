---------------------------- MODULE ServerProofs ----------------------------
(***************************************************************************)
(* Proofs about the parts of the server that MCServer puts together.       *)
(***************************************************************************)
EXTENDS MCServer, SequenceTheorems, FiniteSetTheorems, WellFoundedInduction, TLAPS

----------------------------------------------------------------------------
(* Rate limiting, for any buckets, routes, limits and windows. Arithmetic.  *)

LEMMA RetryAfterBounds ==
  ASSUME NEW wait \in Nat
  PROVE  /\ (wait + Second - 1) \div Second \in 0 .. wait
         /\ ((wait + Second - 1) \div Second) * Second >= wait
<1>1. Second \in Nat /\ Second > 0
  BY RateLimitAssumption
<1> QED BY <1>1

(* A bounded set of numbers has a greatest one. *)
LEMMA GreatestExists ==
  ASSUME NEW S, S # {}, NEW bound \in Nat, S \subseteq 0 .. bound
  PROVE  \E n \in S : \A m \in S : m <= n
<1> DEFINE T == {bound - n : n \in S}
<1>1. T \subseteq Nat /\ T # {}
  <2>1. PICK n \in S : TRUE
    OBVIOUS
  <2>2. bound - n \in T
    OBVIOUS
  <2> QED BY <2>2
<1>2. PICK x \in T : \A y \in T : <<y, x>> \notin OpToRel(<, Nat)
  BY <1>1, NatLessThanWellFounded, WFMin
<1>3. \A y \in T : ~(y < x)
  BY <1>1, <1>2 DEF OpToRel
<1>4. PICK n \in S : x = bound - n
  BY <1>2
<1>5. \A m \in S : m <= n
  <2> TAKE m \in S
  <2>1. bound - m \in T
    OBVIOUS
  <2>2. ~(bound - m < bound - n)
    BY <1>3, <1>4, <2>1
  <2> QED BY <2>2
<1> QED BY <1>5

----------------------------------------------------------------------------
(* Type correctness.                                                        *)

LEMMA ResultTyped ==
  ASSUME NEW count \in Nat \ {0}, NEW wait \in 0 .. Window
  PROVE  Result(count, wait) \in ResultType
<1>1. Limit \in Nat /\ Window \in Nat
  BY RateLimitAssumption
<1>2. (wait + Second - 1) \div Second \in 0 .. Window
  BY <1>1, RetryAfterBounds
<1> QED BY <1>1, <1>2 DEF Result, ResultType

LEMMA ResultHonest ==
  ASSUME NEW count, NEW wait \in Nat, ~Result(count, wait).allowed
  PROVE  Result(count, wait).retryAfter * Second >= Result(count, wait).wait
<1>1. /\ Result(count, wait).retryAfter = (wait + Second - 1) \div Second
      /\ Result(count, wait).wait = wait
  BY DEF Result
<1> QED BY <1>1, RetryAfterBounds

LEMMA CountedTyped ==
  ASSUME TypeOK, NEW k \in Keys
  PROVE  Counted(k) \in RowType
<1>1. Window \in Nat /\ MaxCount \in Nat /\ MaxCount >= 1 /\ Limit \in Nat
  BY RateLimitAssumption
<1>2. counter[k] \in RowType \cup {NoRow}
  BY DEF TypeOK
<1>3. CASE counter[k] = NoRow \/ counter[k].left = 0
  BY <1>1, <1>3 DEF Counted, RowType
<1>4. CASE ~(counter[k] = NoRow \/ counter[k].left = 0)
  <2>1. counter[k] \in RowType
    BY <1>2, <1>4
  <2> QED BY <1>1, <1>4, <2>1 DEF Counted, RowType
<1> QED BY <1>3, <1>4

LEMMA IdleTyped == Idle \in CallType
BY RateLimitAssumption DEF Idle, CallType

(* Retry-After is a greatest element. *)
LEMMA LongestWaitIsLongest ==
  ASSUME TypeOK, NEW c \in Calls, NEW L, L \subseteq Buckets(c), L # {}
  PROVE  LET waits == {call[c].answer[k].retryAfter : k \in L}
         IN /\ LongestWait(waits) \in 0 .. Window
            /\ \A k \in L : call[c].answer[k].retryAfter <= LongestWait(waits)
<1> DEFINE waits == {call[c].answer[k].retryAfter : k \in L}
<1>1. \A k \in L : call[c].answer[k] \in ResultType
  BY DEF Buckets, TypeOK, CallType
<1>2. waits \subseteq 0 .. Window /\ waits # {} /\ Window \in Nat
  <2>1. PICK k \in L : TRUE
    OBVIOUS
  <2>2. call[c].answer[k].retryAfter \in waits
    OBVIOUS
  <2> QED BY <1>1, <2>2, RateLimitAssumption DEF ResultType
<1>3. \E n \in waits : \A m \in waits : m <= n
  BY <1>2, GreatestExists
<1> HIDE DEF waits
<1>4. LongestWait(waits) \in waits /\ \A m \in waits : m <= LongestWait(waits)
  BY <1>3 DEF LongestWait
<1>5. \A k \in L : call[c].answer[k].retryAfter \in waits
  BY DEF waits
<1> QED BY <1>2, <1>4, <1>5 DEF waits

----------------------------------------------------------------------------
(* The inductive invariant.                                                 *)

BucketsAhead(c) == BucketsOf(call[c].todo)

(* What a route needs has been granted, is being counted or is still ahead. *)
CountedSoFar(c) ==
  /\ call[c].needs \subseteq FailClosed
  /\ pc[c] = "route" => call[c].needs \subseteq call[c].granted
  /\ pc[c] = "resolve" => call[c].needs \subseteq call[c].granted \cup BucketsAhead(c)
  /\ pc[c] = "count" => call[c].needs \subseteq call[c].granted \cup call[c].asked \cup BucketsAhead(c)

(* A refusal asks for a wait that is long enough. *)
Honest(c) ==
  \A k \in Buckets(c) :
    ~call[c].answer[k].allowed => call[c].answer[k].retryAfter * Second >= call[c].answer[k].wait

IInv ==
  /\ TypeOK /\ RetryAfterSuffices
  /\ \A c \in Calls : CountedSoFar(c) /\ Honest(c)

LEMMA InitIInv == Init => IInv
<1> SUFFICES ASSUME Init PROVE IInv
  OBVIOUS
<1>1. TypeOK
  BY IdleTyped DEF Init, TypeOK
<1>2. RetryAfterSuffices
  BY DEF Init, RetryAfterSuffices
<1>3. \A c \in Calls : CountedSoFar(c)
  BY DEF Init, CountedSoFar, Idle, BucketsAhead, BucketsOf
<1>4. \A c \in Calls : Honest(c)
  BY DEF Init, Honest, Idle, Buckets
<1> QED BY <1>1, <1>2, <1>3, <1>4 DEF IInv

(* Only the request that moves can disturb what is said of a request. *)
LEMMA OthersStay ==
  ASSUME IInv, NEW c \in Calls, TypeOK',
         \A d \in Calls \ {c} : pc'[d] = pc[d] /\ call'[d] = call[d],
         CountedSoFar(c)', Honest(c)',
         pc'[c] = "429" => \A k \in Buckets(c)' : ~call'[c].answer[k].allowed
                                => call'[c].retry * Second >= call'[c].answer[k].wait
  PROVE  IInv'
<1>1. \A d \in Calls \ {c} : CountedSoFar(d)' /\ Honest(d)'
  BY DEF IInv, CountedSoFar, Honest, Buckets, BucketsAhead
<1>2. RetryAfterSuffices'
  BY DEF IInv, RetryAfterSuffices, Buckets
<1> QED BY <1>1, <1>2 DEF IInv

LEMMA ArriveKeeps ==
  ASSUME IInv, NEW c \in Calls, Arrive(c)
  PROVE  IInv'
<1>1. /\ UNCHANGED stores
      /\ \A d \in Calls \ {c} : pc'[d] = pc[d] /\ call'[d] = call[d]
      /\ pc' \in [Calls -> {"idle", "resolve", "count", "route", "429", "500", "503"}]
  BY DEF IInv, TypeOK, Arrive, Goto
<1>2. CASE \E route \in Routes :
             /\ Goto(c, "resolve")
             /\ call' = [call EXCEPT ![c] = [Idle EXCEPT
                           !.todo = route,
                           !.needs = BucketsOf(route) \cap FailClosed]]
  <2>1. PICK route \in Routes :
             /\ Goto(c, "resolve")
             /\ call' = [call EXCEPT ![c] = [Idle EXCEPT
                           !.todo = route,
                           !.needs = BucketsOf(route) \cap FailClosed]]
    BY <1>2
  <2>2. /\ pc'[c] = "resolve" /\ call'[c].todo = route /\ call'[c].answer = Idle.answer
        /\ call'[c].needs = BucketsOf(route) \cap FailClosed
    BY <2>1 DEF IInv, TypeOK, Goto, Idle
  <2>3. call' \in [Calls -> CallType]
    <3>1. route \in Seq(SUBSET Keys) /\ FailClosed \subseteq Keys
      BY RateLimitAssumption
    <3>2. [Idle EXCEPT !.todo = route,
                       !.needs = BucketsOf(route) \cap FailClosed] \in CallType
      <4>1. \A t \in CallType, r \in Seq(SUBSET Keys), n \in SUBSET Keys :
              [t EXCEPT !.todo = r, !.needs = n] \in CallType
        BY DEF CallType
      <4>2. BucketsOf(route) \cap FailClosed \in SUBSET Keys
        BY <3>1 DEF BucketsOf
      <4> QED BY <3>1, <4>1, <4>2, IdleTyped
    <3> QED BY <2>1, <3>2 DEF IInv, TypeOK
  <2>4. CountedSoFar(c)' /\ Honest(c)'
    <3>1. BucketsAhead(c)' = BucketsOf(route)
      BY <2>2 DEF BucketsAhead
    <3>2. Buckets(c)' = {}
      BY <2>2 DEF Buckets, Idle
    <3>3. Honest(c)'
      BY <3>2 DEF Honest
    <3>4. CountedSoFar(c)'
      <4>1. call'[c].needs = BucketsAhead(c)' \cap FailClosed /\ pc'[c] = "resolve"
        BY <2>2, <3>1
      <4> QED BY <4>1 DEF CountedSoFar
    <3> QED BY <3>3, <3>4
  <2>5. TypeOK'
    BY <1>1, <2>3 DEF IInv, TypeOK, stores
  <2> QED BY <1>1, <2>2, <2>4, <2>5, OthersStay
<1>3. CASE \E code \in {"500", "503"} : Goto(c, code) /\ UNCHANGED call
  <2>1. pc'[c] \in {"500", "503"} /\ call'[c] = call[c]
    BY <1>3 DEF IInv, TypeOK, Goto
  <2>2. TypeOK'
    BY <1>1, <1>3 DEF IInv, TypeOK, stores
  <2>3. CountedSoFar(c)' /\ Honest(c)'
    BY <2>1 DEF IInv, CountedSoFar, BucketsAhead, Honest, Buckets
  <2> QED BY <1>1, <2>1, <2>2, <2>3, OthersStay
<1> QED BY <1>2, <1>3 DEF Arrive

(* The request of c forgets what it was about. *)
LEMMA ForgetKeeps ==
  ASSUME IInv, NEW c \in Calls, NEW label \in {"idle", "503"},
         Goto(c, label), call' = [call EXCEPT ![c] = Idle], UNCHANGED stores
  PROVE  IInv'
<1>1. /\ \A d \in Calls \ {c} : pc'[d] = pc[d] /\ call'[d] = call[d]
      /\ pc'[c] = label /\ call'[c] = Idle
  BY DEF IInv, TypeOK, Goto
<1>2. TypeOK'
  BY IdleTyped DEF IInv, TypeOK, stores, Goto
<1>3. CountedSoFar(c)' /\ Honest(c)'
  BY <1>1 DEF CountedSoFar, BucketsAhead, Honest, Buckets, Idle
<1> QED BY <1>1, <1>2, <1>3, OthersStay

LEMMA ResolveKeeps ==
  ASSUME IInv, NEW c \in Calls, Resolve(c)
  PROVE  IInv'
<1> DEFINE buckets == Head(call[c].todo)
           refused(missing, store) == missing \cup (IF store THEN {} ELSE buckets \ missing)
           asked(missing, store) == IF store THEN buckets \ missing ELSE {}
<1>1. PICK missing \in SUBSET buckets, store \in BOOLEAN :
        IF refused(missing, store) \cap FailClosed # {}
          THEN Goto(c, "503") /\ call' = [call EXCEPT ![c] = Idle]
          ELSE /\ Goto(c, "count")
               /\ call' = [call EXCEPT ![c].todo = Tail(@),
                                       ![c].asked = asked(missing, store),
                                       ![c].pending = asked(missing, store),
                                       ![c].answer = Idle.answer]
  BY DEF Resolve, Unkeyed
<1>2. At(c, "resolve") /\ call[c].todo # <<>> /\ UNCHANGED stores
  BY DEF Resolve, Unkeyed
<1>3. CASE refused(missing, store) \cap FailClosed # {}
  BY <1>1, <1>2, <1>3, ForgetKeeps
<1>4. CASE refused(missing, store) \cap FailClosed = {}
  <2>1. /\ \A d \in Calls \ {c} : pc'[d] = pc[d] /\ call'[d] = call[d]
        /\ pc'[c] = "count"
        /\ call'[c] = [call[c] EXCEPT !.todo = Tail(@), !.asked = asked(missing, store),
                                      !.pending = asked(missing, store), !.answer = Idle.answer]
    BY <1>1, <1>4 DEF IInv, TypeOK, Goto
  <2>2. call[c] \in CallType /\ call[c].todo \in Seq(SUBSET Keys)
    BY DEF IInv, TypeOK, CallType
  <2>3. /\ buckets \in SUBSET Keys /\ Tail(call[c].todo) \in Seq(SUBSET Keys)
        /\ BucketsAhead(c) = buckets \cup BucketsOf(Tail(call[c].todo))
    <3> DEFINE s == call[c].todo
    <3>0. s \in Seq(SUBSET Keys) /\ s # <<>>
      BY <1>2, <2>2
    <3> HIDE DEF s
    <3>1. /\ Len(s) \in Nat \ {0} /\ DOMAIN s = 1 .. Len(s) /\ Head(s) = s[1]
          /\ Tail(s) \in Seq(SUBSET Keys) /\ Len(Tail(s)) = Len(s) - 1
          /\ \A i \in 1 .. Len(s) - 1 : Tail(s)[i] = s[i + 1]
      BY <3>0
    <3>2. DOMAIN Tail(s) = 1 .. Len(s) - 1
      BY <3>1
    <3>3. BucketsOf(s) = s[1] \cup BucketsOf(Tail(s))
      <4>1. \A i \in DOMAIN s : i = 1 \/ (i - 1 \in DOMAIN Tail(s) /\ s[i] = Tail(s)[i - 1])
        BY <3>1, <3>2
      <4>2. \A i \in DOMAIN Tail(s) : i + 1 \in DOMAIN s /\ Tail(s)[i] = s[i + 1]
        BY <3>1, <3>2
      <4>3. 1 \in DOMAIN s
        BY <3>1
      <4> QED BY <4>1, <4>2, <4>3 DEF BucketsOf
    <3>4. s[1] \in SUBSET Keys
      BY <3>0, <3>1
    <3> QED BY <3>1, <3>3, <3>4 DEF BucketsAhead, s
  <2>4. TypeOK'
    <3>1. asked(missing, store) \in SUBSET Keys
      BY <2>3
    <3>2. call'[c] \in CallType
      BY <2>1, <2>2, <2>3, <3>1, IdleTyped DEF CallType
    <3>3. call' \in [Calls -> CallType]
      BY <1>1, <1>4, <2>1, <3>2 DEF IInv, TypeOK
    <3> QED BY <1>1, <1>2, <1>4, <3>3 DEF IInv, TypeOK, stores, Goto
  <2>5. CountedSoFar(c)'
    <3>1. /\ call'[c].needs = call[c].needs /\ call'[c].granted = call[c].granted
          /\ call'[c].asked = asked(missing, store) /\ call'[c].todo = Tail(call[c].todo)
      BY <2>1, <2>2 DEF CallType
    <3>2. call[c].needs \subseteq FailClosed /\ call[c].needs \subseteq call[c].granted \cup BucketsAhead(c)
      BY <1>2 DEF IInv, CountedSoFar, At
    <3>3. buckets \cap FailClosed \subseteq asked(missing, store)
      BY <1>4
    <3>4. BucketsAhead(c)' = BucketsOf(Tail(call[c].todo))
      BY <3>1 DEF BucketsAhead
    <3> QED BY <2>1, <2>3, <3>1, <3>2, <3>3, <3>4 DEF CountedSoFar
  <2>6. Honest(c)'
    BY <2>1, <2>2 DEF Honest, Buckets, Idle, CallType
  <2> QED BY <2>1, <2>4, <2>5, <2>6, OthersStay
<1> QED BY <1>3, <1>4

LEMMA PassKeeps ==
  ASSUME IInv, NEW c \in Calls, Pass(c)
  PROVE  IInv'
<1>1. /\ \A d \in Calls \ {c} : pc'[d] = pc[d] /\ call'[d] = call[d]
      /\ pc'[c] = "route" /\ UNCHANGED <<stores, call>> /\ call[c].todo = <<>> /\ pc[c] = "resolve"
  BY DEF IInv, TypeOK, Pass, Goto, At
<1>2. TypeOK'
  BY <1>1 DEF IInv, TypeOK, stores, Pass, Goto
<1>3. CountedSoFar(c)'
  <2>1. BucketsAhead(c) = {}
    BY <1>1 DEF BucketsAhead, BucketsOf
  <2> QED BY <1>1, <2>1 DEF IInv, CountedSoFar
<1>4. Honest(c)'
  BY <1>1 DEF IInv, Honest, Buckets
<1> QED BY <1>1, <1>2, <1>3, <1>4, OthersStay

(* An answer that keeps its word is entered. *)
LEMMA AnswerKeeps ==
  ASSUME IInv, NEW c \in Calls, NEW k \in Keys, NEW result \in ResultType \cup {NoRow},
         At(c, "count"), Answer(c, k, result), UNCHANGED pc, TypeOK',
         result # NoRow /\ ~result.allowed => result.retryAfter * Second >= result.wait
  PROVE  IInv'
<1>1. call[c] \in CallType
  BY DEF IInv, TypeOK
<1>2. /\ \A d \in Calls \ {c} : pc'[d] = pc[d] /\ call'[d] = call[d]
      /\ pc'[c] = "count" /\ pc[c] = "count"
      /\ call'[c].answer = [call[c].answer EXCEPT ![k] = result]
      /\ \A f \in {"todo", "asked", "granted", "needs"} : call'[c][f] = call[c][f]
  BY <1>1 DEF IInv, TypeOK, Answer, At, CallType
<1>3. call[c].answer \in [Keys -> ResultType \cup {NoRow}]
  BY <1>1 DEF CallType
<1>4. Honest(c)'
  <2> SUFFICES ASSUME NEW j \in Buckets(c)', ~call'[c].answer[j].allowed
               PROVE  call'[c].answer[j].retryAfter * Second >= call'[c].answer[j].wait
    BY DEF Honest
  <2>1. CASE j = k
    BY <1>2, <1>3, <2>1 DEF Buckets
  <2>2. CASE j # k
    <3>1. j \in Buckets(c) /\ call'[c].answer[j] = call[c].answer[j]
      BY <1>2, <1>3, <2>2 DEF Buckets
    <3> QED BY <3>1 DEF IInv, Honest
  <2> QED BY <2>1, <2>2
<1>5. CountedSoFar(c)'
  <2>1. /\ call'[c].todo = call[c].todo /\ call'[c].asked = call[c].asked
        /\ call'[c].granted = call[c].granted /\ call'[c].needs = call[c].needs
    BY <1>2
  <2> QED BY <1>2, <2>1 DEF IInv, CountedSoFar, BucketsAhead
<1> QED BY <1>2, <1>4, <1>5, OthersStay

LEMMA AnswerTyped ==
  ASSUME IInv, NEW c \in Calls, NEW k \in Keys, NEW result \in ResultType \cup {NoRow},
         Answer(c, k, result)
  PROVE  call' \in [Calls -> CallType]
<1>1. call[c] \in CallType
  BY DEF IInv, TypeOK
<1>2. [call[c] EXCEPT !.pending = @ \ {k}, !.answer = [@ EXCEPT ![k] = result]] \in CallType
  BY <1>1 DEF CallType
<1> QED BY <1>2 DEF IInv, TypeOK, Answer

LEMMA ConsumeKeeps ==
  ASSUME IInv, NEW c \in Calls, NEW k \in Keys, Consume(c, k)
  PROVE  IInv'
<1> DEFINE row == Counted(k)
           result == Result(row.count, row.left)
<1>0. TypeOK
  BY DEF IInv
<1>1. row \in RowType
  BY <1>0, CountedTyped
<1>2. row.count \in Nat \ {0} /\ row.left \in 0 .. Window /\ Window \in Nat
  BY <1>1, RateLimitAssumption DEF RowType
<1>3. result \in ResultType
  BY <1>2, ResultTyped
<1>4. result.retryAfter * Second >= result.wait \/ result.allowed
  BY <1>2, ResultHonest
<1>5. /\ At(c, "count") /\ counter' = [counter EXCEPT ![k] = row]
      /\ alarm' = IF row.count = 1 THEN [alarm EXCEPT ![k] = row.left] ELSE alarm
      /\ UNCHANGED <<ringing, pc>>
      /\ Answer(c, k, IF Valid(result) THEN result ELSE NoRow) \/ Answer(c, k, NoRow)
  BY DEF Consume
<1> HIDE DEF row, result
<1>6. PICK r \in {result, NoRow} : Answer(c, k, r)
  BY <1>5
<1>7. counter' \in [Keys -> RowType \cup {NoRow}] /\ alarm' \in [Keys -> (0 .. Window) \cup {NoRow}]
  BY <1>0, <1>1, <1>2, <1>5 DEF TypeOK
<1>8. TypeOK'
  BY <1>0, <1>3, <1>5, <1>6, <1>7, AnswerTyped DEF TypeOK
<1>9. r # NoRow /\ ~r.allowed => r.retryAfter * Second >= r.wait
  BY <1>4, <1>6
<1> QED BY <1>3, <1>5, <1>6, <1>8, <1>9, AnswerKeeps

LEMMA StoreErrorKeeps ==
  ASSUME IInv, NEW c \in Calls, NEW k \in Keys, StoreError(c, k)
  PROVE  IInv'
<1>1. TypeOK'
  BY AnswerTyped DEF IInv, TypeOK, StoreError, stores
<1> QED BY <1>1, AnswerKeeps DEF StoreError

LEMMA DecideKeeps ==
  ASSUME IInv, NEW c \in Calls, Decide(c)
  PROVE  IInv'
<1> DEFINE limited == {k \in Buckets(c) : ~call[c].answer[k].allowed}
           failed == call[c].asked \ Buckets(c)
           waits == {call[c].answer[k].retryAfter : k \in limited}
<1>1. call[c] \in CallType /\ pc[c] = "count" /\ UNCHANGED stores /\ TypeOK
  BY DEF IInv, TypeOK, Decide, At
<1>2. CASE failed \cap FailClosed # {}
  BY <1>1, <1>2, ForgetKeeps DEF Decide
<1>3. CASE failed \cap FailClosed = {} /\ limited # {}
  <2>1. Goto(c, "429") /\ call' = [call EXCEPT ![c].retry = LongestWait(waits)]
    BY <1>3 DEF Decide
  <2>2. /\ LongestWait(waits) \in 0 .. Window
        /\ \A k \in limited : call[c].answer[k].retryAfter <= LongestWait(waits)
    BY <1>1, <1>3, LongestWaitIsLongest
  <2> HIDE DEF waits
  <2>3. /\ \A d \in Calls \ {c} : pc'[d] = pc[d] /\ call'[d] = call[d]
        /\ pc'[c] = "429" /\ call'[c] = [call[c] EXCEPT !.retry = LongestWait(waits)]
    BY <1>1, <2>1 DEF TypeOK, Goto
  <2>4. /\ call'[c].answer = call[c].answer /\ call'[c].needs = call[c].needs
        /\ call'[c].retry = LongestWait(waits)
    BY <1>1, <2>3 DEF CallType
  <2>5. TypeOK'
    <3>1. call'[c] \in CallType
      BY <1>1, <2>2, <2>3 DEF CallType
    <3> QED BY <1>1, <2>1, <2>3, <3>1 DEF TypeOK, stores, Goto
  <2>6. CountedSoFar(c)' /\ Honest(c)'
    BY <2>3, <2>4 DEF IInv, CountedSoFar, Honest, Buckets
  <2>7. \A k \in Buckets(c)' : ~call'[c].answer[k].allowed
                   => call'[c].retry * Second >= call'[c].answer[k].wait
    <3> SUFFICES ASSUME NEW k \in limited
                 PROVE  LongestWait(waits) * Second >= call[c].answer[k].wait
      BY <2>4 DEF Buckets
    <3>1. /\ call[c].answer[k].retryAfter * Second >= call[c].answer[k].wait
          /\ call[c].answer[k].retryAfter <= LongestWait(waits)
      BY <2>2 DEF IInv, Honest
    <3>2. call[c].answer[k].retryAfter \in 0 .. Window /\ call[c].answer[k].wait \in 0 .. Window
      BY <1>1 DEF Buckets, CallType, ResultType
    <3>3. \A a, b, w \in Nat : a <= b /\ a * Second >= w => b * Second >= w
      BY RateLimitAssumption
    <3> QED BY <2>2, <3>1, <3>2, <3>3, RateLimitAssumption
  <2> QED BY <2>3, <2>5, <2>6, <2>7, OthersStay
<1>4. CASE failed \cap FailClosed = {} /\ limited = {}
  <2>1. /\ Goto(c, "resolve")
        /\ call' = [call EXCEPT ![c].granted = @ \cup (Buckets(c) \cap FailClosed),
                                ![c].answer = Idle.answer]
    BY <1>4 DEF Decide
  <2>2. /\ \A d \in Calls \ {c} : pc'[d] = pc[d] /\ call'[d] = call[d]
        /\ pc'[c] = "resolve"
        /\ call'[c] = [call[c] EXCEPT !.granted = @ \cup (Buckets(c) \cap FailClosed),
                                      !.answer = Idle.answer]
    BY <1>1, <2>1 DEF TypeOK, Goto
  <2>3. TypeOK'
    <3>1. call'[c] \in CallType
      BY <1>1, <2>2, IdleTyped DEF CallType, Buckets
    <3> QED BY <1>1, <2>1, <2>2, <3>1 DEF TypeOK, stores, Goto
  <2>4. /\ call'[c].needs = call[c].needs /\ call'[c].todo = call[c].todo
        /\ call'[c].granted = call[c].granted \cup (Buckets(c) \cap FailClosed)
        /\ call'[c].answer = Idle.answer
    BY <1>1, <2>2 DEF CallType
  <2>5. CountedSoFar(c)'
    <3>1. call[c].needs \subseteq FailClosed
          /\ call[c].needs \subseteq call[c].granted \cup call[c].asked \cup BucketsAhead(c)
      BY <1>1 DEF IInv, CountedSoFar
    <3>2. call[c].asked \cap FailClosed \subseteq Buckets(c)
      BY <1>4
    <3> QED BY <2>2, <2>4, <3>1, <3>2 DEF CountedSoFar, BucketsAhead
  <2>6. Honest(c)'
    BY <2>4 DEF Honest, Buckets, Idle
  <2> QED BY <2>2, <2>3, <2>5, <2>6, OthersStay
<1> QED BY <1>2, <1>3, <1>4

(* Alarms and the clock leave the requests alone. *)
LEMMA BucketsKeep ==
  ASSUME IInv, UNCHANGED <<pc, call>>, TypeOK'
  PROVE  IInv'
BY DEF IInv, RetryAfterSuffices, CountedSoFar, Honest, Buckets, BucketsAhead

LEMMA DeliverKeeps ==
  ASSUME IInv, NEW k \in Keys, Deliver(k)
  PROVE  IInv'
<1>1. TypeOK'
  BY DEF IInv, TypeOK, Deliver
<1> QED BY <1>1, BucketsKeep DEF Deliver

LEMMA AlarmKeeps ==
  ASSUME IInv, NEW k \in Keys, Alarm(k)
  PROVE  IInv'
<1>1. TypeOK
  BY DEF IInv
<1>2. counter[k] # NoRow => counter[k].left \in 0 .. Window
  BY <1>1 DEF TypeOK, RowType
<1>3. alarm' \in [Keys -> (0 .. Window) \cup {NoRow}]
  BY <1>1, <1>2 DEF TypeOK, Alarm
<1>4. TypeOK'
  BY <1>1, <1>3 DEF TypeOK, Alarm
<1> QED BY <1>4, BucketsKeep DEF Alarm

LEMMA TickKeeps ==
  ASSUME IInv, Tick
  PROVE  IInv'
<1>1. TypeOK /\ Window \in Nat
  BY RateLimitAssumption DEF IInv
<1>2. \A k \in Keys : counter'[k] \in RowType \cup {NoRow}
  <2> TAKE k \in Keys
  <2>1. CASE counter[k] = NoRow \/ counter[k].left = 0
    BY <1>1, <2>1 DEF TypeOK, Tick
  <2>2. CASE ~(counter[k] = NoRow \/ counter[k].left = 0)
    <3>1. counter[k] \in RowType /\ counter'[k] = [counter[k] EXCEPT !.left = @ - 1]
      BY <1>1, <2>2 DEF TypeOK, Tick
    <3> QED BY <1>1, <2>2, <3>1 DEF RowType
  <2> QED BY <2>1, <2>2
<1>3. \A k \in Keys : alarm'[k] \in (0 .. Window) \cup {NoRow}
  <2>1. alarm' = [k \in Keys |-> IF alarm[k] \in {NoRow, 0} THEN alarm[k] ELSE alarm[k] - 1]
    BY DEF Tick
  <2>2. \A a \in (0 .. Window) \cup {NoRow} : a \notin {NoRow, 0} => a - 1 \in 0 .. Window
    BY <1>1
  <2> QED BY <1>1, <2>1, <2>2 DEF TypeOK
<1>4. TypeOK'
  BY <1>1, <1>2, <1>3 DEF TypeOK, Tick
<1> QED BY <1>4, BucketsKeep DEF Tick

THEOREM StepIInv == IInv /\ [Next]_vars => IInv'
<1> SUFFICES ASSUME IInv, [Next]_vars PROVE IInv'
  OBVIOUS
<1>1. ASSUME NEW c \in Calls, Arrive(c) PROVE IInv'
  BY <1>1, ArriveKeeps
<1>2. ASSUME NEW c \in Calls, Resolve(c) PROVE IInv'
  BY <1>2, ResolveKeeps
<1>3. ASSUME NEW c \in Calls, Pass(c) PROVE IInv'
  BY <1>3, PassKeeps
<1>4. ASSUME NEW c \in Calls, Decide(c) PROVE IInv'
  BY <1>4, DecideKeeps
<1>5. ASSUME NEW c \in Calls, Done(c) PROVE IInv'
  BY <1>5, ForgetKeeps DEF Done
<1>6. ASSUME NEW c \in Calls, NEW k \in Keys, Consume(c, k) \/ StoreError(c, k) PROVE IInv'
  BY <1>6, ConsumeKeeps, StoreErrorKeeps
<1>7. ASSUME NEW k \in Keys, Deliver(k) \/ Alarm(k) PROVE IInv'
  BY <1>7, DeliverKeeps, AlarmKeeps
<1>8. CASE Tick
  BY <1>8, TickKeeps
<1>9. CASE UNCHANGED vars
  <2>1. TypeOK'
    BY <1>9 DEF IInv, TypeOK, vars
  <2> QED BY <1>9, <2>1, BucketsKeep DEF vars
<1> QED BY <1>1, <1>2, <1>3, <1>4, <1>5, <1>6, <1>7, <1>8, <1>9 DEF Next

THEOREM Invariance == Spec => []IInv
BY InitIInv, StepIInv, PTL DEF Spec

(* The counters, the alarms and the requests stay within their types. *)
THEOREM Typed == Spec => []TypeOK
<1>1. IInv => TypeOK
  BY DEF IInv
<1> QED BY <1>1, Invariance, PTL

(* RouteIsCounted: no handler of a route runs uncounted by a fail-closed     *)
(* bucket, whatever the middlewares of the route and however calls fail.    *)
THEOREM Counting == Spec => []RouteIsCounted
<1>1. IInv => RouteIsCounted
  BY DEF IInv, CountedSoFar, RouteIsCounted
<1> QED BY <1>1, Invariance, PTL

(* RetryAfterSuffices: Retry-After is long enough for all the buckets that  *)
(* refused, with any windows and rounding.                                  *)
THEOREM Waiting == Spec => []RetryAfterSuffices
<1>1. IInv => RetryAfterSuffices
  BY DEF IInv
<1> QED BY <1>1, Invariance, PTL

----------------------------------------------------------------------------
(* The refinement of FixedWindow.                                           *)

PromiseLeft == [k \in Keys |-> IF Live(k) THEN counter[k].left ELSE 0]
PromisePassed ==
  [k \in Keys |-> IF ~Live(k) THEN 0
                  ELSE IF counter[k].count < Limit THEN counter[k].count ELSE Limit]

LEMMA ConsumeTakes ==
  ASSUME IInv, NEW c \in Calls, NEW k \in Keys, Consume(c, k)
  PROVE  Promise!Take(k)
<1>1. /\ Limit \in Nat \ {0} /\ Window \in Nat \ {0} /\ MaxCount \in Nat /\ MaxCount > Limit
      /\ counter \in [Keys -> RowType \cup {NoRow}] /\ NoRow \notin RowType
  BY RateLimitAssumption, NoRowAssumption DEF IInv, TypeOK
<1>2. counter' = [counter EXCEPT ![k] = Counted(k)] /\ Counted(k) \in RowType
  BY CountedTyped DEF Consume, IInv
<1>3. \A j \in Keys \ {k} : counter'[j] = counter[j]
  BY <1>1, <1>2
<1>4. counter'[k] = Counted(k) /\ counter'[k] # NoRow
  BY <1>1, <1>2
<1>5. CASE Live(k)
  <2>1. /\ counter[k] \in RowType /\ counter[k].left \in 1 .. Window
        /\ counter'[k].left = counter[k].left
        /\ counter'[k].count = IF counter[k].count < MaxCount THEN counter[k].count + 1 ELSE MaxCount
    BY <1>1, <1>4, <1>5 DEF Live, Counted, RowType
  <2>2. Live(k)'
    BY <1>4, <2>1 DEF Live
  <2>3. PromiseLeft' = PromiseLeft
    BY <1>3, <1>5, <2>1, <2>2 DEF PromiseLeft, Live
  <2>4. PromisePassed' = IF PromisePassed[k] < Limit THEN [PromisePassed EXCEPT ![k] = @ + 1] ELSE PromisePassed
    <3>1. counter[k].count \in 1 .. MaxCount
      BY <2>1 DEF RowType
    <3> QED BY <1>1, <1>3, <1>5, <2>1, <2>2, <3>1 DEF PromisePassed, Live
  <2>5. PromiseLeft[k] # 0
    BY <1>5, <2>1 DEF PromiseLeft
  <2> QED BY <2>3, <2>4, <2>5 DEF Promise!Take, PromiseLeft, PromisePassed
<1>6. CASE ~Live(k)
  <2>1. counter'[k].left = Window /\ counter'[k].count = 1
    <3>1. counter[k] = NoRow \/ counter[k].left = 0
      BY <1>1, <1>6 DEF Live, RowType
    <3> QED BY <1>4, <3>1 DEF Counted
  <2>2. Live(k)'
    BY <1>1, <1>4, <2>1 DEF Live
  <2>3. PromiseLeft[k] = 0 /\ PromisePassed[k] = 0
    BY <1>6 DEF PromiseLeft, PromisePassed
  <2>4. PromiseLeft' = [PromiseLeft EXCEPT ![k] = Window]
    BY <1>3, <2>1, <2>2 DEF PromiseLeft, Live
  <2>5. PromisePassed' = [PromisePassed EXCEPT ![k] = @ + 1]
    <3>1. \A j \in Keys \ {k} : PromisePassed'[j] = PromisePassed[j]
      BY <1>3 DEF PromisePassed, Live
    <3>2. PromisePassed'[k] = 1
      BY <1>1, <2>1, <2>2 DEF PromisePassed
    <3>3. PromisePassed[k] + 1 = 1
      BY <2>3
    <3>4. PromisePassed' = [j \in Keys |-> PromisePassed'[j]]
      BY DEF PromisePassed
    <3>5. [PromisePassed EXCEPT ![k] = @ + 1] = [j \in Keys |-> IF j = k THEN PromisePassed[k] + 1 ELSE PromisePassed[j]]
      BY DEF PromisePassed
    <3> HIDE DEF PromisePassed
    <3> QED BY <3>1, <3>2, <3>3, <3>4, <3>5
  <2> QED BY <1>1, <2>3, <2>4, <2>5 DEF Promise!Take, PromiseLeft, PromisePassed
<1> QED BY <1>5, <1>6

LEMMA AlarmStutters ==
  ASSUME NEW k \in Keys, Alarm(k)
  PROVE  PromiseLeft' = PromiseLeft /\ PromisePassed' = PromisePassed
<1>1. CASE Live(k)
  BY <1>1 DEF Alarm, Live, PromiseLeft, PromisePassed
<1>2. CASE ~Live(k)
  <2>1. counter' = [counter EXCEPT ![k] = NoRow]
    BY <1>2 DEF Alarm, Live
  <2>2. \A j \in Keys : Live(j)' = Live(j) /\ (Live(j) => counter'[j] = counter[j])
    BY <1>2, <2>1 DEF Live
  <2> QED BY <2>2 DEF PromiseLeft, PromisePassed
<1> QED BY <1>1, <1>2

LEMMA TickElapses ==
  ASSUME IInv, Tick
  PROVE  Promise!Elapse
<1>1. /\ counter \in [Keys -> RowType \cup {NoRow}] /\ NoRow \notin RowType /\ Window \in Nat
  BY NoRowAssumption, RateLimitAssumption DEF IInv, TypeOK
<1>2. \A k \in Keys :
        /\ ~Live(k) => ~Live(k)'
        /\ Live(k) => /\ counter[k] \in RowType /\ counter[k].left \in 1 .. Window
                      /\ counter'[k] \in RowType
                      /\ counter'[k].left = counter[k].left - 1 /\ counter'[k].count = counter[k].count
                      /\ Live(k)' <=> counter[k].left > 1
  <2> TAKE k \in Keys
  <2>1. CASE Live(k)
    <3>1. counter[k] \in RowType /\ counter[k].left \in 1 .. Window
      BY <1>1, <2>1 DEF Live, RowType
    <3>2. counter'[k] = [counter[k] EXCEPT !.left = @ - 1]
      BY <2>1 DEF Tick, Live
    <3>3. /\ counter'[k] \in RowType /\ counter'[k].left = counter[k].left - 1
          /\ counter'[k].count = counter[k].count
      BY <1>1, <3>1, <3>2 DEF RowType
    <3> QED BY <1>1, <2>1, <3>1, <3>3 DEF Live
  <2>2. CASE ~Live(k)
    <3>1. counter[k] = NoRow \/ counter[k].left = 0
      BY <1>1, <2>2 DEF Live, RowType
    <3>2. counter'[k] = counter[k]
      BY <3>1 DEF Tick
    <3> QED BY <2>2, <3>2 DEF Live
  <2> QED BY <2>1, <2>2
<1>3. PromiseLeft' = [k \in Keys |-> IF PromiseLeft[k] = 0 THEN 0 ELSE PromiseLeft[k] - 1]
  <2>1. \A k \in Keys : (IF Live(k) THEN counter[k].left ELSE 0)'
                         = IF PromiseLeft[k] = 0 THEN 0 ELSE PromiseLeft[k] - 1
    <3> TAKE k \in Keys
    <3>1. CASE Live(k)
      <4>1. PromiseLeft[k] = counter[k].left
        BY <3>1 DEF PromiseLeft
      <4> QED BY <1>2, <3>1, <4>1
    <3>2. CASE ~Live(k)
      BY <1>2, <3>2 DEF PromiseLeft
    <3> QED BY <3>1, <3>2
  <2> QED BY <2>1 DEF PromiseLeft
<1>4. PromisePassed' = [k \in Keys |-> IF PromiseLeft[k] <= 1 THEN 0 ELSE PromisePassed[k]]
  <2>1. \A k \in Keys : PromisePassed'[k] = IF PromiseLeft[k] <= 1 THEN 0 ELSE PromisePassed[k]
    <3> TAKE k \in Keys
    <3>1. CASE Live(k)
      <4>1. PromiseLeft[k] = counter[k].left
        BY <3>1 DEF PromiseLeft
      <4>2. PromisePassed'[k] = IF ~Live(k)' THEN 0
                                ELSE IF counter'[k].count < Limit THEN counter'[k].count ELSE Limit
        BY DEF PromisePassed
      <4>3. PromisePassed[k] = IF counter[k].count < Limit THEN counter[k].count ELSE Limit
        BY <3>1 DEF PromisePassed
      <4> QED BY <1>2, <3>1, <4>1, <4>2, <4>3
    <3>2. CASE ~Live(k)
      BY <1>2, <3>2 DEF PromiseLeft, PromisePassed
    <3> QED BY <3>1, <3>2
  <2> QED BY <2>1 DEF PromisePassed
<1> QED BY <1>3, <1>4 DEF Promise!Elapse, PromiseLeft, PromisePassed

(* KeepsPromise: a bucket is a fixed window that lets Limit requests         *)
(* through, whatever its alarm does.                                        *)
THEOREM Refinement == Spec => KeepsPromise
<1>1. Init => Promise!Init
  BY DEF Init, Promise!Init, Live
<1>2. IInv /\ [Next]_vars => [Promise!Next]_(Promise!vars)
  <2> SUFFICES ASSUME IInv, [Next]_vars PROVE [Promise!Next]_(Promise!vars)
    OBVIOUS
  <2> DEFINE Stutters == PromiseLeft' = PromiseLeft /\ PromisePassed' = PromisePassed
  <2>1. ASSUME NEW c \in Calls, NEW k \in Keys, Consume(c, k) PROVE Promise!Next
    BY <2>1, ConsumeTakes DEF Promise!Next
  <2>2. ASSUME NEW k \in Keys, Alarm(k) PROVE Stutters
    BY <2>2, AlarmStutters
  <2>3. CASE Tick
    BY <2>3, TickElapses DEF Promise!Next
  <2>4. ASSUME UNCHANGED counter PROVE Stutters
    BY <2>4 DEF PromiseLeft, PromisePassed, Live
  <2>5. Stutters => UNCHANGED Promise!vars
    BY DEF Promise!vars, PromiseLeft, PromisePassed
  <2>6. ASSUME NEW c \in Calls, Arrive(c) \/ Resolve(c) \/ Pass(c) \/ Decide(c) \/ Done(c)
        PROVE  UNCHANGED counter
    BY <2>6 DEF Arrive, Resolve, Pass, Decide, Done, stores
  <2>7. ASSUME NEW c \in Calls, NEW k \in Keys, StoreError(c, k) PROVE UNCHANGED counter
    BY <2>7 DEF StoreError, stores
  <2>8. ASSUME NEW k \in Keys, Deliver(k) PROVE UNCHANGED counter
    BY <2>8 DEF Deliver
  <2>9. CASE UNCHANGED vars
    BY <2>4, <2>5, <2>9 DEF vars
  <2> HIDE DEF Stutters
  <2> QED BY <2>1, <2>2, <2>3, <2>4, <2>5, <2>6, <2>7, <2>8, <2>9 DEF Next
<1> QED BY <1>1, <1>2, Invariance, PTL DEF Spec, KeepsPromise, Promise!Spec

----------------------------------------------------------------------------
(* The API. What every chain of middleware keeps to: who is asked for has   *)
(* been identified, and nobody is identified twice.                         *)

Steps == {"auth", "optional", "admin", "input", "ip", "user", "email"}
Refusals == {400, 401, 403, 404, 409, 503}

Earlier(c, i, s) == \E j \in 1 .. (i - 1) : c[j] = s

Guarded(c) == \A i \in DOMAIN c :
  /\ c[i] \in {"user", "admin"} => Earlier(c, i, "auth")
  /\ c[i] = "email" => Earlier(c, i, "input")
  /\ c[i] = "auth" => \A j \in DOMAIN c : c[j] # "optional" /\ (c[j] = "auth" => j = i)

FineRoutes ==
  {rt \in [chain : Seq(Steps), refusals : SUBSET Refusals] :
     /\ Guarded(rt.chain)
     /\ 401 \in rt.refusals => \A i \in DOMAIN rt.chain : rt.chain[i] # "auth"}

SignedChains ==
  {<<"auth">>, <<"auth", "input">>, <<"auth", "input", "ip", "user">>,
   <<"auth", "ip", "user", "input">>, <<"auth", "admin", "input">>, <<"auth", "admin">>,
   <<"ip", "auth", "input">>, <<"ip", "auth", "user", "input">>}

OpenChains ==
  {<<"optional">>, <<"input", "optional">>, <<"input">>, <<"ip", "input", "email">>,
   <<"ip", "input">>}

LEMMA SignedRoutesFine ==
  ASSUME NEW c \in SignedChains, NEW rs \in SUBSET (Refusals \ {401})
  PROVE  Site!Route(c, rs) \in FineRoutes
<1>1. c \in Seq(Steps) /\ Guarded(c)
  <2>1. CASE c = <<"auth">>
    BY <2>1 DEF Guarded, Earlier, Steps
  <2>2. CASE c = <<"auth", "input">>
    BY <2>2 DEF Guarded, Earlier, Steps
  <2>3. CASE c = <<"auth", "input", "ip", "user">>
    BY <2>3 DEF Guarded, Earlier, Steps
  <2>4. CASE c = <<"auth", "ip", "user", "input">>
    BY <2>4 DEF Guarded, Earlier, Steps
  <2>5. CASE c = <<"auth", "admin", "input">>
    BY <2>5 DEF Guarded, Earlier, Steps
  <2>6. CASE c = <<"auth", "admin">>
    BY <2>6 DEF Guarded, Earlier, Steps
  <2>7. CASE c = <<"ip", "auth", "input">>
    BY <2>7 DEF Guarded, Earlier, Steps
  <2>8. CASE c = <<"ip", "auth", "user", "input">>
    BY <2>8 DEF Guarded, Earlier, Steps
  <2> QED
    BY <2>1, <2>2, <2>3, <2>4, <2>5, <2>6, <2>7, <2>8 DEF SignedChains
<1> QED BY <1>1 DEF Site!Route, FineRoutes

LEMMA OpenRoutesFine ==
  ASSUME NEW c \in OpenChains, NEW rs \in SUBSET Refusals
  PROVE  Site!Route(c, rs) \in FineRoutes
<1>1. c \in Seq(Steps) /\ Guarded(c) /\ \A i \in DOMAIN c : c[i] # "auth"
  <2>1. CASE c = <<"optional">>
    BY <2>1 DEF Guarded, Earlier, Steps
  <2>2. CASE c = <<"input", "optional">>
    BY <2>2 DEF Guarded, Earlier, Steps
  <2>3. CASE c = <<"input">>
    BY <2>3 DEF Guarded, Earlier, Steps
  <2>4. CASE c = <<"ip", "input", "email">>
    BY <2>4 DEF Guarded, Earlier, Steps
  <2>5. CASE c = <<"ip", "input">>
    BY <2>5 DEF Guarded, Earlier, Steps
  <2> QED BY <2>1, <2>2, <2>3, <2>4, <2>5 DEF OpenChains
<1> QED BY <1>1 DEF Site!Route, FineRoutes

LEMMA TablesFine == \A t \in Site!Tables : \A p \in DOMAIN t : t[p] \in FineRoutes
<1>1. \A c \in SignedChains : \A rs \in SUBSET (Refusals \ {401}) : Site!Route(c, rs) \in FineRoutes
  BY SignedRoutesFine
<1>2. \A c \in OpenChains : \A rs \in SUBSET Refusals : Site!Route(c, rs) \in FineRoutes
  BY OpenRoutesFine
<1> HIDE DEF FineRoutes
<1>3. \A p \in DOMAIN Site!UserReads : Site!UserReads[p] \in FineRoutes
  <2>1. Site!Route(<<"auth">>, {403}) \in FineRoutes
    BY <1>1 DEF SignedChains, Refusals
  <2> QED BY <2>1 DEF Site!UserReads
<1>4. \A p \in DOMAIN Site!UserWrites : Site!UserWrites[p] \in FineRoutes
  <2>1. Site!Route(<<"auth", "input">>, {403, 409}) \in FineRoutes
    BY <1>1 DEF SignedChains, Refusals
  <2>2. Site!Route(<<"auth", "input", "ip", "user">>, {400, 403, 409}) \in FineRoutes
    BY <1>1 DEF SignedChains, Refusals
  <2>3. Site!Route(<<"auth", "ip", "user", "input">>, {400, 409}) \in FineRoutes
    BY <1>1 DEF SignedChains, Refusals
  <2> QED BY <2>1, <2>2, <2>3 DEF Site!UserWrites
<1>5. \A p \in DOMAIN Site!AdminReads : Site!AdminReads[p] \in FineRoutes
  <2>1. Site!Route(<<"auth", "admin", "input">>, {400}) \in FineRoutes
    BY <1>1 DEF SignedChains, Refusals
  <2>2. Site!Route(<<"auth", "admin", "input">>, {404}) \in FineRoutes
    BY <1>1 DEF SignedChains, Refusals
  <2>3. Site!Route(<<"auth", "admin">>, {}) \in FineRoutes
    BY <1>1 DEF SignedChains, Refusals
  <2> QED BY <2>1, <2>2, <2>3 DEF Site!AdminReads
<1>6. \A p \in DOMAIN Site!AdminWrites : Site!AdminWrites[p] \in FineRoutes
  <2>1. Site!Route(<<"auth", "admin", "input">>, {400, 404, 409}) \in FineRoutes
    BY <1>1 DEF SignedChains, Refusals
  <2> QED BY <2>1 DEF Site!AdminWrites
<1>7. \A p \in DOMAIN Site!GameReads : Site!GameReads[p] \in FineRoutes
  <2>1. Site!Route(<<"ip", "auth", "input">>, {409}) \in FineRoutes
    BY <1>1 DEF SignedChains, Refusals
  <2>2. Site!Route(<<"auth", "input">>, {404}) \in FineRoutes
    BY <1>1 DEF SignedChains, Refusals
  <2> QED BY <2>1, <2>2 DEF Site!GameReads
<1>8. \A p \in DOMAIN Site!GameSessions : Site!GameSessions[p] \in FineRoutes
  <2>1. Site!Route(<<"ip", "auth", "user", "input">>, {400, 404, 409}) \in FineRoutes
    BY <1>1 DEF SignedChains, Refusals
  <2>2. Site!Route(<<"auth", "input">>, {400}) \in FineRoutes
    BY <1>1 DEF SignedChains, Refusals
  <2> QED BY <2>1, <2>2 DEF Site!GameSessions
<1>9. \A p \in DOMAIN Site!WeakRoutes : Site!WeakRoutes[p] \in FineRoutes
  <2>1. Site!Route(<<"auth">>, {}) \in FineRoutes
    BY <1>1 DEF SignedChains, Refusals
  <2>2. Site!Route(<<"auth", "input">>, {404}) \in FineRoutes
    BY <1>1 DEF SignedChains, Refusals
  <2> QED BY <2>1, <2>2 DEF Site!WeakRoutes
<1>10. \A p \in DOMAIN Site!RankingRoutes : Site!RankingRoutes[p] \in FineRoutes
  <2>1. Site!Route(<<"optional">>, {}) \in FineRoutes
    BY <1>2 DEF OpenChains, Refusals
  <2> QED BY <2>1 DEF Site!RankingRoutes
<1>11. \A p \in DOMAIN Site!ElementRoutes : Site!ElementRoutes[p] \in FineRoutes
  <2>1. Site!Route(<<"input", "optional">>, {}) \in FineRoutes
    BY <1>2 DEF OpenChains, Refusals
  <2>2. Site!Route(<<"input">>, {404}) \in FineRoutes
    BY <1>2 DEF OpenChains, Refusals
  <2> QED BY <2>1, <2>2 DEF Site!ElementRoutes
<1>12. \A p \in DOMAIN Site!LoginRoutes : Site!LoginRoutes[p] \in FineRoutes
  <2>1. Site!Route(<<"ip", "input", "email">>, {403, 409}) \in FineRoutes
    BY <1>2 DEF OpenChains, Refusals
  <2>2. Site!Route(<<"input">>, {400, 404}) \in FineRoutes
    BY <1>2 DEF OpenChains, Refusals
  <2>3. Site!Route(<<"ip", "input", "email">>, {401, 403, 409, 503}) \in FineRoutes
    BY <1>2 DEF OpenChains, Refusals
  <2> QED BY <2>1, <2>2, <2>3 DEF Site!LoginRoutes
<1>13. \A p \in DOMAIN Site!PasswordRoutes : Site!PasswordRoutes[p] \in FineRoutes
  <2>1. Site!Route(<<"ip", "input", "email">>, {}) \in FineRoutes
    BY <1>2 DEF OpenChains, Refusals
  <2>2. Site!Route(<<"ip", "input">>, {400, 404}) \in FineRoutes
    BY <1>2 DEF OpenChains, Refusals
  <2> QED BY <2>1, <2>2 DEF Site!PasswordRoutes
<1> QED
  BY <1>3, <1>4, <1>5, <1>6, <1>7, <1>8, <1>9, <1>10, <1>11, <1>12, <1>13 DEF Site!Tables

(* The general limit goes before the chain of a table. *)
LEMMA GeneralFirst ==
  ASSUME NEW c \in Seq(Steps), Guarded(c)
  PROVE  /\ <<"ip">> \o c \in Seq(Steps) /\ Guarded(<<"ip">> \o c)
         /\ \A i \in DOMAIN (<<"ip">> \o c) : (<<"ip">> \o c)[i] # "ip" =>
              i # 1 /\ i - 1 \in DOMAIN c /\ (<<"ip">> \o c)[i] = c[i - 1]
<1> DEFINE d == <<"ip">> \o c
<1>1. <<"ip">> \in Seq(Steps) /\ Len(<<"ip">>) = 1 /\ <<"ip">>[1] = "ip"
  BY DEF Steps
<1>2. d \in Seq(Steps) /\ Len(d) = Len(c) + 1 /\ DOMAIN d = 1 .. (Len(c) + 1)
  BY <1>1
<1>3. d[1] = "ip" /\ \A i \in 1 .. Len(c) : d[i + 1] = c[i]
  BY <1>1, <1>2
<1>4. \A i \in DOMAIN d : d[i] # "ip" => i # 1 /\ i - 1 \in DOMAIN c /\ d[i] = c[i - 1]
  <2> TAKE i \in DOMAIN d
  <2> HAVE d[i] # "ip"
  <2>1. i \in 1 .. (Len(c) + 1) /\ i # 1
    BY <1>2, <1>3
  <2>2. i - 1 \in 1 .. Len(c) /\ (i - 1) + 1 = i
    BY <2>1
  <2>3. d[(i - 1) + 1] = c[i - 1]
    BY <1>3, <2>2
  <2> QED BY <2>1, <2>2, <2>3
<1> HIDE DEF d
<1>5. \A i \in DOMAIN c : i + 1 \in DOMAIN d /\ d[i + 1] = c[i]
  BY <1>2, <1>3
<1>6. \A i \in DOMAIN d, s \in Steps :
        i # 1 /\ i - 1 \in DOMAIN c /\ Earlier(c, i - 1, s) => Earlier(d, i, s)
  <2> TAKE i \in DOMAIN d, s \in Steps
  <2> HAVE i # 1 /\ i - 1 \in DOMAIN c /\ Earlier(c, i - 1, s)
  <2>1. PICK j \in 1 .. (i - 2) : c[j] = s
    BY <1>2 DEF Earlier
  <2>2. j \in DOMAIN c /\ j + 1 \in 1 .. (i - 1) /\ i \in Int
    BY <1>2, <2>1
  <2> QED BY <1>5, <2>1, <2>2 DEF Earlier
<1>7. Guarded(d)
  <2> SUFFICES ASSUME NEW i \in DOMAIN d
               PROVE  /\ d[i] \in {"user", "admin"} => Earlier(d, i, "auth")
                      /\ d[i] = "email" => Earlier(d, i, "input")
                      /\ d[i] = "auth" => \A j \in DOMAIN d :
                           d[j] # "optional" /\ (d[j] = "auth" => j = i)
    BY DEF Guarded
  <2>1. ASSUME d[i] \in {"user", "admin"}
        PROVE  Earlier(d, i, "auth")
    <3>1. i # 1 /\ i - 1 \in DOMAIN c /\ d[i] = c[i - 1]
      BY <1>4, <2>1
    <3>2. Earlier(c, i - 1, "auth")
      BY <2>1, <3>1 DEF Guarded
    <3> QED BY <1>6, <3>1, <3>2 DEF Steps
  <2>2. ASSUME d[i] = "email"
        PROVE  Earlier(d, i, "input")
    <3>1. i # 1 /\ i - 1 \in DOMAIN c /\ d[i] = c[i - 1]
      BY <1>4, <2>2
    <3>2. Earlier(c, i - 1, "input")
      BY <2>2, <3>1 DEF Guarded
    <3> QED BY <1>6, <3>1, <3>2 DEF Steps
  <2>3. ASSUME d[i] = "auth", NEW j \in DOMAIN d
        PROVE  d[j] # "optional" /\ (d[j] = "auth" => j = i)
    <3>1. i # 1 /\ i - 1 \in DOMAIN c /\ c[i - 1] = "auth"
      BY <1>4, <2>3
    <3>2. \A k \in DOMAIN c : c[k] # "optional" /\ (c[k] = "auth" => k = i - 1)
      BY <3>1 DEF Guarded
    <3>3. i \in Int /\ j \in Int
      BY <1>2
    <3>4. CASE d[j] \in {"optional", "auth"}
      <4>1. j - 1 \in DOMAIN c /\ d[j] = c[j - 1]
        BY <1>4, <3>4
      <4> QED BY <3>2, <3>3, <4>1
    <3> QED BY <3>4
  <2> QED BY <2>1, <2>2, <2>3
<1> QED BY <1>2, <1>4, <1>7 DEF d

LEMMA RoutesFine ==
  ASSUME NEW p \in Site!Endpoints
  PROVE  Site!ApiRoutes[p] \in FineRoutes
<1>1. Site!ApiRoutes[p] = Site!Route(<<"ip">> \o Site!RouteOf(p).chain, Site!RouteOf(p).refusals)
  BY DEF Site!ApiRoutes
<1>2. \E t \in Site!Tables : p \in DOMAIN t
  BY DEF Site!Endpoints
<1>3. Site!RouteOf(p) \in FineRoutes
  BY <1>2, TablesFine DEF Site!RouteOf
<1> DEFINE c == Site!RouteOf(p).chain
           rs == Site!RouteOf(p).refusals
           d == <<"ip">> \o c
<1>4. c \in Seq(Steps) /\ Guarded(c) /\ rs \in SUBSET Refusals
  BY <1>3 DEF FineRoutes
<1>5. 401 \in rs => \A i \in DOMAIN c : c[i] # "auth"
  BY <1>3 DEF FineRoutes
<1> HIDE DEF c, rs
<1>6. /\ d \in Seq(Steps) /\ Guarded(d)
      /\ \A i \in DOMAIN d : d[i] # "ip" => i - 1 \in DOMAIN c /\ d[i] = c[i - 1]
  BY <1>4, GeneralFirst
<1>7. 401 \in rs => \A i \in DOMAIN d : d[i] # "auth"
  BY <1>5, <1>6
<1> HIDE DEF d
<1>8. Site!Route(d, rs) \in FineRoutes
  BY <1>4, <1>6, <1>7 DEF FineRoutes, Site!Route
<1> QED BY <1>1, <1>8 DEF c, rs, d

(* What holds of a call where it is. *)
Statuses == {200, 400, 401, 403, 404, 409, 429, 500, 503}

CallRows ==
  [endpoint : Site!Endpoints, at : {"server", "answered", "refreshing", "told"},
   attempt : {1, 2}, token : {"none", "bad", "good"}, step : Nat,
   user : {None, "user", "admin"}, valid : BOOLEAN, blind : {FALSE},
   status : Statuses \cup {0}, done : {0, 1}, told : Nat]

ChainOf(row) == Site!ApiRoutes[row.endpoint].chain
Asks(row, s) == \E i \in DOMAIN ChainOf(row) : ChainOf(row)[i] = s
Passed(row, s) == \E i \in 1 .. (row.step - 1) : ChainOf(row)[i] = s

AtServer(row) ==
  /\ row.done = 0 /\ row.told = 0 /\ row.step \in 1 .. (Len(ChainOf(row)) + 1)
  /\ Passed(row, "auth") => row.user # None
  /\ Asks(row, "auth") /\ ~Passed(row, "auth") => row.user = None
  /\ Passed(row, "input") => row.valid
  /\ Passed(row, "admin") => row.user = "admin"

Answered(row) ==
  /\ row.told = 0 /\ row.status \in Statuses
  /\ row.status = 401 /\ Asks(row, "auth") => row.user = None
  /\ row.status = 200 /\ row.endpoint # "forgot" => row.done = 1
  /\ row.status \notin {200, 500} => row.done = 0
  /\ Asks(row, "admin") /\ row.done > 0 => row.user = "admin"

ToldTrulyOf(row) ==
  /\ row.told = 200 /\ row.endpoint # "forgot" => row.done = 1
  /\ row.told \in {400, 401, 403, 404, 409, 429} => row.done = 0
  /\ row.told = 401 /\ Asks(row, "auth") => row.user = None
  /\ Asks(row, "admin") /\ row.done > 0 => row.user = "admin"

CallFine(row) ==
  /\ row \in CallRows
  /\ row.at = "server" => AtServer(row)
  /\ row.at = "answered" => Answered(row)
  /\ row.at = "refreshing" => row.done = 0 /\ row.user = None /\ row.told = 0
  /\ row.at = "told" => ToldTrulyOf(row)

SiteInv ==
  /\ apiAccount \in Site!Accounts
  /\ apiCall = Site!NoCall \/ CallFine(apiCall)

LEMMA FineIsTold ==
  ASSUME Site!ApiAssumption, SiteInv
  PROVE  Site!ToldTruly
<1>1. CASE apiCall = Site!NoCall
  BY <1>1 DEF Site!ToldTruly, Site!NoCall
<1>2. CASE CallFine(apiCall)
  <2>1. ASSUME NEW s
        PROVE  Site!Needs(s) <=> Asks(apiCall, s)
    BY DEF Site!Needs, Site!ToSet, Site!Chain, Asks, ChainOf
  <2>2. apiCall.at \in {"server", "answered", "refreshing"} => apiCall.told = 0 /\
          (Asks(apiCall, "admin") /\ apiCall.done > 0 => apiCall.user = "admin")
    BY <1>2 DEF CallFine, AtServer, Answered, CallRows
  <2>3. apiCall \in CallRows
    BY <1>2 DEF CallFine
  <2>4. ToldTrulyOf(apiCall)
    BY <1>2, <2>2, <2>3 DEF CallFine, CallRows, ToldTrulyOf
  <2>5. apiCall.done \in {0, 1} /\ ~apiCall.blind
    BY <2>3 DEF CallRows
  <2>6. /\ Site!Needs("auth") <=> Asks(apiCall, "auth")
        /\ Site!Needs("admin") <=> Asks(apiCall, "admin")
    BY <2>1
  <2> QED BY <2>4, <2>5, <2>6 DEF Site!ToldTruly, ToldTrulyOf, Site!Ok
<1> QED BY <1>1, <1>2 DEF SiteInv

LEMMA ChainFine ==
  ASSUME NEW row \in CallRows
  PROVE  /\ ChainOf(row) \in Seq(Steps) /\ Guarded(ChainOf(row))
         /\ Site!ApiRoutes[row.endpoint].refusals \subseteq Refusals
         /\ 401 \in Site!ApiRoutes[row.endpoint].refusals => ~Asks(row, "auth")
<1>1. row.endpoint \in Site!Endpoints
  BY DEF CallRows
<1>2. Site!ApiRoutes[row.endpoint] \in FineRoutes
  BY <1>1, RoutesFine
<1> QED BY <1>2 DEF FineRoutes, ChainOf, Asks

(* A step that answers in the handler's place. *)
LEMMA AnswersFine ==
  ASSUME CallFine(apiCall), apiCall.at = "server", NEW status \in Statuses \ {200},
         Site!Answers(status),
         status = 401 /\ Asks(apiCall, "auth") => apiCall.user = None
  PROVE  CallFine(apiCall')
<1>1. apiCall \in CallRows /\ AtServer(apiCall)
  BY DEF CallFine
<1>2. /\ apiCall' \in CallRows /\ apiCall'.at = "answered" /\ apiCall'.status = status
      /\ apiCall'.endpoint = apiCall.endpoint /\ apiCall'.told = 0 /\ apiCall'.done = 0
      /\ apiCall'.user = apiCall.user
  BY <1>1 DEF Site!Answers, CallRows, AtServer
<1>3. Asks(apiCall', "auth") <=> Asks(apiCall, "auth")
  BY <1>2 DEF Asks, ChainOf
<1>4. Answered(apiCall')
  BY <1>2, <1>3 DEF Answered
<1> QED BY <1>2, <1>4 DEF CallFine

(* A step that is passed with the call changed. *)
LEMMA PassesFine ==
  ASSUME CallFine(apiCall), apiCall.at = "server", apiCall.step <= Len(ChainOf(apiCall)),
         NEW user \in {None, "user", "admin"}, NEW valid \in BOOLEAN, NEW row,
         row = [apiCall EXCEPT !.user = user, !.valid = valid],
         Site!Passes(row),
         LET s == ChainOf(apiCall)[apiCall.step]
         IN /\ s = "auth" => user # None
            /\ s # "auth" /\ Asks(apiCall, "auth") => user = apiCall.user
            /\ s = "input" => valid
            /\ apiCall.valid => valid
            /\ s = "admin" => user = "admin"
            /\ Passed(apiCall, "admin") => user = "admin"
  PROVE  CallFine(apiCall')
<1> DEFINE s == ChainOf(apiCall)[apiCall.step]
<1>1. apiCall \in CallRows /\ AtServer(apiCall)
  BY DEF CallFine
<1>2. /\ apiCall' \in CallRows /\ apiCall'.at = "server" /\ apiCall'.step = apiCall.step + 1
      /\ apiCall'.endpoint = apiCall.endpoint /\ apiCall'.told = 0 /\ apiCall'.done = 0
      /\ apiCall'.user = user /\ apiCall'.valid = valid
  <2>1. /\ row \in CallRows /\ row.at = "server" /\ row.step = apiCall.step
        /\ row.endpoint = apiCall.endpoint /\ row.told = 0 /\ row.done = 0
        /\ row.user = user /\ row.valid = valid
    BY <1>1 DEF CallRows, AtServer
  <2>2. apiCall' = [row EXCEPT !.step = row.step + 1]
    BY DEF Site!Passes
  <2>3. row.step \in Nat /\ row.step + 1 \in Nat
    <3>1. \A r \in CallRows : r.step \in Nat
      BY DEF CallRows
    <3>2. row.step \in Nat
      BY <2>1, <3>1
    <3>3. \A n \in Nat : n + 1 \in Nat
      OBVIOUS
    <3> QED BY <3>2, <3>3
  <2>4. apiCall' \in CallRows
    BY <2>1, <2>2, <2>3, ZenonT(40) DEF CallRows
  <2>5. /\ apiCall'.at = row.at /\ apiCall'.step = row.step + 1
        /\ apiCall'.endpoint = row.endpoint /\ apiCall'.told = row.told
        /\ apiCall'.done = row.done /\ apiCall'.user = row.user /\ apiCall'.valid = row.valid
    BY <2>1, <2>2 DEF CallRows
  <2> QED BY <2>1, <2>4, <2>5
<1>3. ChainOf(apiCall') = ChainOf(apiCall)
  BY <1>2 DEF ChainOf
<1>4. ChainOf(apiCall) \in Seq(Steps) /\ apiCall.step \in 1 .. Len(ChainOf(apiCall))
  <2>1. ChainOf(apiCall) \in Seq(Steps)
    BY <1>1, ChainFine
  <2>2. apiCall.step \in 1 .. (Len(ChainOf(apiCall)) + 1)
    BY <1>1 DEF AtServer
  <2> QED BY <2>1, <2>2
<1>5. \A t : Passed(apiCall', t) <=> Passed(apiCall, t) \/ s = t
  <2>1. 1 .. (apiCall'.step - 1) = (1 .. (apiCall.step - 1)) \cup {apiCall.step}
    BY <1>2, <1>4
  <2> QED BY <1>3, <2>1 DEF Passed
<1>6. \A t : Asks(apiCall', t) <=> Asks(apiCall, t)
  BY <1>3 DEF Asks
<1>7. apiCall'.step \in 1 .. (Len(ChainOf(apiCall')) + 1)
  BY <1>2, <1>3, <1>4
<1> HIDE DEF s
<1>8. Passed(apiCall', "auth") => user # None
  <2>1. CASE s = "auth"
    BY <2>1 DEF s
  <2>2. CASE s # "auth" /\ Passed(apiCall, "auth")
    <3>1. Asks(apiCall, "auth")
      BY <1>4, <2>2 DEF Passed, Asks
    <3> QED BY <1>1, <2>2, <3>1 DEF AtServer, s
  <2> QED BY <1>5, <2>1, <2>2
<1>9. Asks(apiCall', "auth") /\ ~Passed(apiCall', "auth") => user = None
  BY <1>1, <1>5, <1>6 DEF AtServer, s
<1>10. Passed(apiCall', "input") => valid
  BY <1>1, <1>5 DEF AtServer, s
<1>11. Passed(apiCall', "admin") => user = "admin"
  BY <1>1, <1>5 DEF AtServer, s
<1>12. AtServer(apiCall')
  BY <1>2, <1>7, <1>8, <1>9, <1>10, <1>11 DEF AtServer
<1> QED BY <1>2, <1>12 DEF CallFine

(* The middlewares, one by one. *)
LEMMA MiddlewareFine ==
  ASSUME Site!ApiAssumption, CallFine(apiCall), apiAccount \in Site!Accounts, Site!Middleware
  PROVE  CallFine(apiCall')
<1> DEFINE s == ChainOf(apiCall)[apiCall.step]
<1>1. apiCall \in CallRows /\ AtServer(apiCall) /\ apiCall.at = "server"
  BY DEF CallFine, Site!Middleware
<1>2. Site!Chain = ChainOf(apiCall)
  BY DEF Site!Chain, ChainOf
<1>3. ChainOf(apiCall) \in Seq(Steps) /\ Guarded(ChainOf(apiCall))
  BY <1>1, ChainFine
<1>4. apiCall.step \in DOMAIN ChainOf(apiCall) /\ apiCall.step <= Len(ChainOf(apiCall))
  <2>1. apiCall.step <= Len(ChainOf(apiCall))
    BY <1>2 DEF Site!Middleware
  <2>2. apiCall.step \in 1 .. (Len(ChainOf(apiCall)) + 1)
    BY <1>1 DEF AtServer
  <2> QED BY <1>3, <2>1, <2>2
<1>5. \A t : Earlier(ChainOf(apiCall), apiCall.step, t) <=> Passed(apiCall, t)
  BY DEF Earlier, Passed
<1>6. /\ s \in {"user", "admin"} => Passed(apiCall, "auth")
      /\ s = "email" => Passed(apiCall, "input")
      /\ s = "auth" => \A j \in DOMAIN ChainOf(apiCall) :
           ChainOf(apiCall)[j] # "optional" /\ (ChainOf(apiCall)[j] = "auth" => j = apiCall.step)
  BY <1>3, <1>4, <1>5 DEF Guarded
<1>7. s = "optional" => ~Asks(apiCall, "auth")
  BY <1>3, <1>4 DEF Guarded, Asks
<1>8. s = "auth" => Asks(apiCall, "auth") /\ ~Passed(apiCall, "auth")
  BY <1>3, <1>4, <1>6 DEF Asks, Passed
<1>9. /\ apiCall.user \in {None, "user", "admin"} /\ apiCall.valid \in BOOLEAN
      /\ apiCall.blind = FALSE /\ apiCall.token \in {"none", "bad", "good"}
      /\ Passed(apiCall, "admin") => apiCall.user = "admin"
      /\ Passed(apiCall, "auth") => apiCall.user # None
      /\ Passed(apiCall, "input") => apiCall.valid
      /\ Asks(apiCall, "auth") /\ ~Passed(apiCall, "auth") => apiCall.user = None
  BY <1>1 DEF CallRows, AtServer
<1>10. apiCall = [apiCall EXCEPT !.user = apiCall.user, !.valid = apiCall.valid]
  BY <1>1 DEF CallRows
<1>11. Passed(apiCall, "admin") => Passed(apiCall, "auth")
  <2> SUFFICES ASSUME NEW i \in 1 .. (apiCall.step - 1), ChainOf(apiCall)[i] = "admin"
               PROVE  Passed(apiCall, "auth")
    BY DEF Passed
  <2>1. i \in DOMAIN ChainOf(apiCall)
    BY <1>3, <1>4
  <2>2. PICK j \in 1 .. (i - 1) : ChainOf(apiCall)[j] = "auth"
    BY <1>3, <2>1 DEF Guarded, Earlier
  <2>3. j \in 1 .. (apiCall.step - 1)
    BY <1>3, <1>4
  <2> QED BY <2>2, <2>3 DEF Passed
<1> HIDE DEF s
<1>12. ASSUME Site!Passes(apiCall),
              s = "auth" => apiCall.user # None,
              s = "input" => apiCall.valid,
              s = "admin" => apiCall.user = "admin"
       PROVE  CallFine(apiCall')
  BY <1>1, <1>4, <1>9, <1>10, <1>12, PassesFine DEF s
<1>13. ASSUME NEW status \in Statuses \ {200}, Site!Answers(status),
              status = 401 /\ Asks(apiCall, "auth") => apiCall.user = None
       PROVE  CallFine(apiCall')
  BY <1>1, <1>13, AnswersFine
<1>14. ASSUME s = "auth", Site!Auth
       PROVE  CallFine(apiCall')
  <2>1. apiCall.user = None /\ ~Passed(apiCall, "admin")
    BY <1>8, <1>9, <1>11, <1>14
  <2>2. CASE Site!Answers(401)
    BY <1>13, <2>1, <2>2 DEF Statuses
  <2>3. CASE Site!Answers(403)
    BY <1>13, <2>3 DEF Statuses
  <2>4. CASE apiAccount \in {"user", "admin"} /\ Site!Passes(Site!Identified)
    <3>1. Site!Identified = [apiCall EXCEPT !.user = apiAccount, !.valid = apiCall.valid]
      BY <1>1 DEF Site!Identified, CallRows
    <3>2. apiAccount # None
      BY <2>4 DEF Site!ApiAssumption
    <3> QED BY <1>1, <1>4, <1>9, <1>14, <2>1, <2>4, <3>1, <3>2, PassesFine DEF s
  <2> QED BY <1>14, <2>2, <2>3, <2>4 DEF Site!Auth
<1>15. ASSUME s = "optional", Site!OptionalAuth
       PROVE  CallFine(apiCall')
  <2>1. CASE Site!Answers(401)
    BY <1>7, <1>13, <1>15, <2>1 DEF Statuses
  <2>2. CASE Site!Passes(apiCall)
    BY <1>12, <1>15, <2>2
  <2>3. CASE apiAccount \in {"user", "admin"} /\ Site!Passes(Site!Identified)
    <3>1. Site!Identified = [apiCall EXCEPT !.user = apiAccount, !.valid = apiCall.valid]
      BY <1>1 DEF Site!Identified, CallRows
    <3>2. ~Asks(apiCall, "auth") /\ ~Passed(apiCall, "auth") /\ ~Passed(apiCall, "admin")
      <4>1. Passed(apiCall, "auth") => Asks(apiCall, "auth")
        BY <1>3, <1>4 DEF Passed, Asks
      <4> QED BY <1>7, <1>11, <1>15, <4>1
    <3> QED BY <1>1, <1>4, <1>9, <1>15, <2>3, <3>1, <3>2, PassesFine DEF s
  <2> QED BY <1>15, <2>1, <2>2, <2>3 DEF Site!OptionalAuth
<1>16. ASSUME s = "admin", Site!Admin
       PROVE  CallFine(apiCall')
  <2>1. CASE apiCall.user = None /\ Site!Answers(401)
    BY <1>13, <2>1 DEF Statuses
  <2>2. CASE Site!Answers(403)
    BY <1>13, <2>2 DEF Statuses
  <2>3. CASE apiCall.user = "admin" /\ Site!Passes(apiCall)
    BY <1>12, <1>16, <2>3
  <2> QED BY <1>16, <2>1, <2>2, <2>3 DEF Site!Admin
<1>17. ASSUME s = "input", Site!Input
       PROVE  CallFine(apiCall')
  <2>1. CASE Site!Answers(400)
    BY <1>13, <2>1 DEF Statuses
  <2>2. CASE Site!Passes([apiCall EXCEPT !.valid = TRUE])
    <3>1. [apiCall EXCEPT !.valid = TRUE] = [apiCall EXCEPT !.user = apiCall.user, !.valid = TRUE]
      BY <1>1 DEF CallRows
    <3> QED BY <1>1, <1>4, <1>9, <1>17, <2>2, <3>1, PassesFine DEF s
  <2> QED BY <1>17, <2>1, <2>2 DEF Site!Input
<1>18. ASSUME NEW known \in BOOLEAN, known, Site!Limiter(known), s \in {"ip", "user", "email"}
       PROVE  CallFine(apiCall')
  <2>1. CASE Site!Answers(429)
    BY <1>13, <2>1 DEF Statuses
  <2>2. CASE Site!Answers(503)
    BY <1>13, <2>2 DEF Statuses
  <2>3. CASE Site!Passes([apiCall EXCEPT !.blind = apiCall.blind \/ ~known])
    <3>1. [apiCall EXCEPT !.blind = apiCall.blind \/ ~known] = apiCall
      BY <1>1, <1>9, <1>18 DEF CallRows
    <3> QED BY <1>12, <1>18, <2>3, <3>1
  <2> QED BY <1>18, <2>1, <2>2, <2>3 DEF Site!Limiter
<1>19. \/ s = "auth" /\ Site!Auth
       \/ s = "optional" /\ Site!OptionalAuth
       \/ s = "admin" /\ Site!Admin
       \/ s = "input" /\ Site!Input
       \/ s = "ip" /\ Site!Limiter(TRUE)
       \/ s = "user" /\ Site!Limiter(apiCall.user # None)
       \/ s = "email" /\ Site!Limiter(apiCall.valid)
  BY <1>2 DEF Site!Middleware, s
<1>20. CASE s = "user" /\ Site!Limiter(apiCall.user # None)
  BY <1>6, <1>9, <1>18, <1>20 DEF s
<1>21. CASE s = "email" /\ Site!Limiter(apiCall.valid)
  BY <1>6, <1>9, <1>18, <1>21 DEF s
<1> QED BY <1>14, <1>15, <1>16, <1>17, <1>18, <1>19, <1>20, <1>21

(* The call as it was sent, or sent again. *)
LEMMA StartsFine ==
  ASSUME apiCall' \in CallRows, apiCall'.at = "server", apiCall'.step = 1,
         apiCall'.done = 0, apiCall'.told = 0, apiCall'.user = None
  PROVE  CallFine(apiCall')
<1>1. ChainOf(apiCall') \in Seq(Steps)
  BY ChainFine
<1>2. 1 \in 1 .. (Len(ChainOf(apiCall')) + 1)
  BY <1>1
<1>3. \A t : ~Passed(apiCall', t)
  BY DEF Passed
<1> QED BY <1>2, <1>3 DEF CallFine, AtServer

LEMMA SendFine ==
  ASSUME NEW endpoint \in Site!Endpoints, NEW token \in {"none", "bad", "good"},
         Site!Send(endpoint, token)
  PROVE  CallFine(apiCall')
<1>1. apiCall' = [Site!NoCall EXCEPT !.endpoint = endpoint, !.token = token, !.attempt = 1,
                                     !.step = 1, !.at = "server"]
  BY DEF Site!Send
<1>2. /\ apiCall' \in CallRows /\ apiCall'.at = "server" /\ apiCall'.step = 1
      /\ apiCall'.done = 0 /\ apiCall'.told = 0 /\ apiCall'.user = None
  BY <1>1 DEF Site!NoCall, CallRows
<1> QED BY <1>2, StartsFine

LEMMA RefreshedFine ==
  ASSUME CallFine(apiCall), Site!Refreshed
  PROVE  CallFine(apiCall')
<1>1. apiCall \in CallRows /\ apiCall.done = 0 /\ apiCall.user = None /\ apiCall.told = 0
  BY DEF CallFine, Site!Refreshed
<1>2. ASSUME NEW token \in {"good", "bad"},
             apiCall' = [apiCall EXCEPT !.at = "server", !.attempt = 2, !.token = token, !.step = 1,
                                        !.user = None, !.valid = FALSE]
      PROVE  CallFine(apiCall')
  <2>1. /\ apiCall' \in CallRows /\ apiCall'.at = "server" /\ apiCall'.step = 1
        /\ apiCall'.done = 0 /\ apiCall'.told = 0 /\ apiCall'.user = None
    BY <1>1, <1>2 DEF CallRows
  <2> QED BY <2>1, StartsFine
<1>3. ASSUME NEW what \in {401, 503}, Site!Tell(what)
      PROVE  CallFine(apiCall')
  <2>0. what \in Nat
    BY <1>3
  <2>1. /\ apiCall' \in CallRows /\ apiCall'.at = "told" /\ apiCall'.done = 0
        /\ apiCall'.user = None /\ apiCall'.told = what
    BY <1>1, <1>3, <2>0 DEF Site!Tell, CallRows
  <2> QED BY <2>1 DEF CallFine, ToldTrulyOf
<1> QED BY <1>2, <1>3 DEF Site!Refreshed

LEMMA ServiceFine ==
  ASSUME CallFine(apiCall), Site!Service
  PROVE  CallFine(apiCall')
<1>1. apiCall \in CallRows /\ AtServer(apiCall) /\ apiCall.at = "server"
  BY DEF CallFine, Site!Service
<1>2. ChainOf(apiCall) \in Seq(Steps) /\ Guarded(ChainOf(apiCall))
  BY <1>1, ChainFine
<1>3. apiCall.step = Len(ChainOf(apiCall)) + 1
  <2>1. apiCall.step > Len(ChainOf(apiCall))
    BY DEF Site!Service, Site!Chain, ChainOf
  <2>2. apiCall.step \in 1 .. (Len(ChainOf(apiCall)) + 1)
    BY <1>1 DEF AtServer
  <2> QED BY <1>2, <2>1, <2>2
<1>4. \A t : Asks(apiCall, t) <=> Passed(apiCall, t)
  <2>1. DOMAIN ChainOf(apiCall) = 1 .. (apiCall.step - 1)
    BY <1>2, <1>3
  <2> QED BY <2>1 DEF Asks, Passed
<1>5. Asks(apiCall, "admin") => apiCall.user = "admin"
  BY <1>1, <1>4 DEF AtServer
<1>6. apiCall.done = 0 /\ apiCall.told = 0 /\ apiCall.endpoint \in Site!Endpoints
  BY <1>1 DEF AtServer, CallRows
<1>7. ASSUME NEW status \in {200, 500},
             apiCall' = [apiCall EXCEPT !.at = "answered", !.status = status,
                                        !.done = apiCall.done + 1]
      PROVE  CallFine(apiCall')
  <2>1. apiCall' = [apiCall EXCEPT !.at = "answered", !.status = status, !.done = 1]
    BY <1>6, <1>7
  <2>2. status \in Statuses
    BY <1>7 DEF Statuses
  <2>3. apiCall' \in CallRows
    BY <1>1, <2>1, <2>2 DEF CallRows
  <2>4. /\ apiCall'.at = "answered" /\ apiCall'.status = status
        /\ apiCall'.endpoint = apiCall.endpoint /\ apiCall'.told = 0 /\ apiCall'.done = 1
        /\ apiCall'.user = apiCall.user
    BY <1>1, <1>6, <2>1 DEF CallRows
  <2>5. Asks(apiCall', "admin") => apiCall'.user = "admin"
    BY <1>5, <2>4 DEF Asks, ChainOf
  <2>6. Answered(apiCall')
    BY <1>7, <2>4, <2>5 DEF Answered, Statuses
  <2> QED BY <2>3, <2>4, <2>6 DEF CallFine
<1>8. ASSUME NEW status \in Site!ApiRoutes[apiCall.endpoint].refusals, Site!Answers(status)
      PROVE  CallFine(apiCall')
  <2>1. status \in Refusals /\ (status = 401 => ~Asks(apiCall, "auth"))
    BY <1>1, <1>8, ChainFine
  <2>2. status \in Statuses \ {200}
    BY <2>1 DEF Refusals, Statuses
  <2> QED BY <1>1, <1>8, <2>1, <2>2, AnswersFine
<1>9. ASSUME Site!Answers(500)
      PROVE  CallFine(apiCall')
  BY <1>1, <1>9, AnswersFine DEF Statuses
<1>10. ASSUME apiCall.endpoint = "forgot", Site!Answers(200)
       PROVE  CallFine(apiCall')
  <2>1. 200 \in Statuses
    BY DEF Statuses
  <2>2. apiCall' \in CallRows
    BY <1>1, <1>10, <2>1 DEF Site!Answers, CallRows
  <2>3. /\ apiCall'.at = "answered" /\ apiCall'.status = 200
        /\ apiCall'.endpoint = "forgot" /\ apiCall'.told = 0 /\ apiCall'.done = 0
    BY <1>1, <1>6, <1>10 DEF Site!Answers, CallRows
  <2>4. Answered(apiCall')
    BY <2>3 DEF Answered, Statuses
  <2> QED BY <2>2, <2>3, <2>4 DEF CallFine
<1>11. \/ apiCall' = [apiCall EXCEPT !.at = "answered", !.status = 200, !.done = apiCall.done + 1]
       \/ \E status \in Site!ApiRoutes[apiCall.endpoint].refusals : Site!Answers(status)
       \/ Site!Answers(500)
       \/ apiCall' = [apiCall EXCEPT !.at = "answered", !.status = 500, !.done = apiCall.done + 1]
       \/ apiCall.endpoint = "forgot" /\ Site!Answers(200)
  BY DEF Site!Service, Site!Ok
<1> QED BY <1>7, <1>8, <1>9, <1>10, <1>11

(* What the page is told; a lost answer tells it nothing of the work. *)
LEMMA TellsFine ==
  ASSUME CallFine(apiCall), apiCall.at \in {"server", "answered"}, NEW what \in Nat, Site!Tell(what),
         what \in {0, 500, 502, 503} \/ (apiCall.at = "answered" /\ what = apiCall.status)
  PROVE  CallFine(apiCall')
<1>1. apiCall \in CallRows
  BY DEF CallFine
<1>2. /\ apiCall' \in CallRows /\ apiCall'.at = "told" /\ apiCall'.told = what
      /\ apiCall'.endpoint = apiCall.endpoint /\ apiCall'.done = apiCall.done
      /\ apiCall'.user = apiCall.user
  BY <1>1 DEF Site!Tell, CallRows
<1>3. \A t : Asks(apiCall', t) <=> Asks(apiCall, t)
  BY <1>2 DEF Asks, ChainOf
<1>4. apiCall.at = "server" => apiCall.done = 0
  BY DEF CallFine, AtServer
<1>5. apiCall.at = "answered" => Answered(apiCall)
  BY DEF CallFine
<1>6. Asks(apiCall', "admin") /\ apiCall'.done > 0 => apiCall'.user = "admin"
  BY <1>2, <1>3, <1>4, <1>5 DEF Answered
<1>7. ToldTrulyOf(apiCall')
  <2>1. CASE what \in {0, 500, 502, 503}
    BY <1>2, <1>6, <2>1 DEF ToldTrulyOf
  <2>2. CASE apiCall.at = "answered" /\ what = apiCall.status
    BY <1>2, <1>3, <1>5, <1>6, <2>2 DEF ToldTrulyOf, Answered
  <2> QED BY <2>1, <2>2
<1> QED BY <1>2, <1>7 DEF CallFine

LEMMA ErrorAnswerFine ==
  ASSUME CallFine(apiCall), Site!ErrorAnswer
  PROVE  CallFine(apiCall')
<1>1. apiCall \in CallRows /\ apiCall.at = "answered" /\ Answered(apiCall) /\ apiCall.status # 200
  BY DEF CallFine, Site!ErrorAnswer, Site!Ok
<1>2. CASE apiCall.status = 401 /\ Site!Reauthenticates /\ apiCall.attempt = 1
  <2>1. apiCall' = [apiCall EXCEPT !.at = "refreshing"]
    BY <1>2 DEF Site!ErrorAnswer
  <2>2. Asks(apiCall, "admin")
    BY <1>2 DEF Site!Reauthenticates, Site!Needs, Site!ToSet, Site!Chain, Asks, ChainOf
  <2>3. Guarded(ChainOf(apiCall)) /\ ChainOf(apiCall) \in Seq(Steps)
    BY <1>1, ChainFine
  <2>4. Asks(apiCall, "auth")
    <3>1. PICK i \in DOMAIN ChainOf(apiCall) : ChainOf(apiCall)[i] = "admin"
      BY <2>2 DEF Asks
    <3>2. PICK j \in 1 .. (i - 1) : ChainOf(apiCall)[j] = "auth"
      BY <2>3, <3>1 DEF Guarded, Earlier
    <3>3. j \in DOMAIN ChainOf(apiCall)
      BY <2>3
    <3> QED BY <3>2, <3>3 DEF Asks
  <2>5. apiCall.user = None /\ apiCall.done = 0 /\ apiCall.told = 0
    BY <1>1, <1>2, <2>4 DEF Answered
  <2>6. /\ apiCall' \in CallRows /\ apiCall'.at = "refreshing" /\ apiCall'.done = 0
        /\ apiCall'.user = None /\ apiCall'.told = 0
    BY <1>1, <2>1, <2>5 DEF CallRows
  <2> QED BY <2>6 DEF CallFine
<1>3. CASE Site!Tell(apiCall.status)
  <2>1. apiCall.status \in Nat
    BY <1>1 DEF Answered, Statuses
  <2> QED BY <1>1, <1>3, <2>1, TellsFine
<1> QED BY <1>2, <1>3 DEF Site!ErrorAnswer

LEMMA GarbledAnswers ==
  ASSUME NEW p \in Site!Endpoints
  PROVE  Site!Clients[p].garbled \subseteq {0, 500, 502}
<1>1. \A table \in Site!ClientTables : \A q \in DOMAIN table : table[q].garbled \subseteq {0, 500, 502}
  BY DEF Site!ClientTables, Site!StatsClient, Site!UsersClient, Site!AdminClient, Site!GameClient,
         Site!HistoryClient, Site!WeakClient, Site!RankingClient, Site!ElementsClient,
         Site!SignInForms, Site!Client, Site!NoStatus
<1> DEFINE told == UNION {DOMAIN table : table \in Site!ClientTables}
<1>2. /\ DOMAIN Site!StatsClient \subseteq told /\ DOMAIN Site!UsersClient \subseteq told
      /\ DOMAIN Site!AdminClient \subseteq told /\ DOMAIN Site!GameClient \subseteq told
      /\ DOMAIN Site!HistoryClient \subseteq told /\ DOMAIN Site!WeakClient \subseteq told
      /\ DOMAIN Site!RankingClient \subseteq told /\ DOMAIN Site!ElementsClient \subseteq told
      /\ DOMAIN Site!SignInForms \subseteq told
  BY DEF Site!ClientTables
<1> HIDE DEF told
<1>3. /\ DOMAIN Site!UserReads \subseteq told /\ DOMAIN Site!UserWrites \subseteq told
      /\ DOMAIN Site!AdminReads \subseteq told /\ DOMAIN Site!AdminWrites \subseteq told
  BY <1>2 DEF Site!StatsClient, Site!UsersClient, Site!AdminClient
<1>4. DOMAIN Site!GameReads \subseteq told /\ DOMAIN Site!GameSessions \subseteq told
  BY <1>2 DEF Site!GameClient, Site!HistoryClient, Site!GameSessions
<1>5. /\ DOMAIN Site!WeakRoutes \subseteq told /\ DOMAIN Site!RankingRoutes \subseteq told
      /\ DOMAIN Site!ElementRoutes \subseteq told /\ DOMAIN Site!LoginRoutes \subseteq told
      /\ DOMAIN Site!PasswordRoutes \subseteq told
  BY <1>2 DEF Site!WeakClient, Site!RankingClient, Site!ElementsClient, Site!SignInForms
<1>6. p \in told
  BY <1>3, <1>4, <1>5 DEF Site!Endpoints, Site!Tables
<1>7. \E table \in Site!ClientTables : p \in DOMAIN table
  BY <1>6 DEF told
<1> QED BY <1>1, <1>7 DEF Site!Clients

LEMMA OkAnswerFine ==
  ASSUME CallFine(apiCall), Site!OkAnswer
  PROVE  CallFine(apiCall')
<1>1. apiCall \in CallRows /\ apiCall.at = "answered" /\ apiCall.status = 200
  BY DEF CallFine, Site!OkAnswer, Site!Ok
<1>2. apiCall.endpoint \in Site!Endpoints
  BY <1>1 DEF CallRows
<1>3. PICK told \in {200} \cup Site!Clients[apiCall.endpoint].garbled : Site!Tell(told)
  BY DEF Site!OkAnswer, Site!Ok
<1>4. told \in {0, 200, 500, 502}
  BY <1>2, <1>3, GarbledAnswers
<1>5. told \in Nat /\ (told \in {0, 500, 502, 503} \/ told = apiCall.status)
  BY <1>1, <1>4
<1> QED BY <1>1, <1>3, <1>5, TellsFine

LEMMA SiteInit ==
  ASSUME Site!Init
  PROVE  SiteInv
BY DEF Site!Init, SiteInv

LEMMA SiteNext ==
  ASSUME Site!ApiAssumption, SiteInv, Site!Next
  PROVE  SiteInv'
<1>1. ASSUME NEW endpoint \in Site!Endpoints, NEW token \in {"none", "bad", "good"},
             Site!Send(endpoint, token)
      PROVE  SiteInv'
  BY <1>1, SendFine DEF SiteInv, Site!Send
<1>2. ASSUME Site!Middleware
      PROVE  SiteInv'
  <2>1. CallFine(apiCall)
    BY <1>2 DEF SiteInv, Site!Middleware, Site!NoCall
  <2> QED BY <1>2, <2>1, MiddlewareFine DEF SiteInv, Site!Middleware
<1>3. ASSUME Site!Service
      PROVE  SiteInv'
  <2>1. CallFine(apiCall)
    BY <1>3 DEF SiteInv, Site!Service, Site!NoCall
  <2> QED BY <1>3, <2>1, ServiceFine DEF SiteInv, Site!Service
<1>4. ASSUME Site!ErrorAnswer
      PROVE  SiteInv'
  <2>1. CallFine(apiCall)
    BY <1>4 DEF SiteInv, Site!ErrorAnswer, Site!NoCall
  <2> QED BY <1>4, <2>1, ErrorAnswerFine DEF SiteInv, Site!ErrorAnswer
<1>5. ASSUME Site!OkAnswer
      PROVE  SiteInv'
  <2>1. CallFine(apiCall)
    BY <1>5 DEF SiteInv, Site!OkAnswer, Site!NoCall
  <2> QED BY <1>5, <2>1, OkAnswerFine DEF SiteInv, Site!OkAnswer
<1>6. ASSUME Site!Lost
      PROVE  SiteInv'
  <2>1. CallFine(apiCall) /\ apiCall.at \in {"server", "answered"}
    BY <1>6 DEF SiteInv, Site!Lost, Site!NoCall
  <2>2. Site!Tell(0) \/ Site!Tell(502)
    BY <1>6 DEF Site!Lost, Site!NoStatus
  <2>3. CallFine(apiCall')
    BY <2>1, <2>2, TellsFine
  <2> QED BY <1>6, <2>3 DEF SiteInv, Site!Lost
<1>7. ASSUME Site!Refreshed
      PROVE  SiteInv'
  <2>1. CallFine(apiCall)
    BY <1>7 DEF SiteInv, Site!Refreshed, Site!NoCall
  <2> QED BY <1>7, <2>1, RefreshedFine DEF SiteInv, Site!Refreshed
<1>8. ASSUME NEW new \in Site!Accounts, Site!AccountChanges(new)
      PROVE  SiteInv'
  <2>1. apiCall' = apiCall /\ apiAccount' \in Site!Accounts
    BY <1>8 DEF Site!AccountChanges
  <2>2. apiCall' = Site!NoCall \/ CallFine(apiCall')
    BY <2>1 DEF SiteInv
  <2> QED BY <2>1, <2>2 DEF SiteInv
<1> QED
  BY <1>1, <1>2, <1>3, <1>4, <1>5, <1>6, <1>7, <1>8 DEF Site!Next

----------------------------------------------------------------------------
(* The components of MCServer: a behaviour is one of its component.         *)

LEMMA ComponentStarts ==
  ASSUME AllInit
  PROVE  /\ which = "api" => Site!Init
         /\ which = "campaign" => Release!Init
         /\ which = "deletion" => Measure!Init
         /\ which = "audit" => Trail!Init
         /\ which = "users" => List!Init
         /\ which = "cleanup" => Cleanup!Init
         /\ Init /\ Memory!Init /\ Command!Init /\ Lock!Init
BY DEF AllInit

LEMMA ComponentSteps ==
  ASSUME [AllNext]_allVars
  PROVE  /\ which' = which
         /\ which = "api" => [Site!Next]_(Site!vars)
         /\ which = "campaign" => [Release!Next]_(Release!vars)
         /\ which = "deletion" => [Measure!Next]_(Measure!vars)
         /\ which = "audit" => [Trail!Next]_(Trail!vars)
         /\ which = "users" => [List!Next]_(List!vars)
         /\ which = "cleanup" => [Cleanup!Next]_(Cleanup!vars)
         /\ [Next]_vars /\ [Memory!Next]_(Memory!vars) /\ [Rehearsal!Next]_(Rehearsal!vars)
         /\ [Command!Next]_(Command!vars) /\ [Lock!Next]_(Lock!vars)
BY DEF AllNext, allVars, memoryVars, apiVars, releaseVars, measureVars, rehearsalVars, trailVars,
       listVars, commandVars, cleanupVars, lockVars, Site!vars, Release!vars, Measure!vars,
       Trail!vars, List!vars, Cleanup!vars, Memory!vars, Rehearsal!vars, Command!vars, Lock!vars

ApiPart == which = "api" => SiteInv

LEMMA ApiStarts ==
  ASSUME AllInit
  PROVE  ApiPart
BY ComponentStarts, SiteInit DEF ApiPart

LEMMA ApiMoves ==
  ASSUME ApiPart, [AllNext]_allVars
  PROVE  ApiPart'
<1> SUFFICES ASSUME which' = "api"
             PROVE  SiteInv'
  BY DEF ApiPart
<1>1. which = "api" /\ [Site!Next]_(Site!vars)
  BY ComponentSteps
<1>2. SiteInv
  BY <1>1 DEF ApiPart
<1>3. CASE Site!Next
  BY <1>2, <1>3, SiteNext, InstancesAssumption
<1>4. CASE UNCHANGED Site!vars
  <2>1. apiAccount' = apiAccount /\ apiCall' = apiCall
    BY <1>4 DEF Site!vars
  <2> QED BY <1>2, <2>1 DEF SiteInv
<1> QED BY <1>1, <1>3, <1>4

(* A page is told what happened to its call: whatever answers, is lost or   *)
(* is sent again, it learns of a success that was done, of a refusal that   *)
(* was not, and loses the session only for a token that was not accepted.   *)
THEOREM PagesAreToldTruly == AllSpec => []ToldTruly
<1>1. AllInit => ApiPart
  BY ApiStarts
<1>2. ApiPart /\ [AllNext]_allVars => ApiPart'
  BY ApiMoves
<1>3. ApiPart => ToldTruly
  BY FineIsTold, InstancesAssumption DEF ApiPart, ToldTruly
<1> QED BY <1>1, <1>2, <1>3, PTL DEF AllSpec

----------------------------------------------------------------------------
(* The measured deletion: what the database holds of a run's fixture where   *)
(* the run is, and that no run without a report has begun.                  *)

FixtureRows == [user : BOOLEAN, owned : Nat, audit : BOOLEAN]

Places ==
  {"preview", "create", "undoAudit", "undoUser", "delete", "verify", "probe", "cleanAudit",
   "cleanUser", "end"}

RunRows ==
  [id : Calls, mode : {"execute", "probe"}, at : Places, made : BOOLEAN, probes : Nat,
   passed : BOOLEAN, failed : BOOLEAN, status : {"not-required", "completed", "failed"}]

ReportRows ==
  [outcome : {None, "refused", "failed", "passed", "killed"},
   status : {None, "not-required", "completed", "failed"}]

WorkFine(w, fixture) ==
  /\ w \in RunRows
  /\ w.at = "preview" => fixture = Measure!NoRows /\ w.status = "not-required"
  /\ w.at \in {"undoAudit", "undoUser"} => w.failed
  /\ w.at \in {"undoUser", "cleanUser"} => ~fixture.audit
  /\ w.at = "end" => /\ w.status = "completed" => fixture = Measure!NoRows
                     /\ w.status \in {"completed", "failed"}
                     /\ w.failed \/ ~w.passed \/ w.status = "completed"

AtWork ==
  /\ measureRun.id \in Calls /\ measureReport[measureRun.id] = Measure!NoReport
  /\ WorkFine(measureRun, measureRows[measureRun.id])

MeasureInv ==
  /\ measureRows \in [Calls -> FixtureRows]
  /\ measureReport \in [Calls -> ReportRows]
  /\ measureRun = Measure!Idle \/ AtWork
  /\ \A r \in Calls : measureReport[r] = Measure!NoReport /\ measureRun.id # r =>
                        measureRows[r] = Measure!NoRows
  /\ Measure!FixtureTold

LEMMA FixtureChanges ==
  ASSUME NEW f \in FixtureRows
  PROVE  /\ [f EXCEPT !.audit = FALSE] \in FixtureRows
         /\ ~[f EXCEPT !.audit = FALSE].audit
         /\ Measure!WithoutUser(f) \in FixtureRows
         /\ [Measure!WithoutUser(f) EXCEPT !.audit = TRUE] \in FixtureRows
         /\ ~f.audit => Measure!WithoutUser(f) = Measure!NoRows
         /\ [f EXCEPT !.user = TRUE] \in FixtureRows
         /\ [f EXCEPT !.owned = f.owned + 1] \in FixtureRows
<1>0. [f EXCEPT !.user = TRUE] \in FixtureRows /\ [f EXCEPT !.owned = f.owned + 1] \in FixtureRows
  <2>1. [f EXCEPT !.user = TRUE] \in FixtureRows
    BY DEF FixtureRows
  <2>2. f.owned + 1 \in Nat
    BY DEF FixtureRows
  <2>3. [f EXCEPT !.owned = f.owned + 1] \in FixtureRows
    BY <2>2 DEF FixtureRows
  <2> QED BY <2>1, <2>3
<1>1. [f EXCEPT !.audit = FALSE] \in FixtureRows /\ ~[f EXCEPT !.audit = FALSE].audit
  BY DEF FixtureRows
<1> DEFINE g == Measure!WithoutUser(f)
<1>2. g \in FixtureRows /\ g.user = FALSE /\ g.owned = 0 /\ g.audit = f.audit
  BY DEF FixtureRows, Measure!WithoutUser
<1> HIDE DEF g
<1>3. [g EXCEPT !.audit = TRUE] \in FixtureRows
  BY <1>2 DEF FixtureRows
<1>4. ASSUME ~f.audit
      PROVE  g = Measure!NoRows
  <2>1. g.audit = FALSE
    BY <1>2, <1>4 DEF FixtureRows
  <2> QED BY <1>2, <2>1 DEF FixtureRows, Measure!NoRows
<1> QED BY <1>0, <1>1, <1>2, <1>3, <1>4 DEF g

LEMMA RunVerified ==
  ASSUME NEW w \in RunRows, NEW passed \in BOOLEAN, NEW failed \in BOOLEAN
  PROVE  LET v == [w EXCEPT !.at = "cleanAudit", !.passed = passed, !.failed = failed]
         IN v \in RunRows /\ v.id = w.id /\ v.at = "cleanAudit"
BY DEF RunRows, Places

LEMMA RunProbes ==
  ASSUME NEW w \in RunRows
  PROVE  /\ LET v == [w EXCEPT !.at = "cleanAudit", !.passed = TRUE]
            IN v \in RunRows /\ v.id = w.id /\ v.at = "cleanAudit"
         /\ LET v == [w EXCEPT !.probes = w.probes + 1]
            IN v \in RunRows /\ v.id = w.id /\ v.at = w.at
<1>1. LET v == [w EXCEPT !.at = "cleanAudit", !.passed = TRUE]
      IN v \in RunRows /\ v.id = w.id /\ v.at = "cleanAudit"
  BY DEF RunRows, Places
<1>2. LET v == [w EXCEPT !.probes = w.probes + 1]
      IN v \in RunRows /\ v.id = w.id /\ v.at = w.at
  BY DEF RunRows, Places
<1> QED BY <1>1, <1>2

LEMMA StatementFine ==
  ASSUME MeasureInv, AtWork, NEW after \in FixtureRows, NEW ok, NEW failed,
         Measure!Statement(after, ok, failed), UNCHANGED measureReport,
         ok.id = measureRun.id, failed.id = measureRun.id,
         WorkFine(ok, after), WorkFine(failed, measureRows[measureRun.id]), WorkFine(failed, after)
  PROVE  MeasureInv'
<1> DEFINE r == measureRun.id
<1>1. r \in Calls /\ measureReport[r] = Measure!NoReport
  BY DEF AtWork
<1>2. measureRun'.id = r /\ measureRows' \in {measureRows, [measureRows EXCEPT ![r] = after]}
  BY DEF Measure!Statement
<1>3. measureRows' \in [Calls -> FixtureRows]
  BY <1>1, <1>2 DEF MeasureInv
<1>4. \A q \in Calls : q # r => measureRows'[q] = measureRows[q]
  BY <1>1, <1>2 DEF MeasureInv
<1>5. WorkFine(measureRun', measureRows'[r])
  <2>1. [measureRows EXCEPT ![r] = after][r] = after
    BY <1>1 DEF MeasureInv
  <2> QED BY <2>1 DEF Measure!Statement
<1>6. AtWork'
  BY <1>1, <1>2, <1>5 DEF AtWork, WorkFine
<1>7. Measure!FixtureTold'
  <2> SUFFICES ASSUME NEW q \in Calls
               PROVE  /\ measureReport[q].status \in {"completed", "not-required"}
                           => measureRows'[q] = Measure!NoRows
                      /\ measureReport[q].outcome = "passed" => measureReport[q].status = "completed"
    BY DEF Measure!FixtureTold
  <2>1. CASE q = r
    BY <1>1, <2>1, InstancesAssumption DEF Measure!NoReport, Measure!DeletionPerformanceAssumption
  <2>2. CASE q # r
    BY <1>4, <2>2 DEF MeasureInv, Measure!FixtureTold
  <2> QED BY <2>1, <2>2
<1>8. ASSUME NEW q \in Calls, measureReport'[q] = Measure!NoReport, measureRun'.id # q
      PROVE  measureRows'[q] = Measure!NoRows
  BY <1>2, <1>4, <1>8 DEF MeasureInv
<1>9. measureReport' \in [Calls -> ReportRows]
  BY DEF MeasureInv
<1> QED
  BY <1>3, <1>6, <1>7, <1>8, <1>9 DEF MeasureInv

LEMMA EndFine ==
  ASSUME MeasureInv, AtWork, NEW outcome \in {"refused", "failed", "passed", "killed"},
         NEW status \in {None, "not-required", "completed", "failed"},
         measureReport' = [measureReport EXCEPT ![measureRun.id] =
                             [outcome |-> outcome, status |-> status]],
         measureRun' = Measure!Idle, UNCHANGED measureRows,
         status \in {"completed", "not-required"} => measureRows[measureRun.id] = Measure!NoRows,
         outcome = "passed" => status = "completed"
  PROVE  MeasureInv'
<1> DEFINE r == measureRun.id
<1>1. r \in Calls
  BY DEF AtWork
<1>2. /\ measureReport'[r] = [outcome |-> outcome, status |-> status]
      /\ measureReport' \in [Calls -> ReportRows]
      /\ \A q \in Calls : q # r => measureReport'[q] = measureReport[q]
  BY <1>1 DEF MeasureInv, ReportRows
<1>3. measureReport'[r] # Measure!NoReport
  BY <1>2, InstancesAssumption DEF Measure!NoReport, Measure!DeletionPerformanceAssumption
<1>4. Measure!FixtureTold'
  <2> SUFFICES ASSUME NEW q \in Calls
               PROVE  /\ measureReport'[q].status \in {"completed", "not-required"}
                           => measureRows[q] = Measure!NoRows
                      /\ measureReport'[q].outcome = "passed" => measureReport'[q].status = "completed"
    BY DEF Measure!FixtureTold
  <2>1. CASE q = r
    BY <1>2, <2>1
  <2>2. CASE q # r
    BY <1>2, <2>2 DEF MeasureInv, Measure!FixtureTold
  <2> QED BY <2>1, <2>2
<1>5. \A q \in Calls : measureReport'[q] = Measure!NoReport => measureRows'[q] = Measure!NoRows
  <2> TAKE q \in Calls
  <2>1. CASE q = r
    BY <1>3, <2>1
  <2>2. CASE q # r
    BY <1>2, <2>2 DEF MeasureInv
  <2> QED BY <2>1, <2>2
<1> QED BY <1>2, <1>4, <1>5 DEF MeasureInv

LEMMA MeasureStarts ==
  ASSUME Measure!Init
  PROVE  MeasureInv
<1>1. measureRows \in [Calls -> FixtureRows]
  BY DEF Measure!Init, Measure!NoRows, FixtureRows
<1>2. measureReport \in [Calls -> ReportRows]
  BY DEF Measure!Init, Measure!NoReport, ReportRows
<1>3. Measure!FixtureTold
  BY InstancesAssumption
     DEF Measure!Init, Measure!NoReport, Measure!FixtureTold, Measure!DeletionPerformanceAssumption
<1> QED BY <1>1, <1>2, <1>3 DEF Measure!Init, MeasureInv

LEMMA MeasureNext ==
  ASSUME MeasureInv, Measure!Next
  PROVE  MeasureInv'
<1> DEFINE w == measureRun
           mine == measureRows[measureRun.id]
<1>1. ASSUME NEW r \in Calls, NEW mode \in {"execute", "probe"}, Measure!Start(r, mode)
      PROVE  MeasureInv'
  <2>1. /\ measureRun = Measure!Idle /\ measureReport[r] = Measure!NoReport
        /\ UNCHANGED <<measureRows, measureReport>>
    BY <1>1 DEF Measure!Start, MeasureInv, AtWork, WorkFine, RunRows, Places
  <2>2. r # None /\ measureRun.id = None
    BY <2>1, InstancesAssumption DEF Measure!Idle, Measure!DeletionPerformanceAssumption
  <2>3. measureRows[r] = Measure!NoRows
    BY <2>1, <2>2 DEF MeasureInv
  <2>4. measureRun' \in RunRows /\ measureRun'.id = r /\ measureRun'.at \in {"preview", "create"}
        /\ measureRun'.status = "not-required"
    BY <1>1 DEF Measure!Start, Measure!Idle, RunRows, Places
  <2>5. AtWork'
    BY <1>1, <2>1, <2>3, <2>4 DEF AtWork, WorkFine
  <2>6. Measure!FixtureTold'
    BY <2>1 DEF MeasureInv, Measure!FixtureTold
  <2>7. \A q \in Calls : measureReport[q] = Measure!NoReport => measureRows[q] = Measure!NoRows
    BY <2>1, <2>2, InstancesAssumption DEF MeasureInv, Measure!DeletionPerformanceAssumption
  <2> QED BY <2>1, <2>5, <2>6, <2>7 DEF MeasureInv
<1>2. ASSUME measureRun.at \in Places
      PROVE  AtWork
  BY <1>2 DEF MeasureInv, Measure!Idle, Places
<1>3. ASSUME AtWork
      PROVE  /\ w \in RunRows /\ mine \in FixtureRows
             /\ mine = [user |-> mine.user, owned |-> mine.owned, audit |-> mine.audit]
  BY <1>3 DEF AtWork, WorkFine, MeasureInv, FixtureRows
<1>4. ASSUME Measure!Preview
      PROVE  MeasureInv'
  <2>1. AtWork /\ w.at = "preview" /\ mine = Measure!NoRows /\ w.status = "not-required"
    BY <1>2, <1>4 DEF Measure!Preview, AtWork, WorkFine, Places
  <2>2. CASE Measure!End("refused")
    BY <1>4, <2>1, <2>2, EndFine DEF Measure!End, Measure!Preview
  <2>3. CASE Measure!End("failed")
    BY <1>4, <2>1, <2>3, EndFine DEF Measure!End, Measure!Preview
  <2>4. CASE Measure!Goto("create") /\ UNCHANGED measureReport
    <3>1. /\ measureRun' \in RunRows /\ measureRun'.id = w.id /\ measureRun'.at = "create"
          /\ measureRows' = measureRows
      BY <1>3, <1>4, <2>1, <2>4 DEF Measure!Goto, Measure!Preview, RunRows, Places
    <3>2. AtWork'
      BY <2>1, <2>4, <3>1 DEF AtWork, WorkFine
    <3>3. Measure!FixtureTold'
      BY <2>4, <3>1 DEF MeasureInv, Measure!FixtureTold
    <3> QED BY <2>4, <3>1, <3>2, <3>3 DEF MeasureInv
  <2> QED BY <1>4, <2>2, <2>3, <2>4 DEF Measure!Preview
<1>5. ASSUME Measure!Create
      PROVE  MeasureInv'
  <2>1. AtWork /\ w.at = "create" /\ UNCHANGED measureReport
    BY <1>2, <1>5 DEF Measure!Create, Places
  <2> DEFINE next == IF ~mine.user THEN [mine EXCEPT !.user = TRUE]
                                   ELSE [mine EXCEPT !.owned = mine.owned + 1]
             ready == [w EXCEPT !.made = TRUE, !.at = IF w.mode = "execute" THEN "delete" ELSE "probe"]
             ok == IF next.owned = Owned THEN ready ELSE w
  <2>2. Measure!Statement(next, ok, Measure!Undo)
    BY <1>5 DEF Measure!Create, Measure!Mine
  <2>3. next \in FixtureRows
    BY <1>3, <2>1, FixtureChanges
  <2>4. ok \in RunRows /\ ok.id = w.id /\ ok.at \in {"create", "delete", "probe"}
    BY <1>3, <2>1 DEF RunRows, Places
  <2>5. Measure!Undo \in RunRows /\ Measure!Undo.id = w.id /\ Measure!Undo.at = "undoAudit"
        /\ Measure!Undo.failed
    BY <1>3, <2>1 DEF RunRows, Places, Measure!Undo
  <2> HIDE DEF next, ok
  <2>6. \A f : WorkFine(ok, f) /\ WorkFine(Measure!Undo, f)
    BY <2>4, <2>5 DEF WorkFine
  <2> QED BY <2>1, <2>2, <2>3, <2>4, <2>5, <2>6, StatementFine
<1>6. ASSUME Measure!UndoAudit
      PROVE  MeasureInv'
  <2>1. AtWork /\ w.at = "undoAudit" /\ w.failed /\ UNCHANGED measureReport
    BY <1>2, <1>6 DEF Measure!UndoAudit, Places, AtWork, WorkFine
  <2> DEFINE after == [mine EXCEPT !.audit = FALSE]
             ok == [w EXCEPT !.at = "undoUser"]
             failed == [w EXCEPT !.at = "end", !.status = "failed"]
  <2>2. Measure!Statement(after, ok, failed)
    BY <1>6 DEF Measure!UndoAudit, Measure!Mine
  <2>3. after \in FixtureRows /\ ~after.audit
    BY <1>3, <2>1, FixtureChanges
  <2>4. ok \in RunRows /\ ok.id = w.id /\ ok.at = "undoUser" /\ ok.failed
    BY <1>3, <2>1 DEF RunRows, Places
  <2>5. failed \in RunRows /\ failed.id = w.id /\ failed.at = "end" /\ failed.failed
        /\ failed.status = "failed"
    BY <1>3, <2>1 DEF RunRows, Places
  <2> HIDE DEF after, ok, failed
  <2>6. WorkFine(ok, after) /\ \A f : WorkFine(failed, f)
    BY <2>3, <2>4, <2>5 DEF WorkFine
  <2> QED BY <2>1, <2>2, <2>3, <2>4, <2>5, <2>6, StatementFine
<1>8. ASSUME Measure!UndoUser
      PROVE  MeasureInv'
  <2>1. AtWork /\ w.at = "undoUser" /\ w.failed /\ ~mine.audit /\ UNCHANGED measureReport
    BY <1>2, <1>8 DEF Measure!UndoUser, Places, AtWork, WorkFine
  <2> DEFINE ok == [w EXCEPT !.at = "end", !.status = "completed"]
             failed == [w EXCEPT !.at = "end", !.status = "failed"]
  <2>2. Measure!Statement(Measure!NoRows, ok, failed)
    <3>1. Measure!WithoutUser(mine) = Measure!NoRows
      BY <1>3, <2>1, FixtureChanges
    <3> QED BY <1>8, <3>1 DEF Measure!UndoUser, Measure!Mine
  <2>3. Measure!NoRows \in FixtureRows
    BY DEF FixtureRows, Measure!NoRows
  <2>4. /\ ok \in RunRows /\ ok.id = w.id /\ ok.at = "end" /\ ok.failed /\ ok.status = "completed"
        /\ failed \in RunRows /\ failed.id = w.id /\ failed.at = "end" /\ failed.failed
        /\ failed.status = "failed"
    BY <1>3, <2>1 DEF RunRows, Places
  <2> HIDE DEF ok, failed
  <2>5. WorkFine(ok, Measure!NoRows) /\ \A f : WorkFine(failed, f)
    BY <2>4 DEF WorkFine
  <2> QED BY <2>1, <2>2, <2>3, <2>4, <2>5, StatementFine
<1>9. ASSUME AtWork
      PROVE  /\ Measure!Broken \in RunRows /\ Measure!Broken.id = w.id
             /\ \A f : WorkFine(Measure!Broken, f)
  <2>1. Measure!Broken \in RunRows /\ Measure!Broken.id = w.id /\ Measure!Broken.at = "cleanAudit"
    BY <1>3, <1>9 DEF RunRows, Places, Measure!Broken
  <2> QED BY <2>1 DEF WorkFine
<1>10. ASSUME Measure!Delete
       PROVE  MeasureInv'
  <2>1. AtWork /\ w.at = "delete" /\ UNCHANGED measureReport
    BY <1>2, <1>10 DEF Measure!Delete, Places
  <2> DEFINE after == [Measure!WithoutUser(mine) EXCEPT !.audit = TRUE]
             ok == [w EXCEPT !.at = "verify"]
  <2>2. Measure!Statement(after, ok, Measure!Broken)
    BY <1>10 DEF Measure!Delete, Measure!Mine
  <2>3. after \in FixtureRows
    BY <1>3, <2>1, FixtureChanges
  <2>4. ok \in RunRows /\ ok.id = w.id /\ ok.at = "verify"
    BY <1>3, <2>1 DEF RunRows, Places
  <2> HIDE DEF after, ok
  <2>5. \A f : WorkFine(ok, f)
    BY <2>4 DEF WorkFine
  <2> QED BY <1>9, <2>1, <2>2, <2>3, <2>4, <2>5, StatementFine
<1>11. ASSUME AtWork, measureRun'.id = w.id, \A f : WorkFine(measureRun', f),
              UNCHANGED <<measureRows, measureReport>>
       PROVE  MeasureInv'
  <2>1. AtWork'
    BY <1>11 DEF AtWork
  <2>2. Measure!FixtureTold'
    BY <1>11 DEF MeasureInv, Measure!FixtureTold
  <2> QED BY <1>11, <2>1, <2>2 DEF MeasureInv
<1>12. ASSUME Measure!Verify
       PROVE  MeasureInv'
  <2>1. AtWork /\ UNCHANGED <<measureRows, measureReport>>
    BY <1>2, <1>12 DEF Measure!Verify, Places
  <2>2. CASE measureRun' = Measure!Broken
    BY <1>9, <1>11, <2>1, <2>2
  <2>3. ASSUME NEW inTime \in BOOLEAN,
               measureRun' = [w EXCEPT !.at = "cleanAudit", !.passed = inTime, !.failed = ~inTime]
        PROVE  MeasureInv'
    <3>1. measureRun' \in RunRows /\ measureRun'.id = w.id /\ measureRun'.at = "cleanAudit"
      <4>1. PICK failed \in BOOLEAN :
              measureRun' = [w EXCEPT !.at = "cleanAudit", !.passed = inTime, !.failed = failed]
        BY Zenon, <2>3
      <4> QED BY <1>3, <2>1, <4>1, RunVerified
    <3>2. \A f : WorkFine(measureRun', f)
      BY <3>1 DEF WorkFine
    <3> QED BY <1>11, <2>1, <3>1, <3>2
  <2> QED BY <1>12, <2>2, <2>3 DEF Measure!Verify
<1>13. ASSUME Measure!Probe
       PROVE  MeasureInv'
  <2>1. AtWork /\ w.at = "probe" /\ UNCHANGED <<measureRows, measureReport>>
    BY <1>2, <1>13 DEF Measure!Probe, Places
  <2>2. CASE measureRun' = Measure!Broken
    BY <1>9, <1>11, <2>1, <2>2
  <2>3. CASE \/ measureRun' = [w EXCEPT !.probes = w.probes + 1]
             \/ measureRun' = [w EXCEPT !.at = "cleanAudit", !.passed = TRUE]
    <3>1. measureRun' \in RunRows /\ measureRun'.id = w.id /\ measureRun'.at \in {"probe", "cleanAudit"}
      BY <1>3, <2>1, <2>3, RunProbes
    <3>2. \A f : WorkFine(measureRun', f)
      BY <3>1 DEF WorkFine
    <3> QED BY <1>11, <2>1, <3>1, <3>2
  <2> QED BY <1>13, <2>2, <2>3 DEF Measure!Probe
<1>14. ASSUME AtWork
       PROVE  /\ Measure!CleanFailed \in RunRows /\ Measure!CleanFailed.id = w.id
              /\ \A f : WorkFine(Measure!CleanFailed, f)
  <2>1. /\ Measure!CleanFailed \in RunRows /\ Measure!CleanFailed.id = w.id
        /\ Measure!CleanFailed.at = "end" /\ Measure!CleanFailed.status = "failed"
        /\ Measure!CleanFailed.failed
    BY <1>3, <1>14 DEF RunRows, Places, Measure!CleanFailed
  <2> QED BY <2>1 DEF WorkFine
<1>15. ASSUME Measure!CleanAudit
       PROVE  MeasureInv'
  <2>1. AtWork /\ w.at = "cleanAudit" /\ UNCHANGED measureReport
    BY <1>2, <1>15 DEF Measure!CleanAudit, Places
  <2> DEFINE after == [mine EXCEPT !.audit = FALSE]
             ok == [w EXCEPT !.at = "cleanUser"]
  <2>2. Measure!Statement(after, ok, Measure!CleanFailed)
    BY <1>15 DEF Measure!CleanAudit, Measure!Mine
  <2>3. after \in FixtureRows /\ ~after.audit
    BY <1>3, <2>1, FixtureChanges
  <2>4. ok \in RunRows /\ ok.id = w.id /\ ok.at = "cleanUser"
    BY <1>3, <2>1 DEF RunRows, Places
  <2> HIDE DEF after, ok
  <2>5. WorkFine(ok, after)
    BY <2>3, <2>4 DEF WorkFine
  <2> QED BY <1>14, <2>1, <2>2, <2>3, <2>4, <2>5, StatementFine
<1>16. ASSUME Measure!CleanUser
       PROVE  MeasureInv'
  <2>1. AtWork /\ w.at = "cleanUser" /\ ~mine.audit /\ UNCHANGED measureReport
    BY <1>2, <1>16 DEF Measure!CleanUser, Places, AtWork, WorkFine
  <2> DEFINE ok == [w EXCEPT !.at = "end", !.status = "completed"]
  <2>2. Measure!Statement(Measure!NoRows, ok, Measure!CleanFailed)
    <3>1. Measure!WithoutUser(mine) = Measure!NoRows
      BY <1>3, <2>1, FixtureChanges
    <3> QED BY <1>16, <3>1 DEF Measure!CleanUser, Measure!Mine
  <2>3. Measure!NoRows \in FixtureRows
    BY DEF FixtureRows, Measure!NoRows
  <2>4. ok \in RunRows /\ ok.id = w.id /\ ok.at = "end" /\ ok.status = "completed"
    BY <1>3, <2>1 DEF RunRows, Places
  <2> HIDE DEF ok
  <2>5. WorkFine(ok, Measure!NoRows)
    BY <2>4 DEF WorkFine
  <2> QED BY <1>14, <2>1, <2>2, <2>3, <2>4, <2>5, StatementFine
<1>17. ASSUME Measure!Finish
       PROVE  MeasureInv'
  <2>1. /\ AtWork /\ w.at = "end" /\ UNCHANGED measureRows
        /\ w.status = "completed" => mine = Measure!NoRows
        /\ w.status \in {"completed", "failed"}
        /\ w.failed \/ ~w.passed \/ w.status = "completed"
    BY <1>2, <1>17 DEF Measure!Finish, Places, AtWork, WorkFine
  <2>2. PICK outcome \in {"failed", "passed"} :
          Measure!End(outcome) /\ (outcome = "passed" => w.status = "completed")
    BY <1>17, <2>1 DEF Measure!Finish
  <2> QED BY <2>1, <2>2, EndFine DEF Measure!End
<1>18. ASSUME Measure!Killed
       PROVE  MeasureInv'
  <2>1. AtWork
    BY <1>18 DEF Measure!Killed, MeasureInv, Measure!Idle
  <2>2. None \notin {"completed", "not-required"}
    BY InstancesAssumption DEF Measure!DeletionPerformanceAssumption
  <2> QED BY <1>18, <2>1, <2>2, EndFine DEF Measure!Killed
<1> QED
  BY <1>1, <1>4, <1>5, <1>6, <1>8, <1>10, <1>12, <1>13, <1>15, <1>16, <1>17, <1>18
  DEF Measure!Next

----------------------------------------------------------------------------
(* The release campaign. From the deletion in the browser on there is no     *)
(* account and no live credential, and the steps left cannot make one.      *)

Stages ==
  {"REGISTRATION", "EMAIL_VERIFICATION", "VALID_LOGIN", "REFRESH_PROTOCOL", "AUTH_WINDOW_WAIT",
   "AUTH_RATE_LIMIT", "AUTH_RESET_WAIT", "AUTH_RESET", "GAME", "UI_PHASE",
   "OLD_CREDENTIAL_REJECTION"}

Whats == Release!Requests \cup {"arm", "waitWindow", "waitReset", "ui"}

StepRows == [stage : Stages, what : Whats, expect : Nat]

UiStep == CampaignLimit + 13
LastStep == CampaignLimit + 16

CampaignRows ==
  [step : 1 .. LastStep, inFlight : BOOLEAN, start : Nat, wake : Nat, access : Nat, cookie : Nat,
   oldCookie : Nat, late : Nat, outcome : {None, "clear", "present", "unknown"},
   stage : Stages \cup {None}]

FlowRows ==
  [at : {"preflight", "campaign", "cleanup", "recovery", "decide", "done"},
   campaign : {"clear", "unknown"}, main : {"clear", "unknown"},
   recovery : {"clear", "unknown", "not-required"}, decision : {None, "clear", "unknown"}]

ServerRows == [end : Nat, count : Nat, tokens : Nat, live : SUBSET Nat]
AccountRows == [armed : BOOLEAN, verified : BOOLEAN, admin : BOOLEAN] \cup {None}

LEMMA ScriptShape ==
  ASSUME CampaignLimit \in Nat
  PROVE  /\ Release!Script \in Seq(StepRows) /\ Len(Release!Script) = LastStep
         /\ Release!Script[UiStep].what = "ui"
         /\ \A i \in UiStep + 1 .. LastStep :
              Release!Script[i].what \in {"play", "refresh", "evidence"}
<1> DEFINE A == << Release!Step("REGISTRATION", "register", 201),
                   Release!Step("EMAIL_VERIFICATION", "arm", 0),
                   Release!Step("EMAIL_VERIFICATION", "verify", 200),
                   Release!Step("EMAIL_VERIFICATION", "verify", 400),
                   Release!Step("VALID_LOGIN", "login", 200),
                   Release!Step("REFRESH_PROTOCOL", "refresh", 200),
                   Release!Step("REFRESH_PROTOCOL", "refreshOld", 401),
                   Release!Step("AUTH_WINDOW_WAIT", "waitWindow", 0) >>
           B == Release!Many(Release!Step("AUTH_RATE_LIMIT", "evidence", 200), CampaignLimit)
           C == << Release!Step("AUTH_RATE_LIMIT", "evidence", 429),
                   Release!Step("AUTH_RESET_WAIT", "waitReset", 0),
                   Release!Step("AUTH_RESET", "evidence", 200),
                   Release!Step("GAME", "play", 200),
                   Release!Step("UI_PHASE", "ui", 0),
                   Release!Step("OLD_CREDENTIAL_REJECTION", "play", 401),
                   Release!Step("OLD_CREDENTIAL_REJECTION", "refresh", 401),
                   Release!Step("OLD_CREDENTIAL_REJECTION", "evidence", 401) >>
<1>1. \A stage \in Stages, what \in Whats, expect \in Nat :
        /\ Release!Step(stage, what, expect) \in StepRows
        /\ Release!Step(stage, what, expect).what = what
  BY DEF Release!Step, StepRows
<1>2. A \in Seq(StepRows) /\ Len(A) = 8
  BY <1>1 DEF Stages, Whats, Release!Requests
<1>3. B \in Seq(StepRows) /\ Len(B) = CampaignLimit
  <2>1. Release!Step("AUTH_RATE_LIMIT", "evidence", 200) \in StepRows
    BY <1>1 DEF Stages, Whats, Release!Requests
  <2> QED BY <2>1 DEF Release!Many
<1>4. C \in Seq(StepRows) /\ Len(C) = 8
  BY <1>1 DEF Stages, Whats, Release!Requests
<1>5. C[5].what = "ui" /\ \A i \in 6 .. 8 : C[i].what \in {"play", "refresh", "evidence"}
  BY DEF Release!Step
<1>6. Release!Script = (A \o B) \o C
  BY DEF Release!Script
<1> HIDE DEF A, B, C
<1>7. A \o B \in Seq(StepRows) /\ Len(A \o B) = CampaignLimit + 8
  <2>1. A \o B \in Seq(StepRows) /\ Len(A \o B) = Len(A) + Len(B)
    BY <1>2, <1>3, ConcatProperties
  <2> QED BY <1>2, <1>3, <2>1
<1> DEFINE AB == A \o B
<1> HIDE DEF AB
<1>8. /\ AB \o C \in Seq(StepRows) /\ Len(AB \o C) = CampaignLimit + 16
      /\ \A j \in 1 .. 8 : (AB \o C)[CampaignLimit + 8 + j] = C[j]
  <2>1. AB \in Seq(StepRows) /\ Len(AB) = CampaignLimit + 8
    BY <1>7 DEF AB
  <2>2. /\ AB \o C \in Seq(StepRows) /\ Len(AB \o C) = Len(AB) + Len(C)
        /\ \A i \in 1 .. Len(AB) + Len(C) :
             (AB \o C)[i] = IF i <= Len(AB) THEN AB[i] ELSE C[i - Len(AB)]
    BY <1>4, <2>1, ConcatProperties
  <2>3. ASSUME NEW j \in 1 .. 8
        PROVE  (AB \o C)[CampaignLimit + 8 + j] = C[j]
    <3>1. /\ CampaignLimit + 8 + j \in 1 .. Len(AB) + Len(C)
          /\ ~(CampaignLimit + 8 + j <= Len(AB)) /\ CampaignLimit + 8 + j - Len(AB) = j
      BY <1>4, <2>1
    <3> QED BY <2>2, <3>1, SMTT(30)
  <2> QED BY <1>4, <2>1, <2>2, <2>3
<1>9. \A j \in 6 .. 8 : Release!Script[CampaignLimit + 8 + j].what \in {"play", "refresh", "evidence"}
  <2> TAKE j \in 6 .. 8
  <2>1. j \in 1 .. 8
    OBVIOUS
  <2>2. Release!Script[CampaignLimit + 8 + j] = C[j]
    BY <1>6, <1>8, <2>1 DEF AB
  <2> QED BY <1>5, <2>2
<1>10. ASSUME NEW i \in UiStep + 1 .. LastStep
       PROVE  Release!Script[i].what \in {"play", "refresh", "evidence"}
  <2>1. i - CampaignLimit - 8 \in 6 .. 8 /\ CampaignLimit + 8 + (i - CampaignLimit - 8) = i
    BY DEF UiStep, LastStep
  <2> QED BY <1>9, <2>1
<1>11. Release!Script[CampaignLimit + 8 + 5].what = "ui"
  <2>1. 5 \in 1 .. 8
    OBVIOUS
  <2>2. Release!Script[CampaignLimit + 8 + 5] = C[5]
    BY <1>6, <1>8, <2>1 DEF AB
  <2> QED BY <1>5, <2>2
<1>12. CampaignLimit + 8 + 5 = UiStep
  BY DEF UiStep
<1> QED BY <1>6, <1>8, <1>10, <1>11, <1>12 DEF LastStep, AB

ReleaseInv ==
  /\ releaseNow \in Nat /\ releaseRun \in CampaignRows /\ releaseFlow \in FlowRows
  /\ releaseServer \in ServerRows /\ releaseAccount \in AccountRows
  /\ releaseRun.inFlight => Release!Here.what \in Release!Requests
  /\ releaseRun.step > UiStep => releaseAccount = None /\ releaseServer.live = {}
  /\ releaseRun.outcome = "clear" => releaseRun.step = LastStep
  /\ releaseFlow.campaign = "clear" => releaseRun.outcome = "clear"
  /\ releaseFlow.at \in {"preflight", "campaign", "cleanup"} => releaseFlow.main = "unknown"
  /\ releaseFlow.at \notin {"decide", "done"} => releaseFlow.recovery = "not-required"
  /\ releaseFlow.at # "done" => releaseFlow.decision = None
  /\ Release!DecisionEarned

LEMMA HereFine ==
  ASSUME ReleaseInv
  PROVE  /\ CampaignLimit \in Nat
         /\ Release!Here \in StepRows /\ Release!Here.what \in Whats /\ Release!Here.stage \in Stages
         /\ releaseRun.step = UiStep => Release!Here.what = "ui"
         /\ releaseRun.step > UiStep => Release!Here.what \in {"play", "refresh", "evidence"}
<1>1. CampaignLimit \in Nat
  BY InstancesAssumption DEF Release!CampaignAssumption
<1>2. releaseRun.step \in 1 .. LastStep
  BY DEF ReleaseInv, CampaignRows
<1>3. Release!Script \in Seq(StepRows) /\ Len(Release!Script) = LastStep
  BY <1>1, ScriptShape
<1>4. Release!Script[releaseRun.step] \in StepRows
  BY <1>2, <1>3
<1>5. UiStep \in Nat /\ LastStep \in Nat
  BY <1>1 DEF UiStep, LastStep
<1>6. releaseRun.step > UiStep => releaseRun.step \in UiStep + 1 .. LastStep
  BY <1>2, <1>5
<1> QED BY <1>1, <1>4, <1>6, ScriptShape DEF Release!Here, StepRows

LEMMA ServerChanges ==
  ASSUME NEW s \in ServerRows, NEW end \in Nat, NEW live \in SUBSET Nat
  PROVE  /\ [s EXCEPT !.end = end, !.count = 1] \in ServerRows
         /\ [s EXCEPT !.end = end, !.count = 1].live = s.live
         /\ [s EXCEPT !.count = s.count + 1] \in ServerRows
         /\ [s EXCEPT !.count = s.count + 1].live = s.live
         /\ [s EXCEPT !.live = live] \in ServerRows /\ [s EXCEPT !.live = live].live = live
<1>1. s.count + 1 \in Nat
  BY DEF ServerRows
<1>2. [s EXCEPT !.end = end, !.count = 1] \in ServerRows
  BY DEF ServerRows
<1>3. [s EXCEPT !.count = s.count + 1] \in ServerRows
  BY <1>1 DEF ServerRows
<1>4. [s EXCEPT !.live = live] \in ServerRows
  BY DEF ServerRows
<1> QED BY <1>2, <1>3, <1>4 DEF ServerRows

LEMMA TokenAdded ==
  ASSUME NEW s \in ServerRows, NEW n \in Nat
  PROVE  [s EXCEPT !.tokens = n, !.live = s.live \cup {n}] \in ServerRows
BY DEF ServerRows

LEMMA CountedFine ==
  ASSUME releaseNow \in Nat, releaseServer \in ServerRows, CampaignWindow \in Nat
  PROVE  Release!Counted \in ServerRows /\ Release!Counted.live = releaseServer.live
<1>1. releaseNow + CampaignWindow \in Nat
  OBVIOUS
<1> QED BY <1>1, ServerChanges DEF Release!Counted

LEMMA ServeFine ==
  ASSUME ReleaseInv, NEW what \in Release!Requests
  PROVE  LET a == Release!Serve(what)
         IN /\ a.server \in ServerRows /\ a.account \in AccountRows
            /\ (/\ what \in {"play", "refresh", "evidence"}
                /\ releaseAccount = None /\ releaseServer.live = {})
                  => a.account = None /\ a.server.live = {}
<1> DEFINE srv == IF what \in Release!Limited THEN Release!Counted ELSE releaseServer
           signed == [srv EXCEPT !.tokens = Release!NewToken, !.live = srv.live \cup {Release!NewToken}]
           rotated == [signed EXCEPT !.live = signed.live \ {releaseRun.cookie}]
<1>1. releaseNow \in Nat /\ releaseServer \in ServerRows /\ CampaignWindow \in Nat
  BY InstancesAssumption DEF ReleaseInv, Release!CampaignAssumption
<1>2. srv \in ServerRows /\ srv.live = releaseServer.live
  BY <1>1, CountedFine
<1>3. Release!NewToken \in Nat
  BY <1>1 DEF Release!NewToken, ServerRows
<1> HIDE DEF srv
<1>4. signed \in ServerRows
  BY <1>2, <1>3, TokenAdded
<1> HIDE DEF signed
<1>5. rotated \in ServerRows
  <2>1. signed.live \ {releaseRun.cookie} \in SUBSET Nat
    BY <1>4 DEF ServerRows
  <2> QED BY <1>1, <1>4, <2>1, ServerChanges
<1> HIDE DEF rotated
<1>6. releaseAccount \in AccountRows
  BY DEF ReleaseInv
<1>7. ASSUME releaseAccount # None
      PROVE  [releaseAccount EXCEPT !.armed = FALSE, !.verified = TRUE] \in AccountRows
  BY <1>6, <1>7 DEF AccountRows
<1>8. [armed |-> FALSE, verified |-> FALSE, admin |-> FALSE] \in AccountRows
  BY DEF AccountRows
<1> DEFINE a == Release!Serve(what)
<1>9. CASE what \in Release!Limited /\ ~Release!Admits
  <2>1. a = Release!Answer(429, releaseServer, releaseAccount)
    BY <1>9 DEF Release!Serve, Release!Limited
  <2> QED BY <1>1, <1>6, <2>1 DEF Release!Answer
<1>10. ASSUME ~(what \in Release!Limited /\ ~Release!Admits)
       PROVE  LET refused(status) == Release!Answer(status, srv, releaseAccount)
              IN a = CASE what = "register" ->
                            IF releaseAccount = None
                              THEN Release!Answer(201, srv, [armed |-> FALSE, verified |-> FALSE, admin |-> FALSE])
                              ELSE refused(409)
                       [] what = "verify" ->
                            IF releaseAccount # None /\ releaseAccount.armed
                              THEN Release!Answer(200, srv, [releaseAccount EXCEPT !.armed = FALSE, !.verified = TRUE])
                              ELSE refused(400)
                       [] what \in {"login", "evidence"} ->
                            IF Release!Usable THEN Release!Answer(200, signed, releaseAccount) ELSE refused(401)
                       [] what = "refresh" ->
                            IF releaseRun.cookie \in srv.live
                              THEN Release!Answer(200, rotated, releaseAccount)
                              ELSE refused(401)
                       [] what = "refreshOld" -> refused(IF releaseRun.oldCookie \in srv.live THEN 200 ELSE 401)
                       [] what = "play" ->
                            refused(IF Release!Usable /\ releaseNow < releaseRun.access + TokenLife THEN 200 ELSE 401)
  BY <1>10 DEF Release!Serve, Release!Requests, rotated, signed, srv
<1>11. CASE ~(what \in Release!Limited /\ ~Release!Admits)
  <2>1. CASE what = "register"
    <3>1. releaseAccount = None =>
            a = Release!Answer(201, srv, [armed |-> FALSE, verified |-> FALSE, admin |-> FALSE])
      BY <1>10, <1>11, <2>1
    <3>2. releaseAccount # None => a = Release!Answer(409, srv, releaseAccount)
      BY <1>10, <1>11, <2>1
    <3>3. what \notin {"play", "refresh", "evidence"}
      BY <2>1
    <3>4. CASE releaseAccount = None
      <4> DEFINE new == [armed |-> FALSE, verified |-> FALSE, admin |-> FALSE]
      <4>1. new \in AccountRows
        BY <1>8
      <4> HIDE DEF new
      <4>2. Release!Answer(201, srv, new).server = srv /\ Release!Answer(201, srv, new).account = new
        BY DEF Release!Answer
      <4>3. a = Release!Answer(201, srv, new)
        BY <3>1, <3>4 DEF new
      <4> QED BY <1>2, <3>3, <4>1, <4>2, <4>3
    <3>5. CASE releaseAccount # None
      BY <1>2, <1>6, <3>2, <3>3, <3>5 DEF Release!Answer
    <3> QED BY <3>4, <3>5
  <2>2. CASE what = "verify"
    BY <1>2, <1>6, <1>7, <1>10, <1>11, <2>2 DEF Release!Answer
  <2>3. CASE what \in {"login", "evidence"}
    BY <1>2, <1>4, <1>6, <1>10, <1>11, <2>3 DEF Release!Answer, Release!Usable
  <2>4. CASE what = "refresh"
    BY <1>2, <1>5, <1>6, <1>10, <1>11, <2>4 DEF Release!Answer
  <2>5. CASE what = "refreshOld"
    BY <1>2, <1>6, <1>10, <1>11, <2>5 DEF Release!Answer
  <2>6. CASE what = "play"
    BY <1>2, <1>6, <1>10, <1>11, <2>6 DEF Release!Answer
  <2> QED BY <2>1, <2>2, <2>3, <2>4, <2>5, <2>6 DEF Release!Requests
<1> QED BY <1>9, <1>11

(* The changes of a campaign's record, and what they leave as it was. *)
Ended(r, outcome, stage) == [r EXCEPT !.outcome = outcome, !.stage = stage, !.inFlight = FALSE]
Stepped(r, step) == [r EXCEPT !.step = step, !.inFlight = FALSE]
Sending(r) == [r EXCEPT !.inFlight = TRUE]
Woken(r, n) == [r EXCEPT !.wake = n]
Started(r, n) == [r EXCEPT !.start = n]
Delayed(r, n) == [r EXCEPT !.late = n]
Signed(r, access, cookie, old) == [r EXCEPT !.access = access, !.cookie = cookie, !.oldCookie = old]

LEMMA CampaignEnded ==
  ASSUME NEW r \in CampaignRows, NEW outcome \in {"clear", "present", "unknown"}, NEW stage \in Stages
  PROVE  /\ Ended(r, outcome, stage) \in CampaignRows /\ Ended(r, outcome, stage).step = r.step
         /\ Ended(r, outcome, stage).outcome = outcome /\ ~Ended(r, outcome, stage).inFlight
BY DEF CampaignRows, Ended

LEMMA CampaignStepped ==
  ASSUME NEW r \in CampaignRows, NEW step \in 1 .. LastStep
  PROVE  /\ Stepped(r, step) \in CampaignRows /\ Stepped(r, step).step = step
         /\ Stepped(r, step).outcome = r.outcome /\ ~Stepped(r, step).inFlight
BY DEF CampaignRows, Stepped

LEMMA CampaignSends ==
  ASSUME NEW r \in CampaignRows
  PROVE  Sending(r) \in CampaignRows /\ Sending(r).step = r.step /\ Sending(r).outcome = r.outcome
BY DEF CampaignRows, Sending

LEMMA CampaignKeeps ==
  ASSUME NEW r \in CampaignRows, NEW n \in Nat
  PROVE  \A v \in {Woken(r, n), Started(r, n), Delayed(r, n)} :
           v \in CampaignRows /\ v.step = r.step /\ v.outcome = r.outcome /\ v.inFlight = r.inFlight
<1>1. LET v == Woken(r, n)
      IN v \in CampaignRows /\ v.step = r.step /\ v.outcome = r.outcome /\ v.inFlight = r.inFlight
  BY DEF CampaignRows, Woken
<1>2. LET v == Started(r, n)
      IN v \in CampaignRows /\ v.step = r.step /\ v.outcome = r.outcome /\ v.inFlight = r.inFlight
  BY DEF CampaignRows, Started
<1>3. LET v == Delayed(r, n)
      IN v \in CampaignRows /\ v.step = r.step /\ v.outcome = r.outcome /\ v.inFlight = r.inFlight
  BY DEF CampaignRows, Delayed
<1> QED BY <1>1, <1>2, <1>3

LEMMA CampaignSigns ==
  ASSUME NEW r \in CampaignRows, NEW access \in Nat, NEW cookie \in Nat, NEW old \in Nat
  PROVE  LET v == Signed(r, access, cookie, old)
         IN v \in CampaignRows /\ v.step = r.step /\ v.outcome = r.outcome
BY DEF CampaignRows, Signed

LEMMA DoneFine ==
  ASSUME ReleaseInv, NEW r \in CampaignRows, r.step = releaseRun.step, r.outcome = None,
         Release!Done(r)
  PROVE  /\ releaseRun' \in CampaignRows /\ ~releaseRun'.inFlight
         /\ \/ releaseRun'.step = LastStep /\ releaseRun.step = LastStep
            \/ releaseRun'.step = releaseRun.step + 1 /\ releaseRun'.outcome = None
<1>1. CampaignLimit \in Nat /\ Release!Here.stage \in Stages /\ Len(Release!Script) = LastStep
  BY HereFine, ScriptShape
<1>2. r.step \in 1 .. LastStep
  BY DEF CampaignRows
<1>3. CASE r.step = LastStep
  <2>1. releaseRun' = Ended(r, "clear", Release!Here.stage)
    BY <1>1, <1>3 DEF Release!Done, Ended
  <2> QED BY <1>1, <1>3, <2>1, CampaignEnded
<1>4. CASE r.step # LastStep
  <2>1. releaseRun' = Stepped(r, r.step + 1)
    BY <1>1, <1>4 DEF Release!Done, Stepped
  <2>2. r.step + 1 \in 1 .. LastStep
    BY <1>1, <1>2, <1>4 DEF LastStep
  <2> QED BY <2>1, <2>2, CampaignStepped
<1> QED BY <1>3, <1>4

(* A step of the campaign leaves the workflow where it is. *)
LEMMA CampaignMoves ==
  ASSUME ReleaseInv, Release!Running, UNCHANGED releaseFlow, releaseNow' \in Nat,
         releaseRun' \in CampaignRows, releaseServer' \in ServerRows, releaseAccount' \in AccountRows,
         releaseRun'.inFlight => Release!Here'.what \in Release!Requests,
         releaseRun'.step > UiStep => releaseAccount' = None /\ releaseServer'.live = {},
         releaseRun'.outcome = "clear" => releaseRun'.step = LastStep
  PROVE  ReleaseInv'
<1>1. /\ releaseFlow.at = "campaign" /\ releaseFlow.main = "unknown"
      /\ releaseFlow.recovery = "not-required" /\ releaseFlow.decision = None
      /\ releaseRun.outcome = None
  BY DEF ReleaseInv, Release!Running
<1>2. None # "clear"
  BY InstancesAssumption DEF Release!CampaignAssumption
<1>3. releaseFlow.campaign # "clear"
  BY <1>1, <1>2 DEF ReleaseInv
<1>4. Release!DecisionEarned'
  BY <1>1, <1>2 DEF Release!DecisionEarned
<1> QED BY <1>1, <1>3, <1>4 DEF ReleaseInv

LEMMA EndsFine ==
  ASSUME ReleaseInv, Release!Running, NEW outcome \in {"present", "unknown"}, Release!End(outcome),
         UNCHANGED <<releaseFlow, releaseNow>>,
         releaseServer' \in ServerRows, releaseAccount' \in AccountRows,
         releaseRun.step > UiStep => releaseAccount' = None /\ releaseServer'.live = {}
  PROVE  ReleaseInv'
<1>1. Release!Here.stage \in Stages
  BY HereFine
<1>2. releaseRun \in CampaignRows /\ releaseNow \in Nat
  BY DEF ReleaseInv
<1>3. /\ releaseRun' \in CampaignRows /\ releaseRun'.step = releaseRun.step
      /\ releaseRun'.outcome = outcome /\ ~releaseRun'.inFlight
  <2>1. outcome \in {"clear", "present", "unknown"}
    OBVIOUS
  <2>2. releaseRun' = Ended(releaseRun, outcome, Release!Here.stage)
    BY DEF Release!End, Ended
  <2> QED BY <1>1, <1>2, <2>1, <2>2, CampaignEnded
<1>4. /\ releaseRun'.inFlight => Release!Here'.what \in Release!Requests
      /\ releaseRun'.outcome = "clear" => releaseRun'.step = LastStep
      /\ releaseRun'.step > UiStep => releaseAccount' = None /\ releaseServer'.live = {}
      /\ releaseNow' \in Nat
  BY <1>2, <1>3
<1> QED BY <1>3, <1>4, CampaignMoves

(* Before the deletion in the browser a step leads at most to it. *)
LEMMA StepsOn ==
  ASSUME ReleaseInv, Release!Running, NEW r \in CampaignRows, r.step = releaseRun.step,
         r.outcome = None, Release!Done(r), UNCHANGED <<releaseFlow, releaseNow>>,
         releaseServer' \in ServerRows, releaseAccount' \in AccountRows,
         releaseRun.step >= UiStep => releaseAccount' = None /\ releaseServer'.live = {}
  PROVE  ReleaseInv'
<1>1. /\ releaseRun' \in CampaignRows /\ ~releaseRun'.inFlight
      /\ \/ releaseRun'.step = LastStep /\ releaseRun.step = LastStep
         \/ releaseRun'.step = releaseRun.step + 1 /\ releaseRun'.outcome = None
  BY DoneFine
<1>2. CampaignLimit \in Nat /\ UiStep \in Nat /\ LastStep \in Nat /\ UiStep < LastStep
  BY HereFine DEF UiStep, LastStep
<1>3. releaseRun.step \in 1 .. LastStep /\ releaseRun'.step \in 1 .. LastStep
  BY <1>1 DEF ReleaseInv, CampaignRows
<1>4. None # "clear"
  BY InstancesAssumption DEF Release!CampaignAssumption
<1>5. releaseRun'.step > UiStep => releaseRun.step >= UiStep
  BY <1>1, <1>2, <1>3
<1>6. releaseRun'.outcome = "clear" => releaseRun'.step = LastStep
  BY <1>1, <1>4
<1>7. releaseNow' \in Nat
  BY DEF ReleaseInv
<1> QED BY <1>1, <1>5, <1>6, <1>7, CampaignMoves

LEMMA AnsweredFine ==
  ASSUME ReleaseInv, Release!Answered
  PROVE  ReleaseInv'
<1> DEFINE a == Release!Serve(Release!Here.what)
<1>1. Release!Running /\ releaseRun.inFlight /\ Release!Here.what \in Release!Requests
  BY DEF Release!Answered, ReleaseInv
<1>2. CampaignLimit \in Nat /\ UiStep \in Nat /\ releaseRun \in CampaignRows
  BY HereFine DEF UiStep, ReleaseInv
<1>3. /\ a.server \in ServerRows /\ a.account \in AccountRows
      /\ (/\ Release!Here.what \in {"play", "refresh", "evidence"}
          /\ releaseAccount = None /\ releaseServer.live = {})
            => a.account = None /\ a.server.live = {}
  BY <1>1, ServeFine
<1>4. /\ releaseServer' = a.server /\ releaseAccount' = a.account
      /\ UNCHANGED <<releaseFlow, releaseNow>>
      /\ \/ Release!End("present")
         \/ Release!Done([releaseRun EXCEPT !.wake = Release!RetryAfter])
         \/ Release!Done(Release!Keep(Release!Here.what))
         \/ Release!Done(releaseRun)
  BY DEF Release!Answered
<1> HIDE DEF a
<1>5. releaseRun.step > UiStep => releaseAccount' = None /\ releaseServer'.live = {}
  BY <1>3, <1>4, HereFine DEF ReleaseInv
<1>6. releaseRun.step # UiStep
  <2>1. "ui" \notin Release!Requests
    BY DEF Release!Requests
  <2> QED BY <1>1, <2>1, HereFine
<1>7. releaseRun.step >= UiStep => releaseRun.step > UiStep
  BY <1>2, <1>6 DEF CampaignRows, LastStep
<1>8. CASE Release!End("present")
  BY <1>1, <1>3, <1>4, <1>5, <1>8, EndsFine
<1>9. releaseRun.outcome = None
  BY <1>1 DEF Release!Running
<1>10. ASSUME NEW r \in CampaignRows, r.step = releaseRun.step, r.outcome = None, Release!Done(r)
       PROVE  ReleaseInv'
  BY <1>1, <1>3, <1>4, <1>5, <1>7, <1>10, StepsOn
<1>11. CASE Release!Done(releaseRun)
  BY <1>2, <1>9, <1>10, <1>11
<1>12. CASE Release!Done([releaseRun EXCEPT !.wake = Release!RetryAfter])
  <2>1. Release!RetryAfter \in Nat
    BY DEF Release!RetryAfter, ReleaseInv, ServerRows
  <2>2. Release!Done(Woken(releaseRun, Release!RetryAfter))
    BY <1>12 DEF Woken
  <2> QED BY <1>2, <1>9, <1>10, <2>1, <2>2, CampaignKeeps
<1>13. CASE Release!Done(Release!Keep(Release!Here.what))
  <2>1. releaseNow \in Nat /\ Release!NewToken \in Nat /\ releaseRun.cookie \in Nat
    BY <1>2 DEF Release!NewToken, ReleaseInv, ServerRows, CampaignRows
  <2>2. LET r == Release!Keep(Release!Here.what)
        IN r \in CampaignRows /\ r.step = releaseRun.step /\ r.outcome = None
    <3>1. Release!Keep(Release!Here.what)
            \in {Signed(releaseRun, releaseNow, Release!NewToken, releaseRun.cookie), releaseRun}
      BY DEF Release!Keep, Signed
    <3>2. LET v == Signed(releaseRun, releaseNow, Release!NewToken, releaseRun.cookie)
          IN v \in CampaignRows /\ v.step = releaseRun.step /\ v.outcome = releaseRun.outcome
      <4>1. releaseRun \in CampaignRows /\ releaseNow \in Nat /\ Release!NewToken \in Nat /\ releaseRun.cookie \in Nat
        BY <1>2, <2>1
      <4>2. \A r \in CampaignRows, access \in Nat, cookie \in Nat, old \in Nat :
              LET v == Signed(r, access, cookie, old)
              IN v \in CampaignRows /\ v.step = r.step /\ v.outcome = r.outcome
        BY CampaignSigns
      <4> QED BY <4>1, <4>2, Zenon
    <3> QED BY <1>2, <1>9, <3>1, <3>2
  <2> QED BY <1>10, <1>13, <2>2
<1> QED BY <1>4, <1>8, <1>11, <1>12, <1>13

LEMMA LostFine ==
  ASSUME ReleaseInv, Release!Lost \/ Release!Unavailable
  PROVE  ReleaseInv'
<1> DEFINE a == Release!Serve(Release!Here.what)
<1>1. Release!Running /\ releaseRun.inFlight /\ Release!Here.what \in Release!Requests
      /\ UNCHANGED <<releaseFlow, releaseNow>>
  BY DEF Release!Lost, Release!Unavailable, ReleaseInv
<1>2. /\ a.server \in ServerRows /\ a.account \in AccountRows
      /\ (/\ Release!Here.what \in {"play", "refresh", "evidence"}
          /\ releaseAccount = None /\ releaseServer.live = {})
            => a.account = None /\ a.server.live = {}
  BY <1>1, ServeFine
<1>3. \/ UNCHANGED <<releaseServer, releaseAccount>>
      \/ releaseServer' = a.server /\ releaseAccount' = a.account
  BY DEF Release!Lost, Release!Unavailable
<1> HIDE DEF a
<1>4. releaseServer' \in ServerRows /\ releaseAccount' \in AccountRows
  BY <1>2, <1>3 DEF ReleaseInv
<1>5. releaseRun.step > UiStep => releaseAccount' = None /\ releaseServer'.live = {}
  BY <1>2, <1>3, HereFine DEF ReleaseInv
<1>6. Release!End("present") \/ Release!End("unknown")
  BY DEF Release!Lost, Release!Unavailable
<1> QED BY <1>1, <1>4, <1>5, <1>6, EndsFine

(* A step that only moves the request, the start or the lateness. *)
LEMMA RequestSentFine ==
  ASSUME ReleaseInv, Release!Send
  PROVE  ReleaseInv'
<1>1. /\ Release!Running /\ Release!Here.what \in Release!Requests
      /\ releaseRun' = Sending(releaseRun)
      /\ UNCHANGED <<releaseNow, releaseAccount, releaseServer, releaseFlow>>
  BY DEF Release!Send, Sending
<1>2. releaseRun \in CampaignRows
  BY DEF ReleaseInv
<1>3. releaseRun' \in CampaignRows /\ releaseRun'.step = releaseRun.step
      /\ releaseRun'.outcome = releaseRun.outcome
  BY <1>1, <1>2, CampaignSends
<1>4. Release!Here'.what = Release!Here.what
  BY <1>3 DEF Release!Here
<1> QED BY <1>1, <1>3, <1>4, CampaignMoves DEF ReleaseInv

LEMMA TickFine ==
  ASSUME ReleaseInv, Release!Tick
  PROVE  ReleaseInv'
<1>1. Release!Running /\ UNCHANGED <<releaseAccount, releaseServer, releaseFlow>>
      /\ (UNCHANGED releaseRun \/ releaseRun' = Delayed(releaseRun, releaseRun.late + 1))
  BY DEF Release!Tick, Delayed
<1>2. releaseRun \in CampaignRows /\ releaseNow' \in Nat
  BY DEF ReleaseInv, Release!Tick
<1>3. releaseRun.late + 1 \in Nat
  BY <1>2 DEF CampaignRows
<1>4. /\ releaseRun' \in CampaignRows /\ releaseRun'.step = releaseRun.step
      /\ releaseRun'.outcome = releaseRun.outcome /\ releaseRun'.inFlight = releaseRun.inFlight
  <2>1. CASE UNCHANGED releaseRun
    BY <1>2, <2>1
  <2>2. CASE releaseRun' = Delayed(releaseRun, releaseRun.late + 1)
    BY <1>2, <1>3, <2>2, CampaignKeeps
  <2> QED BY <1>1, <2>1, <2>2
<1>5. Release!Here'.what = Release!Here.what
  BY <1>4 DEF Release!Here
<1> QED BY <1>1, <1>2, <1>4, <1>5, CampaignMoves DEF ReleaseInv

LEMMA AccountArmed ==
  ASSUME releaseAccount \in AccountRows, releaseAccount # None
  PROVE  [releaseAccount EXCEPT !.armed = TRUE] \in AccountRows
BY DEF AccountRows

(* Arming, waiting and the deletion in the browser. *)
LEMMA ArmFine ==
  ASSUME ReleaseInv, Release!Arm
  PROVE  ReleaseInv'
<1>1. /\ Release!Running /\ Release!Here.what = "arm"
      /\ UNCHANGED <<releaseNow, releaseServer, releaseFlow>>
  BY DEF Release!Arm
<1>2. ~(releaseRun.step >= UiStep)
  <2>1. UiStep \in Nat /\ releaseRun.step \in Nat
    BY HereFine DEF UiStep, LastStep, ReleaseInv, CampaignRows
  <2> QED BY <1>1, <2>1, HereFine
<1>3. releaseServer' \in ServerRows /\ releaseRun \in CampaignRows /\ releaseRun.outcome = None
  BY <1>1 DEF ReleaseInv, Release!Running
<1>4. releaseAccount' \in AccountRows
  BY AccountArmed DEF Release!Arm, Release!Armable, ReleaseInv
<1>5. Release!Done(releaseRun) \/ Release!End("unknown")
  BY DEF Release!Arm
<1>6. ~(releaseRun.step > UiStep)
  BY <1>2, HereFine DEF UiStep, ReleaseInv, CampaignRows, LastStep
<1>7. CASE Release!Done(releaseRun)
  BY <1>1, <1>2, <1>3, <1>4, <1>7, StepsOn
<1>8. CASE Release!End("unknown")
  BY <1>1, <1>3, <1>4, <1>6, <1>8, EndsFine
<1> QED BY <1>5, <1>7, <1>8

LEMMA WaitFine ==
  ASSUME ReleaseInv, Release!Wait
  PROVE  ReleaseInv'
<1>1. /\ Release!Running /\ Release!Here.what \in {"waitWindow", "waitReset"} /\ Release!Done(releaseRun)
      /\ UNCHANGED <<releaseNow, releaseServer, releaseAccount, releaseFlow>>
  BY DEF Release!Wait, Release!Waits
<1>2. ~(releaseRun.step >= UiStep)
  <2>1. UiStep \in Nat /\ releaseRun.step \in Nat
    BY HereFine DEF UiStep, LastStep, ReleaseInv, CampaignRows
  <2> QED BY <1>1, <2>1, HereFine
<1>3. releaseServer' \in ServerRows /\ releaseRun \in CampaignRows /\ releaseRun.outcome = None
      /\ releaseAccount' \in AccountRows
  BY <1>1 DEF ReleaseInv, Release!Running
<1> QED BY <1>1, <1>2, <1>3, StepsOn

LEMMA UiPhaseFine ==
  ASSUME ReleaseInv, Release!UiPhase
  PROVE  ReleaseInv'
<1>1. Release!Running /\ Release!Here.what = "ui" /\ UNCHANGED <<releaseNow, releaseFlow>>
  BY DEF Release!UiPhase
<1>2. ~(releaseRun.step > UiStep)
  BY <1>1, HereFine
<1>3. releaseRun \in CampaignRows /\ releaseRun.outcome = None /\ releaseServer \in ServerRows
      /\ releaseNow \in Nat /\ CampaignWindow \in Nat
  BY <1>1, InstancesAssumption DEF ReleaseInv, Release!Running, Release!CampaignAssumption
<1>4. CASE UNCHANGED <<releaseAccount, releaseServer>> /\ Release!End("unknown")
  BY <1>1, <1>2, <1>4, EndsFine DEF ReleaseInv
<1>5. CASE /\ releaseAccount' = None
           /\ releaseServer' = [Release!Counted EXCEPT !.tokens = Release!NewToken, !.live = {}]
           /\ Release!Done(releaseRun)
  <2>1. Release!Counted \in ServerRows /\ Release!NewToken \in Nat
    BY <1>3, CountedFine DEF Release!NewToken, ServerRows
  <2>2. \A s \in ServerRows, n \in Nat :
          /\ [s EXCEPT !.tokens = n, !.live = {}] \in ServerRows
          /\ [s EXCEPT !.tokens = n, !.live = {}].live = {}
    BY DEF ServerRows
  <2>3. releaseServer' \in ServerRows /\ releaseServer'.live = {}
    BY <1>5, <2>1, <2>2
  <2>4. releaseAccount' \in AccountRows
    BY <1>5 DEF AccountRows
  <2> QED BY <1>1, <1>3, <1>5, <2>3, <2>4, StepsOn
<1> QED BY <1>4, <1>5 DEF Release!UiPhase

(* The workflow's own steps. *)
Led(f, at) == [f EXCEPT !.at = at]
CampaignTold(f, at, status) == [f EXCEPT !.at = at, !.campaign = status]
MainTold(f, status, at) == [f EXCEPT !.main = status, !.at = at]
RecoveryTold(f, status, at) == [f EXCEPT !.recovery = status, !.at = at]
Decided(f, at, decision) == [f EXCEPT !.at = at, !.decision = decision]

LEMMA FlowChanges ==
  ASSUME NEW f \in FlowRows, NEW status \in {"clear", "unknown"},
         NEW at \in {"preflight", "campaign", "cleanup", "recovery", "decide", "done"}
  PROVE  /\ LET g == Led(f, at)
            IN /\ g \in FlowRows /\ g.at = at /\ g.campaign = f.campaign /\ g.main = f.main
               /\ g.recovery = f.recovery /\ g.decision = f.decision
         /\ LET g == CampaignTold(f, at, status)
            IN /\ g \in FlowRows /\ g.at = at /\ g.campaign = status /\ g.main = f.main
               /\ g.recovery = f.recovery /\ g.decision = f.decision
         /\ LET g == MainTold(f, status, at)
            IN /\ g \in FlowRows /\ g.at = at /\ g.campaign = f.campaign /\ g.main = status
               /\ g.recovery = f.recovery /\ g.decision = f.decision
         /\ LET g == RecoveryTold(f, status, at)
            IN /\ g \in FlowRows /\ g.at = at /\ g.campaign = f.campaign /\ g.main = f.main
               /\ g.recovery = status /\ g.decision = f.decision
         /\ LET g == Decided(f, at, status)
            IN /\ g \in FlowRows /\ g.at = at /\ g.campaign = f.campaign /\ g.main = f.main
               /\ g.recovery = f.recovery /\ g.decision = status
<1>1. LET g == Led(f, at)
      IN /\ g \in FlowRows /\ g.at = at /\ g.campaign = f.campaign /\ g.main = f.main
         /\ g.recovery = f.recovery /\ g.decision = f.decision
  BY DEF FlowRows, Led
<1>2. LET g == CampaignTold(f, at, status)
      IN /\ g \in FlowRows /\ g.at = at /\ g.campaign = status /\ g.main = f.main
         /\ g.recovery = f.recovery /\ g.decision = f.decision
  BY DEF FlowRows, CampaignTold
<1>3. LET g == MainTold(f, status, at)
      IN /\ g \in FlowRows /\ g.at = at /\ g.campaign = f.campaign /\ g.main = status
         /\ g.recovery = f.recovery /\ g.decision = f.decision
  BY DEF FlowRows, MainTold
<1>4. LET g == RecoveryTold(f, status, at)
      IN /\ g \in FlowRows /\ g.at = at /\ g.campaign = f.campaign /\ g.main = f.main
         /\ g.recovery = status /\ g.decision = f.decision
  BY DEF FlowRows, RecoveryTold
<1>5. LET g == Decided(f, at, status)
      IN /\ g \in FlowRows /\ g.at = at /\ g.campaign = f.campaign /\ g.main = f.main
         /\ g.recovery = f.recovery /\ g.decision = status
  BY DEF FlowRows, Decided
<1> QED BY <1>1, <1>2, <1>3, <1>4, <1>5

(* A cleanup either finds nobody, or removes the account it is sure of. *)
LEMMA RemoveFine ==
  ASSUME ReleaseInv, NEW failed \in BOOLEAN, Release!Remove(failed)
  PROVE  /\ releaseServer' \in ServerRows /\ releaseAccount' \in AccountRows
         /\ releaseAccount = None => releaseAccount' = None
         /\ releaseRun.step > UiStep => releaseAccount' = None /\ releaseServer'.live = {}
         /\ Release!Status(failed) \in {"clear", "unknown"}
         /\ Release!Status(failed) = "clear" => releaseAccount' = None
<1>1. releaseServer \in ServerRows /\ releaseAccount \in AccountRows
  BY DEF ReleaseInv
<1>2. \/ UNCHANGED <<releaseAccount, releaseServer>>
      \/ /\ releaseAccount # None /\ releaseAccount' = None
         /\ releaseServer' = [releaseServer EXCEPT !.live = {}]
  BY DEF Release!Remove, Release!Removed, Release!Exact
<1>3. releaseServer' \in ServerRows
  <2>1. \A s \in ServerRows : [s EXCEPT !.live = {}] \in ServerRows
    BY DEF ServerRows
  <2> QED BY <1>1, <1>2, <2>1
<1>4. releaseAccount' \in AccountRows
  BY <1>1, <1>2 DEF AccountRows
<1>5. Release!Status(failed) = "clear" => releaseAccount' = None
  BY DEF Release!Status, Release!Remove, Release!Removed
<1>6. releaseRun.step > UiStep => releaseAccount' = None /\ releaseServer'.live = {}
  BY <1>2 DEF ReleaseInv
<1> QED BY <1>2, <1>3, <1>4, <1>5, <1>6 DEF Release!Status

LEMMA PreflightFine ==
  ASSUME ReleaseInv, Release!Preflight
  PROVE  ReleaseInv'
<1>1. /\ releaseFlow.at = "preflight" /\ releaseFlow.main = "unknown"
      /\ releaseFlow.recovery = "not-required" /\ releaseFlow.decision = None
      /\ releaseFlow \in FlowRows /\ releaseRun \in CampaignRows /\ releaseNow \in Nat
  BY DEF ReleaseInv, Release!Preflight
<1>2. UNCHANGED <<releaseNow, releaseAccount, releaseServer>>
  BY DEF Release!Preflight
<1>3. /\ releaseFlow' \in FlowRows /\ releaseFlow'.at \in {"campaign", "recovery"}
      /\ releaseFlow'.campaign = releaseFlow.campaign /\ releaseFlow'.main = "unknown"
      /\ releaseFlow'.recovery = "not-required" /\ releaseFlow'.decision = None
  <2>1. \E at \in {"campaign", "recovery"} : releaseFlow' = Led(releaseFlow, at)
    BY DEF Release!Preflight, Led
  <2> QED BY <1>1, <2>1, FlowChanges
<1>4. /\ releaseRun' \in CampaignRows /\ releaseRun'.step = releaseRun.step
      /\ releaseRun'.outcome = releaseRun.outcome /\ releaseRun'.inFlight = releaseRun.inFlight
  <2>1. UNCHANGED releaseRun \/ releaseRun' = Started(releaseRun, releaseNow)
    BY DEF Release!Preflight, Started
  <2> QED BY <1>1, <2>1, CampaignKeeps
<1>5. Release!Here' = Release!Here
  BY <1>4 DEF Release!Here
<1>6. None # "clear"
  BY InstancesAssumption DEF Release!CampaignAssumption
<1>7. Release!DecisionEarned'
  BY <1>3, <1>6 DEF Release!DecisionEarned
<1> QED BY <1>2, <1>3, <1>4, <1>5, <1>7 DEF ReleaseInv

LEMMA CampaignEndsFine ==
  ASSUME ReleaseInv, Release!CampaignEnds
  PROVE  ReleaseInv'
<1>1. /\ releaseFlow.at = "campaign" /\ releaseFlow.main = "unknown"
      /\ releaseFlow.recovery = "not-required" /\ releaseFlow.decision = None
      /\ releaseFlow \in FlowRows
  BY DEF ReleaseInv, Release!CampaignEnds
<1>2. UNCHANGED <<releaseNow, releaseAccount, releaseServer, releaseRun>>
  BY DEF Release!CampaignEnds
<1>3. PICK status \in {"clear", "unknown"} :
        /\ status = "clear" => releaseRun.outcome = "clear"
        /\ releaseFlow' = CampaignTold(releaseFlow, "cleanup", status)
  BY DEF Release!CampaignEnds, CampaignTold
<1>4. /\ releaseFlow' \in FlowRows /\ releaseFlow'.at = "cleanup"
      /\ releaseFlow'.campaign = status /\ releaseFlow'.main = "unknown"
      /\ releaseFlow'.recovery = "not-required" /\ releaseFlow'.decision = None
  BY <1>1, <1>3, FlowChanges
<1>5. Release!Here' = Release!Here
  BY <1>2 DEF Release!Here
<1>6. None # "clear"
  BY InstancesAssumption DEF Release!CampaignAssumption
<1>7. Release!DecisionEarned'
  BY <1>4, <1>6 DEF Release!DecisionEarned
<1> QED BY <1>2, <1>3, <1>4, <1>5, <1>7 DEF ReleaseInv

LEMMA CleanupsFine ==
  ASSUME ReleaseInv, Release!MainCleanup \/ Release!RecoveryCleanup
  PROVE  ReleaseInv'
<1>1. UNCHANGED <<releaseNow, releaseRun>> /\ releaseFlow \in FlowRows
  BY DEF Release!MainCleanup, Release!RecoveryCleanup, ReleaseInv
<1>2. Release!Here' = Release!Here
  BY <1>1 DEF Release!Here
<1>3. None # "clear"
  BY InstancesAssumption DEF Release!CampaignAssumption
<1>4. CASE Release!MainCleanup
  <2>1. PICK failed \in BOOLEAN :
          /\ Release!Remove(failed)
          /\ \E at \in {"decide", "recovery"} :
               releaseFlow' = MainTold(releaseFlow, Release!Status(failed), at)
    BY <1>4 DEF Release!MainCleanup, MainTold
  <2>2. /\ releaseServer' \in ServerRows /\ releaseAccount' \in AccountRows
        /\ releaseRun.step > UiStep => releaseAccount' = None /\ releaseServer'.live = {}
        /\ Release!Status(failed) \in {"clear", "unknown"}
        /\ Release!Status(failed) = "clear" => releaseAccount' = None
    BY <2>1, RemoveFine
  <2>3. releaseFlow.at = "cleanup" /\ releaseFlow.recovery = "not-required" /\ releaseFlow.decision = None
    BY <1>4 DEF Release!MainCleanup, ReleaseInv
  <2>4. /\ releaseFlow' \in FlowRows /\ releaseFlow'.at \in {"decide", "recovery"}
        /\ releaseFlow'.campaign = releaseFlow.campaign /\ releaseFlow'.main = Release!Status(failed)
        /\ releaseFlow'.recovery = "not-required" /\ releaseFlow'.decision = None
    BY <1>1, <2>1, <2>2, <2>3, FlowChanges
  <2>5. Release!DecisionEarned'
    BY <1>3, <2>2, <2>4 DEF Release!DecisionEarned
  <2> QED BY <1>1, <1>2, <2>2, <2>4, <2>5 DEF ReleaseInv
<1>5. CASE Release!RecoveryCleanup
  <2>1. PICK failed \in BOOLEAN :
          /\ Release!Remove(failed)
          /\ releaseFlow' = RecoveryTold(releaseFlow, Release!Status(failed), "decide")
    BY <1>5 DEF Release!RecoveryCleanup, RecoveryTold
  <2>2. /\ releaseServer' \in ServerRows /\ releaseAccount' \in AccountRows
        /\ releaseAccount = None => releaseAccount' = None
        /\ releaseRun.step > UiStep => releaseAccount' = None /\ releaseServer'.live = {}
        /\ Release!Status(failed) \in {"clear", "unknown"}
        /\ Release!Status(failed) = "clear" => releaseAccount' = None
    BY <2>1, RemoveFine
  <2>3. releaseFlow.at = "recovery" /\ releaseFlow.decision = None
    BY <1>5 DEF Release!RecoveryCleanup, ReleaseInv
  <2>4. /\ releaseFlow' \in FlowRows /\ releaseFlow'.at = "decide"
        /\ releaseFlow'.campaign = releaseFlow.campaign /\ releaseFlow'.main = releaseFlow.main
        /\ releaseFlow'.recovery = Release!Status(failed) /\ releaseFlow'.decision = None
    BY <1>1, <2>1, <2>2, <2>3, FlowChanges
  <2>5. Release!DecisionEarned'
    BY <1>3, <2>2, <2>4 DEF Release!DecisionEarned, ReleaseInv
  <2> QED BY <1>1, <1>2, <2>2, <2>4, <2>5 DEF ReleaseInv
<1> QED BY <1>4, <1>5

LEMMA DecideFine ==
  ASSUME ReleaseInv, Release!Decide
  PROVE  ReleaseInv'
<1>1. UNCHANGED <<releaseNow, releaseRun, releaseAccount, releaseServer>> /\ releaseFlow \in FlowRows
  BY DEF Release!Decide, ReleaseInv
<1>2. Release!Here' = Release!Here
  BY <1>1 DEF Release!Here
<1>3. PICK decision \in {"clear", "unknown"} :
        /\ decision = "clear" => releaseFlow.campaign = "clear"
        /\ releaseFlow' = Decided(releaseFlow, "done", decision)
  BY DEF Release!Decide, Decided
<1>4. /\ releaseFlow' \in FlowRows /\ releaseFlow'.at = "done"
      /\ releaseFlow'.campaign = releaseFlow.campaign /\ releaseFlow'.main = releaseFlow.main
      /\ releaseFlow'.recovery = releaseFlow.recovery /\ releaseFlow'.decision = decision
  BY <1>1, <1>3, FlowChanges
<1>5. decision = "clear" => releaseRun.outcome = "clear" /\ releaseServer.live = {}
  <2>1. UiStep \in Nat /\ LastStep \in Nat /\ LastStep > UiStep
    BY HereFine DEF UiStep, LastStep
  <2> QED BY <1>3, <2>1 DEF ReleaseInv
<1>6. Release!DecisionEarned'
  BY <1>1, <1>4, <1>5 DEF Release!DecisionEarned, ReleaseInv
<1> QED BY <1>1, <1>2, <1>4, <1>6 DEF ReleaseInv

LEMMA ReleaseStarts ==
  ASSUME Release!Init
  PROVE  ReleaseInv
<1>1. CampaignLimit \in Nat /\ None \notin {"clear", "present", "unknown"}
  BY InstancesAssumption DEF Release!CampaignAssumption
<1>2. 1 \in 1 .. LastStep
  BY <1>1 DEF LastStep
<1>3. releaseRun \in CampaignRows /\ releaseRun.step = 1 /\ ~releaseRun.inFlight /\ releaseRun.outcome = None
  BY <1>2 DEF Release!Init, Release!NotRunning, CampaignRows
<1>4. ~(releaseRun.step > UiStep)
  BY <1>1, <1>3 DEF UiStep
<1>5. /\ releaseFlow \in FlowRows /\ releaseFlow.at = "preflight" /\ releaseFlow.main = "unknown"
      /\ releaseFlow.campaign = "unknown" /\ releaseFlow.recovery = "not-required"
      /\ releaseFlow.decision = None
  BY DEF Release!Init, FlowRows
<1>6. releaseServer \in ServerRows
  BY DEF Release!Init, ServerRows
<1>7. releaseAccount \in AccountRows /\ releaseNow \in Nat
  BY DEF Release!Init, AccountRows
<1>8. Release!DecisionEarned
  BY <1>1, <1>5 DEF Release!DecisionEarned
<1> QED BY <1>1, <1>3, <1>4, <1>5, <1>6, <1>7, <1>8 DEF ReleaseInv

LEMMA ReleaseNext ==
  ASSUME ReleaseInv, [Release!Next]_(Release!vars)
  PROVE  ReleaseInv'
<1>1. CASE UNCHANGED Release!vars
  <2>1. UNCHANGED <<releaseNow, releaseAccount, releaseServer, releaseRun, releaseFlow, releaseFaults>>
    BY <1>1 DEF Release!vars
  <2>2. Release!Here' = Release!Here
    BY <2>1 DEF Release!Here
  <2> QED BY <2>1, <2>2 DEF ReleaseInv, Release!DecisionEarned
<1>2. CASE Release!Next
  BY <1>2, PreflightFine, RequestSentFine, AnsweredFine, LostFine, ArmFine, WaitFine, UiPhaseFine,
     CampaignEndsFine, CleanupsFine, DecideFine, TickFine DEF Release!Next
<1> QED BY <1>1, <1>2

----------------------------------------------------------------------------
(* The list of users: the users shown are in one order, the cursor is the   *)
(* last of them, and whoever belonged to the list all the time is shown or  *)
(* lies behind the cursor.                                                  *)

PlaceRows == [id : Ids, at : Int]
TableRows == [at : Int, role : {"USER", "ADMIN"}, active : BOOLEAN]

Filters ==
  [role : {"USER", "ADMIN", None}, status : {"active", "suspended", "deleted", None}]

WalkRows ==
  [filter : Filters, cursor : Ids \cup {None}, shown : Seq(PlaceRows),
   end : {"more", "done", "refused"}, steady : SUBSET Ids]

InPlace(shown) == \A i, j \in DOMAIN shown : i < j => List!Before(shown[i], shown[j])

(* The places of those who are still there are their places of now. *)
Standing(shown) ==
  \A i \in DOMAIN shown :
    listTable[shown[i].id] # None => listTable[shown[i].id].at = shown[i].at

CursorIsLast(shown, cursor) ==
  IF cursor = None THEN shown = << >> ELSE Len(shown) > 0 /\ shown[Len(shown)].id = cursor

Seen(shown, u) == \E i \in DOMAIN shown : shown[i].id = u

Behind(shown, cursor, u) == cursor = None \/ List!Before(shown[Len(shown)], List!Place(u))

WalkFine(w) ==
  /\ w \in WalkRows
  /\ InPlace(w.shown) /\ Standing(w.shown)
  /\ w.end = "more" => CursorIsLast(w.shown, w.cursor)
  /\ \A u \in w.steady :
       /\ List!Matches(listTable[u], w.filter)
       /\ w.end = "done" => Seen(w.shown, u)
       /\ w.end = "more" => Seen(w.shown, u) \/ Behind(w.shown, w.cursor, u)

ListInv ==
  /\ listTable \in [Ids -> TableRows \cup {None}] /\ listClock \in Int
  /\ listWalk = None \/ WalkFine(listWalk)

LEMMA ListConstants ==
  Ids \subseteq Nat /\ IsFiniteSet(Ids) /\ None \notin Ids /\ MaxPage \in Nat \ {0} /\ PageLimits \subseteq Int
BY InstancesAssumption DEF List!AdminUsersAssumption, List!IsFiniteSet, IsFiniteSet

(* The modules' cardinalities are the one the library's theorems are about. *)
LEMMA OneCardinality ==
  \A S : List!Cardinality(S) = Cardinality(S) /\ Trail!Cardinality(S) = Cardinality(S)
BY DEF List!Cardinality, Trail!Cardinality, Cardinality

LEMMA BeforeOrders ==
  ASSUME NEW a \in PlaceRows, NEW b \in PlaceRows, NEW c \in PlaceRows,
         List!Before(a, b), List!Before(b, c)
  PROVE  List!Before(a, c)
<1>1. a.id \in Nat /\ b.id \in Nat /\ c.id \in Nat /\ a.at \in Int /\ b.at \in Int /\ c.at \in Int
  BY ListConstants DEF PlaceRows
<1> QED BY <1>1 DEF List!Before

LEMMA PlaceFine ==
  ASSUME listTable \in [Ids -> TableRows \cup {None}], NEW u \in Ids, listTable[u] # None
  PROVE  List!Place(u) \in PlaceRows /\ List!Place(u).id = u /\ List!Place(u).at = listTable[u].at
<1>1. listTable[u] \in TableRows
  OBVIOUS
<1>2. listTable[u].at \in Int
  BY <1>1 DEF TableRows
<1> QED BY <1>2 DEF List!Place, PlaceRows

(* What a page adds to the users shown. *)
Extended(w, shown, cursor, end) == [w EXCEPT !.shown = shown, !.cursor = cursor, !.end = end]

LEMMA WalkExtended ==
  ASSUME NEW w \in WalkRows, NEW shown \in Seq(PlaceRows), NEW cursor \in Ids \cup {None},
         NEW end \in {"more", "done", "refused"}
  PROVE  LET v == Extended(w, shown, cursor, end)
         IN /\ v \in WalkRows /\ v.shown = shown /\ v.cursor = cursor /\ v.end = end
            /\ v.steady = w.steady /\ v.filter = w.filter
BY DEF WalkRows, Extended

LEMMA PageFine ==
  ASSUME ListInv, WalkFine(listWalk), listWalk.end = "more",
         ~(listWalk.cursor # None /\ listTable[listWalk.cursor] = None),
         NEW limit \in Nat \ {0},
         NEW wanted, wanted = List!Wanted(listWalk.filter, listWalk.cursor),
         NEW rows \in [1 .. Cardinality(wanted) -> wanted], List!Lists(rows, wanted)
  PROVE  LET page == List!Page(rows, limit)
             v == Extended(listWalk,
                    listWalk.shown \o [i \in DOMAIN page.users |-> List!Place(page.users[i])],
                    page.next, IF page.next = None THEN "done" ELSE "more")
         IN WalkFine(v)
<1> DEFINE page == List!Page(rows, limit)
           places == [i \in DOMAIN page.users |-> List!Place(page.users[i])]
           old == listWalk.shown
           L == Len(old)
           n == Cardinality(wanted)
           m == IF n > limit THEN limit ELSE n
           new == old \o places
           end == IF page.next = None THEN "done" ELSE "more"
<1>1. listTable \in [Ids -> TableRows \cup {None}]
  BY DEF ListInv
<1>2. /\ listWalk \in WalkRows /\ InPlace(old) /\ Standing(old) /\ CursorIsLast(old, listWalk.cursor)
      /\ old \in Seq(PlaceRows) /\ listWalk.cursor \in Ids \cup {None} /\ L \in Nat
      /\ \A i \in 1 .. L : old[i] \in PlaceRows
  BY DEF WalkFine, WalkRows
<1>3. wanted \subseteq Ids /\ n \in Nat
      /\ \A u \in wanted : listTable[u] # None /\ List!After(u, listWalk.cursor)
  <2>1. wanted \subseteq Ids
    BY DEF List!Wanted, List!Held
  <2>2. n \in Nat
    BY <2>1, ListConstants, FS_Subset, FS_CardinalityType
  <2> QED BY <2>1, <2>2 DEF List!Wanted, List!Held
<1>4. rows \in Seq(Ids) /\ Len(rows) = n /\ DOMAIN rows = 1 .. n /\ \A i \in 1 .. n : rows[i] \in wanted
  BY <1>3
<1>5. /\ Len(page.users) = m /\ DOMAIN page.users = 1 .. m /\ m \in 0 .. n
      /\ \A i \in 1 .. m : page.users[i] = rows[i]
      /\ page.next = IF n > limit THEN rows[limit] ELSE None
  <2>1. CASE n > limit
    BY <1>3, <1>4, <2>1 DEF List!Page
  <2>2. CASE ~(n > limit)
    BY <1>3, <1>4, <2>2 DEF List!Page
  <2> QED BY <2>1, <2>2
<1>6. /\ places \in Seq(PlaceRows) /\ Len(places) = m
      /\ \A i \in 1 .. m : places[i] = List!Place(rows[i])
      /\ \A i \in 1 .. n : List!Place(rows[i]) \in PlaceRows /\ List!Place(rows[i]).id = rows[i]
                           /\ List!Place(rows[i]).at = listTable[rows[i]].at
  <2>1. \A i \in 1 .. n : List!Place(rows[i]) \in PlaceRows /\ List!Place(rows[i]).id = rows[i]
                          /\ List!Place(rows[i]).at = listTable[rows[i]].at
    BY <1>1, <1>3, <1>4, PlaceFine
  <2>2. \A i \in 1 .. m : i \in 1 .. n
    BY <1>3, <1>5
  <2>3. DOMAIN places = 1 .. m /\ \A i \in 1 .. m : places[i] = List!Place(rows[i])
    BY <1>5
  <2>4. places = [i \in 1 .. m |-> List!Place(rows[i])]
    BY <1>5
  <2> HIDE DEF places, m, page, n
  <2>5. \A i \in 1 .. m : List!Place(rows[i]) \in PlaceRows
    BY <2>1, <2>2
  <2>6. places \in Seq(PlaceRows) /\ Len(places) = m
    BY <1>3, <1>5, <2>4, <2>5
  <2> QED BY <2>1, <2>3, <2>6
<1> HIDE DEF places, page
<1>7. /\ new \in Seq(PlaceRows) /\ Len(new) = L + m /\ DOMAIN new = 1 .. L + m
      /\ \A i \in 1 .. L : new[i] = old[i]
      /\ \A i \in 1 .. m : new[L + i] = List!Place(rows[i])
  <2>1. /\ new \in Seq(PlaceRows) /\ Len(new) = Len(old) + Len(places)
        /\ \A i \in 1 .. Len(old) + Len(places) :
             new[i] = IF i <= Len(old) THEN old[i] ELSE places[i - Len(old)]
    <3>1. old \in Seq(PlaceRows) /\ places \in Seq(PlaceRows)
      BY <1>2, <1>6
    <3> HIDE DEF old
    <3> QED BY <3>1, ConcatProperties
  <2> HIDE DEF new, m, n
  <2>7. L \in Nat /\ L = Len(old)
    BY <1>2
  <2> HIDE DEF L
  <2>8. Len(places) = m
    BY <1>6
  <2>6. m \in Nat /\ Len(places) = m
    BY <1>3, <1>5, <2>8
  <2>2. /\ new \in Seq(PlaceRows) /\ Len(new) = L + m /\ m \in Nat /\ L \in Nat
        /\ \A i \in 1 .. L + m : new[i] = IF i <= L THEN old[i] ELSE places[i - L]
    <3>1. \A i \in 1 .. L + m : i \in 1 .. Len(old) + Len(places)
      BY <2>6, <2>7
    <3> HIDE DEF old
    <3>2. \A i \in 1 .. L + m : new[i] = IF i <= L THEN old[i] ELSE places[i - L]
      BY <2>1, <2>7, <3>1
    <3>3. new \in Seq(PlaceRows) /\ Len(new) = L + m
      BY <2>1, <2>6, <2>7
    <3> QED BY <2>6, <2>7, <3>2, <3>3
  <2>3. \A i \in 1 .. L : new[i] = old[i]
    BY <2>2
  <2>4. \A i \in 1 .. m : new[L + i] = places[i]
    <3> TAKE i \in 1 .. m
    <3>1. L + i \in 1 .. L + m /\ ~(L + i <= L) /\ L + i - L = i
      BY <2>2
    <3> QED BY <2>2, <3>1
  <2> QED BY <1>6, <2>2, <2>3, <2>4
<1> HIDE DEF new, m, n, L
(* Everybody of the page comes after everybody shown. *)
<1>8. ASSUME NEW u \in wanted, listWalk.cursor # None
      PROVE  L \in 1 .. L /\ List!Place(listWalk.cursor) = old[L] /\ List!Before(old[L], List!Place(u))
  <2>1. L > 0 /\ old[L].id = listWalk.cursor /\ old[L] \in PlaceRows
    BY <1>2, <1>8 DEF CursorIsLast, L
  <2>2. listTable[listWalk.cursor] # None
    BY <1>8
  <2>3. listTable[listWalk.cursor].at = old[L].at
    BY <1>2, <2>1, <2>2 DEF Standing, L
  <2>4. List!Place(listWalk.cursor) = old[L]
    BY <1>1, <1>2, <1>8, <2>1, <2>2, <2>3, PlaceFine DEF PlaceRows
  <2>5. List!Before(List!Place(listWalk.cursor), List!Place(u))
    BY <1>3, <1>8 DEF List!After
  <2> QED BY <1>2, <2>1, <2>4, <2>5
<1>9. \A i \in 1 .. L : listWalk.cursor # None
  BY <1>2 DEF CursorIsLast, L
<1>10. InPlace(new)
  <2> SUFFICES ASSUME NEW i \in 1 .. L + m, NEW j \in 1 .. L + m, i < j
               PROVE  List!Before(new[i], new[j])
    BY <1>7 DEF InPlace
  <2>0. L \in Nat /\ m \in Nat
    BY <1>2, <1>3, <1>5
  <2>1. CASE j <= L
    <3>1. i \in DOMAIN old /\ j \in DOMAIN old /\ new[i] = old[i] /\ new[j] = old[j]
      BY <1>2, <1>7, <2>0, <2>1, SMTT(30) DEF L
    <3> QED BY <1>2, <3>1 DEF InPlace
  <2>2. CASE i <= L /\ j > L
    <3>1. PICK k \in 1 .. m : j = L + k
      <4>1. j - L \in 1 .. m /\ j = L + (j - L)
        BY <2>0, <2>2
      <4> QED BY <4>1
    <3>2. k \in 1 .. n /\ rows[k] \in wanted /\ new[j] = List!Place(rows[k])
      BY <1>3, <1>4, <1>5, <1>7, <3>1
    <3>3. i \in 1 .. L /\ new[i] = old[i]
      BY <1>7, <2>0, <2>2
    <3>4. List!Before(old[L], List!Place(rows[k])) /\ L \in 1 .. L
      BY <1>8, <1>9, <3>2, <3>3
    <3>5. CASE i = L
      BY <3>2, <3>3, <3>4, <3>5
    <3>6. CASE i # L
      <4>1. List!Before(old[i], old[L])
        <5>1. i \in DOMAIN old /\ L \in DOMAIN old /\ i < L
          BY <1>2, <2>0, <3>3, <3>4, <3>6 DEF L
        <5> QED BY <1>2, <5>1 DEF InPlace
      <4> QED BY <1>2, <1>6, <3>2, <3>3, <3>4, <4>1, BeforeOrders
    <3> QED BY <3>5, <3>6
  <2>3. CASE i > L
    <3>1. PICK k \in 1 .. m, h \in 1 .. m : i = L + k /\ j = L + h
      <4>1. i - L \in 1 .. m /\ j - L \in 1 .. m /\ i = L + (i - L) /\ j = L + (j - L)
        BY <2>0, <2>3
      <4> QED BY <4>1
    <3>2. k \in 1 .. n /\ h \in 1 .. n /\ k < h
      BY <1>3, <1>5, <2>0, <3>1
    <3>3. List!Before(List!Place(rows[k]), List!Place(rows[h]))
      BY <1>4, <3>2 DEF List!Lists
    <3> QED BY <1>7, <3>1, <3>3
  <2> QED BY <2>0, <2>1, <2>2, <2>3
<1>11. Standing(new)
  <2> SUFFICES ASSUME NEW i \in 1 .. L + m, listTable[new[i].id] # None
               PROVE  listTable[new[i].id].at = new[i].at
    BY <1>7 DEF Standing
  <2>0. L \in Nat /\ m \in Nat
    BY <1>2, <1>3, <1>5
  <2>1. CASE i <= L
    <3>1. i \in DOMAIN old /\ new[i] = old[i]
      BY <1>2, <1>7, <2>0, <2>1 DEF L
    <3> QED BY <1>2, <3>1 DEF Standing
  <2>2. CASE i > L
    <3>1. i - L \in 1 .. m /\ i = L + (i - L)
      BY <2>0, <2>2
    <3>2. PICK k \in 1 .. m : i = L + k
      BY <3>1
    <3>3. k \in 1 .. n /\ new[i] = List!Place(rows[k])
      BY <1>3, <1>5, <1>7, <3>2
    <3> QED BY <1>6, <3>3
  <2> QED BY <2>0, <2>1, <2>2
<1>12. page.next \in Ids \cup {None} /\ end \in {"done", "more"}
       /\ (end = "more" <=> n > limit) /\ (end = "more" => page.next = rows[limit] /\ m = limit)
  <2>1. n > limit => rows[limit] \in Ids
    BY <1>3, <1>4
  <2> QED BY <1>5, <2>1, ListConstants DEF m
<1>13. end = "more" => CursorIsLast(new, page.next) /\ new[Len(new)] = List!Place(rows[limit])
  <2> SUFFICES ASSUME end = "more"
               PROVE  CursorIsLast(new, page.next) /\ new[Len(new)] = List!Place(rows[limit])
    OBVIOUS
  <2>1. limit \in 1 .. m /\ m = limit /\ limit \in 1 .. n /\ page.next = rows[limit] /\ n > limit
    BY <1>3, <1>12
  <2>2. Len(new) = L + limit /\ new[L + limit] = List!Place(rows[limit])
    BY <1>7, <2>1
  <2>3. L + limit > 0
    BY <1>2
  <2>4. page.next # None
    BY <1>5, <2>1, <1>4, <1>3, ListConstants
  <2> QED BY <1>6, <2>1, <2>2, <2>3, <2>4 DEF CursorIsLast
<1>14. ASSUME NEW u \in listWalk.steady
       PROVE  /\ end = "done" => Seen(new, u)
              /\ end = "more" => Seen(new, u) \/ Behind(new, page.next, u)
  <2>0. L \in Nat /\ m \in Nat
    BY <1>2, <1>3, <1>5
  <2>1. CASE Seen(old, u)
    <3>1. PICK i \in 1 .. L : old[i].id = u
      BY <1>2, <2>1 DEF Seen, L
    <3>2. i \in 1 .. L + m /\ new[i] = old[i]
      BY <1>7, <2>0
    <3> QED BY <1>7, <3>1, <3>2 DEF Seen
  <2>2. CASE ~Seen(old, u)
    <3>1. u \in Ids /\ List!Matches(listTable[u], listWalk.filter) /\ Behind(old, listWalk.cursor, u)
      BY <1>2, <2>2 DEF WalkFine, WalkRows
    <3>2. List!After(u, listWalk.cursor)
      <4>1. CASE listWalk.cursor = None
        BY <4>1 DEF List!After
      <4>2. CASE listWalk.cursor # None
        <5>1. List!Before(old[L], List!Place(u))
          BY <3>1, <4>2 DEF Behind, L
        <5>2. L > 0 /\ old[L].id = listWalk.cursor /\ old[L] \in PlaceRows
          BY <1>2, <4>2 DEF CursorIsLast, L
        <5>3. listTable[listWalk.cursor] # None
          BY <4>2
        <5>4. listTable[listWalk.cursor].at = old[L].at
          BY <1>2, <5>2, <5>3 DEF Standing, L
        <5>5. List!Place(listWalk.cursor) = old[L]
          BY <1>1, <1>2, <4>2, <5>2, <5>3, <5>4, PlaceFine DEF PlaceRows
        <5> QED BY <5>1, <5>5 DEF List!After
      <4> QED BY <4>1, <4>2
    <3>3. u \in wanted
      BY <3>1, <3>2 DEF List!Wanted, List!Held, List!Matches
    <3>4. PICK i \in 1 .. n : rows[i] = u
      <4>1. wanted = {rows[i] : i \in DOMAIN rows}
        BY DEF List!Lists
      <4> QED BY <1>4, <3>3, <4>1
    <3>5. CASE i <= m
      <4>1. L + i \in 1 .. L + m /\ new[L + i] = List!Place(rows[i]) /\ List!Place(rows[i]).id = u
        BY <1>3, <1>6, <1>7, <2>0, <3>4, <3>5
      <4>2. Seen(new, u)
        BY <1>7, <4>1 DEF Seen
      <4> QED BY <4>2
    <3>6. CASE ~(i <= m)
      <4>1. n > limit /\ m = limit /\ end = "more" /\ limit \in 1 .. n /\ limit < i
        BY <1>3, <1>12, <3>6 DEF m
      <4>2. List!Before(List!Place(rows[limit]), List!Place(rows[i]))
        BY <1>4, <4>1 DEF List!Lists
      <4>3. Behind(new, page.next, u)
        BY <1>13, <3>4, <4>1, <4>2 DEF Behind
      <4> QED BY <4>1, <4>3
    <3> QED BY <3>5, <3>6
  <2> QED BY <2>1, <2>2
<1>15. /\ Extended(listWalk, new, page.next, end) \in WalkRows
       /\ Extended(listWalk, new, page.next, end).shown = new
       /\ Extended(listWalk, new, page.next, end).cursor = page.next
       /\ Extended(listWalk, new, page.next, end).end = end
       /\ Extended(listWalk, new, page.next, end).steady = listWalk.steady
       /\ Extended(listWalk, new, page.next, end).filter = listWalk.filter
  BY <1>2, <1>7, <1>12, WalkExtended
<1> HIDE DEF end
<1>16. WalkFine(Extended(listWalk, new, page.next, end))
  <2>1. \A u \in listWalk.steady : List!Matches(listTable[u], listWalk.filter)
    BY DEF WalkFine
  <2> QED BY <1>10, <1>11, <1>13, <1>14, <1>15, <2>1 DEF WalkFine
<1> QED BY <1>16 DEF new, places, page, end

LEMMA BeginFine ==
  ASSUME ListInv, List!Begin
  PROVE  ListInv'
<1>1. PICK role \in {"USER", "ADMIN", None}, status \in {"active", "suspended", "deleted", None} :
        listWalk' = [filter |-> [role |-> role, status |-> status], cursor |-> None, shown |-> << >>,
                     end |-> "more",
                     steady |-> {u \in List!Held :
                                   List!Matches(listTable[u], [role |-> role, status |-> status])}]
  BY DEF List!Begin
<1> DEFINE filter == [role |-> role, status |-> status]
<1>2. filter \in Filters
  BY DEF Filters
<1> HIDE DEF filter
<1>3. listWalk' = [filter |-> filter, cursor |-> None, shown |-> << >>, end |-> "more",
                   steady |-> {u \in List!Held : List!Matches(listTable[u], filter)}]
  BY <1>1 DEF filter
<1>4. {u \in List!Held : List!Matches(listTable[u], filter)} \in SUBSET Ids
  BY DEF List!Held
<1>5. << >> \in Seq(PlaceRows)
  OBVIOUS
<1>6. listWalk' \in WalkRows
  BY <1>2, <1>3, <1>4, <1>5 DEF WalkRows
<1>7. UNCHANGED <<listTable, listClock>>
  BY DEF List!Begin
<1>8. InPlace(<< >>) /\ Standing(<< >>)' /\ CursorIsLast(<< >>, None)
  BY DEF InPlace, Standing, CursorIsLast
<1>9. /\ listWalk'.filter = filter /\ listWalk'.cursor = None /\ listWalk'.shown = << >>
      /\ listWalk'.end = "more"
      /\ listWalk'.steady = {u \in List!Held : List!Matches(listTable[u], filter)}
  BY <1>3
<1>10. \A u \in listWalk'.steady :
         List!Matches(listTable'[u], listWalk'.filter) /\ Behind(listWalk.shown, listWalk.cursor, u)'
  BY <1>7, <1>9 DEF Behind
<1>11. WalkFine(listWalk)'
  BY <1>6, <1>8, <1>9, <1>10 DEF WalkFine
<1> QED BY <1>7, <1>11 DEF ListInv

(* The end of a list whose cursor is gone, or that nobody can be on. *)
Stopped(w) == [w EXCEPT !.end = "refused"]
Emptied(w) == [w EXCEPT !.end = "done", !.steady = {}]

LEMMA WalkEnds ==
  ASSUME NEW w \in WalkRows
  PROVE  /\ LET v == Stopped(w)
            IN /\ v \in WalkRows /\ v.end = "refused" /\ v.shown = w.shown /\ v.steady = w.steady
               /\ v.filter = w.filter /\ v.cursor = w.cursor
         /\ LET v == Emptied(w)
            IN /\ v \in WalkRows /\ v.end = "done" /\ v.shown = w.shown /\ v.steady = {}
               /\ v.filter = w.filter /\ v.cursor = w.cursor
<1>1. LET v == Stopped(w)
      IN /\ v \in WalkRows /\ v.end = "refused" /\ v.shown = w.shown /\ v.steady = w.steady
         /\ v.filter = w.filter /\ v.cursor = w.cursor
  BY DEF WalkRows, Stopped
<1>2. LET v == Emptied(w)
      IN /\ v \in WalkRows /\ v.end = "done" /\ v.shown = w.shown /\ v.steady = {}
         /\ v.filter = w.filter /\ v.cursor = w.cursor
  BY DEF WalkRows, Emptied
<1> QED BY <1>1, <1>2

LEMMA ReadPageFine ==
  ASSUME ListInv, List!ReadPage
  PROVE  ListInv'
<1>1. listWalk.end = "more" /\ WalkFine(listWalk) /\ UNCHANGED <<listTable, listClock>>
  BY DEF List!ReadPage, ListInv
<1>2. PICK v : v = listWalk'
  OBVIOUS
<1>6. SUFFICES WalkFine(v)
  BY <1>1, <1>2 DEF ListInv, WalkFine, Standing, Behind, List!Place
<1>3. CASE v = Emptied(listWalk)
  <2>1. listWalk \in WalkRows
    BY <1>1 DEF WalkFine
  <2>2. /\ v \in WalkRows /\ v.end = "done" /\ v.shown = listWalk.shown
        /\ v.steady = {}
    BY <1>3, <2>1, WalkEnds
  <2> QED BY <1>1, <2>2 DEF WalkFine
<1>4. CASE v = Stopped(listWalk)
  <2>1. listWalk \in WalkRows
    BY <1>1 DEF WalkFine
  <2>2. /\ v \in WalkRows /\ v.end = "refused" /\ v.shown = listWalk.shown
        /\ v.steady = listWalk.steady /\ v.filter = listWalk.filter
    BY <1>4, <2>1, WalkEnds
  <2> QED BY <1>1, <2>2 DEF WalkFine
<1>5. CASE /\ ~(listWalk.cursor # None /\ listTable[listWalk.cursor] = None)
           /\ LET wanted == List!Wanted(listWalk.filter, listWalk.cursor)
              IN \E asked \in PageLimits, rows \in [1 .. List!Cardinality(wanted) -> wanted] :
                   /\ List!Lists(rows, wanted)
                   /\ LET page == List!Page(rows, List!NormalizeLimit(asked))
                      IN v =
                           Extended(listWalk,
                             listWalk.shown \o [i \in DOMAIN page.users |-> List!Place(page.users[i])],
                             page.next, IF page.next = None THEN "done" ELSE "more")
  <2> DEFINE wanted == List!Wanted(listWalk.filter, listWalk.cursor)
  <2>1. List!Cardinality(wanted) = Cardinality(wanted)
    BY OneCardinality
  <2>2. PICK asked \in PageLimits, rows \in [1 .. Cardinality(wanted) -> wanted] :
          /\ List!Lists(rows, wanted)
          /\ LET page == List!Page(rows, List!NormalizeLimit(asked))
             IN v =
                  Extended(listWalk,
                    listWalk.shown \o [i \in DOMAIN page.users |-> List!Place(page.users[i])],
                    page.next, IF page.next = None THEN "done" ELSE "more")
    BY <1>5, <2>1
  <2>3. List!NormalizeLimit(asked) \in Nat \ {0}
    BY ListConstants DEF List!NormalizeLimit
  <2> QED BY <1>1, <1>5, <2>2, <2>3, PageFine
<1> QED BY <1>2, <1>3, <1>4, <1>5 DEF List!ReadPage, Emptied, Stopped, Extended

(* A user's row is changed: the place stays, who is steady still matches. *)
Settled(w, steady) == [w EXCEPT !.steady = steady]

LEMMA WalkSettled ==
  ASSUME NEW w \in WalkRows, NEW steady \in SUBSET Ids
  PROVE  LET v == Settled(w, steady)
         IN /\ v \in WalkRows /\ v.steady = steady /\ v.end = w.end /\ v.shown = w.shown
            /\ v.filter = w.filter /\ v.cursor = w.cursor
BY DEF WalkRows, Settled

LEMMA ChangeFine ==
  ASSUME ListInv, UNCHANGED listClock, NEW u \in Ids, NEW row \in TableRows \cup {None},
         List!Change(u, row),
         \/ row = None
         \/ listTable[u] # None /\ row.at = listTable[u].at
         \/ listTable[u] = None /\ ~Seen(listWalk.shown, u)
  PROVE  ListInv'
<1>1. WalkFine(listWalk) /\ listTable \in [Ids -> TableRows \cup {None}] /\ listClock' \in Int
  BY DEF List!Change, ListInv
<1>2. listTable' = [listTable EXCEPT ![u] = row]
  BY DEF List!Change
<1>3. /\ listTable' \in [Ids -> TableRows \cup {None}] /\ listTable'[u] = row
      /\ \A v \in Ids : v # u => listTable'[v] = listTable[v]
  BY <1>1, <1>2
<1> DEFINE steady == {v \in listWalk.steady : v # u \/ List!Matches(row, listWalk.filter)}
<1>4. listWalk' = Settled(listWalk, steady)
  BY DEF List!Change, Settled
<1>5. listWalk \in WalkRows /\ steady \in SUBSET Ids
  BY <1>1 DEF WalkFine, WalkRows
<1> HIDE DEF steady
<1>6. /\ listWalk' \in WalkRows /\ listWalk'.steady = steady /\ listWalk'.end = listWalk.end
      /\ listWalk'.shown = listWalk.shown /\ listWalk'.filter = listWalk.filter
      /\ listWalk'.cursor = listWalk.cursor
  BY <1>4, <1>5, WalkSettled
<1>7. listWalk.shown \in Seq(PlaceRows) /\ \A i \in DOMAIN listWalk.shown : listWalk.shown[i] \in PlaceRows
  BY <1>5 DEF WalkRows
<1>8. Standing(listWalk.shown)'
  <2> SUFFICES ASSUME NEW i \in DOMAIN listWalk.shown, listTable'[listWalk.shown[i].id] # None
               PROVE  listTable'[listWalk.shown[i].id].at = listWalk.shown[i].at
    BY <1>6 DEF Standing
  <2>1. listWalk.shown[i].id \in Ids
    BY <1>7 DEF PlaceRows
  <2>2. CASE listWalk.shown[i].id # u
    BY <1>1, <1>3, <2>1, <2>2 DEF WalkFine, Standing
  <2>3. CASE listWalk.shown[i].id = u
    <3>1. Seen(listWalk.shown, u)
      BY <2>3 DEF Seen
    <3>2. listTable[u] # None /\ row.at = listTable[u].at
      BY <1>3, <2>3, <3>1
    <3> QED BY <1>1, <1>3, <2>3, <3>2 DEF WalkFine, Standing
  <2> QED BY <2>2, <2>3
<1>9. ASSUME NEW v \in steady
      PROVE  /\ List!Matches(listTable'[v], listWalk.filter)
             /\ List!Place(v)' = List!Place(v)
  <2>1. v \in Ids /\ v \in listWalk.steady /\ (v # u \/ List!Matches(row, listWalk.filter))
    BY <1>5 DEF steady
  <2>2. List!Matches(listTable[v], listWalk.filter)
    BY <1>1, <2>1 DEF WalkFine
  <2>3. CASE v # u
    BY <1>3, <2>1, <2>2, <2>3 DEF List!Place
  <2>4. CASE v = u
    <3>1. row # None /\ listTable[u] # None
      BY <2>1, <2>2, <2>4 DEF List!Matches
    <3> QED BY <1>3, <2>1, <2>4, <3>1 DEF List!Place
  <2> QED BY <2>3, <2>4
<1>10. ASSUME NEW v \in steady
       PROVE  /\ listWalk.end = "done" => Seen(listWalk.shown, v)
              /\ listWalk.end = "more" =>
                   Seen(listWalk.shown, v) \/ Behind(listWalk.shown, listWalk.cursor, v)'
  <2>1. /\ listWalk.end = "done" => Seen(listWalk.shown, v)
        /\ listWalk.end = "more" =>
             Seen(listWalk.shown, v) \/ Behind(listWalk.shown, listWalk.cursor, v)
    BY <1>1 DEF WalkFine, steady
  <2>2. Behind(listWalk.shown, listWalk.cursor, v) => Behind(listWalk.shown, listWalk.cursor, v)'
    BY <1>6, <1>9 DEF Behind
  <2> QED BY <2>1, <2>2
<1>11. InPlace(listWalk.shown) /\ (listWalk.end = "more" => CursorIsLast(listWalk.shown, listWalk.cursor))
  BY <1>1 DEF WalkFine
<1>12. WalkFine(listWalk)'
  BY <1>6, <1>8, <1>9, <1>10, <1>11 DEF WalkFine, Behind
<1> QED BY <1>1, <1>3, <1>12 DEF ListInv

LEMMA RowChanges ==
  ASSUME NEW row \in TableRows, NEW role \in {"USER", "ADMIN"}
  PROVE  /\ [row EXCEPT !.active = ~row.active] \in TableRows
         /\ [row EXCEPT !.active = ~row.active].at = row.at
         /\ [row EXCEPT !.role = role] \in TableRows
         /\ [row EXCEPT !.role = role].at = row.at
<1>1. PICK active \in BOOLEAN : active = ~row.active
  BY Zenon
<1>2. [row EXCEPT !.active = active] \in TableRows /\ [row EXCEPT !.active = active].at = row.at
  BY DEF TableRows
<1>3. [row EXCEPT !.role = role] \in TableRows /\ [row EXCEPT !.role = role].at = row.at
  BY DEF TableRows
<1>4. [row EXCEPT !.active = ~row.active] = [row EXCEPT !.active = active]
  BY <1>1, Zenon
<1> QED BY <1>2, <1>3, <1>4

LEMMA OthersFine ==
  ASSUME ListInv, NEW u \in Ids, List!Register(u) \/ List!Alter(u)
  PROVE  ListInv'
<1>1. listTable \in [Ids -> TableRows \cup {None}] /\ UNCHANGED listClock /\ listClock \in Int
  BY DEF ListInv, List!Register, List!Alter
<1>2. CASE List!Register(u)
  <2>1. [at |-> listClock, role |-> "USER", active |-> TRUE] \in TableRows
    BY <1>1 DEF TableRows
  <2>2. listTable[u] = None /\ ~Seen(listWalk.shown, u)
        /\ List!Change(u, [at |-> listClock, role |-> "USER", active |-> TRUE])
    BY <1>2 DEF List!Register, Seen
  <2> QED BY <1>1, <2>1, <2>2, ChangeFine
<1>3. CASE List!Alter(u)
  <2>1. listTable[u] # None /\ listTable[u] \in TableRows
    BY <1>1, <1>3 DEF List!Alter
  <2>2. PICK row \in TableRows \cup {None} :
          (row = None \/ row.at = listTable[u].at) /\ List!Change(u, row)
    <3>1. CASE List!Change(u, [listTable[u] EXCEPT !.active = ~listTable[u].active])
      BY <2>1, <3>1, RowChanges
    <3>2. CASE List!Change(u, [listTable[u] EXCEPT
                                  !.role = IF listTable[u].role = "USER" THEN "ADMIN" ELSE "USER"])
      <4>1. PICK role \in {"USER", "ADMIN"} :
              role = IF listTable[u].role = "USER" THEN "ADMIN" ELSE "USER"
        OBVIOUS
      <4>2. List!Change(u, [listTable[u] EXCEPT !.role = role])
        BY <3>2, <4>1
      <4> QED BY <2>1, <4>2, RowChanges
    <3>3. CASE List!Change(u, None)
      BY <3>3
    <3> QED BY <1>3, <3>1, <3>2, <3>3 DEF List!Alter
  <2> QED BY <1>1, <2>1, <2>2, ChangeFine
<1> QED BY <1>2, <1>3

LEMMA ListStarts ==
  ASSUME List!Init
  PROVE  ListInv
<1>1. MaxTime \in Nat
  BY InstancesAssumption DEF List!AdminUsersAssumption
<1>2. List!UserRows \subseteq TableRows
  BY <1>1 DEF List!UserRows, TableRows
<1>3. listTable \in [Ids -> TableRows \cup {None}]
  BY <1>2 DEF List!Init
<1> QED BY <1>1, <1>3 DEF List!Init, ListInv

LEMMA ListNext ==
  ASSUME ListInv, [List!Next]_(List!vars)
  PROVE  ListInv'
<1>1. CASE UNCHANGED List!vars \/ List!Tick
  <2>1. UNCHANGED <<listTable, listWalk>> /\ listClock' \in Int
    BY <1>1 DEF List!vars, List!Tick, ListInv
  <2> QED BY <2>1 DEF ListInv, WalkFine, Standing, Behind, List!Place
<1> QED BY <1>1, BeginFine, ReadPageFine, OthersFine DEF List!Next

LEMMA ListPromises ==
  ASSUME ListInv
  PROVE  List!ListsEveryoneOnce
<1> SUFFICES ASSUME listWalk # None PROVE List!ListsEveryoneOnce
  BY DEF List!ListsEveryoneOnce
<1>1. WalkFine(listWalk)
  BY DEF ListInv
<1>2. \A i, j \in DOMAIN listWalk.shown : i < j => List!Before(listWalk.shown[i], listWalk.shown[j])
  BY <1>1 DEF WalkFine, InPlace
<1>3. listWalk.end = "done" =>
        listWalk.steady \subseteq {listWalk.shown[i].id : i \in DOMAIN listWalk.shown}
  BY <1>1 DEF WalkFine, Seen
<1> QED BY <1>2, <1>3 DEF List!ListsEveryoneOnce

----------------------------------------------------------------------------
(* The audit log: what a request has left to record is a row the schema     *)
(* takes, and the log has the rows that the request's end calls for.        *)

AuditUsers == Trail!UserRows \cup {None}
AuditTables == [Names -> AuditUsers]
AuditReasons == Trail!Unconfirmed \cup Trail!Confirmed \cup {"AUTHENTICATION_FAILED"}
Stations == {"new", "self", "read", "save", "begin", "decide", "commit", "record", "done"}

MaybeAction == Trail!Actions \cup {None}
MaybeName == Names \cup {None}
MaybeRole == {"USER", "ADMIN", None}
MaybeTable == AuditTables \cup {None}
MaybeAnswer == {None, "done", "error", "refused"}
MaybeReason == AuditReasons \cup {None}
Hashes == 0 .. 1

RequestRows ==
  [at : Stations, action : MaybeAction, actor : MaybeName, target : MaybeName, hash : Hashes,
   role : MaybeRole, snap : MaybeTable, attempt : Nat, answer : MaybeAnswer, reason : MaybeReason,
   blamed : MaybeName, applied : BOOLEAN, unrecorded : BOOLEAN]

(* The changes of a request, and what each leaves as it was. *)
Going(q, at) ==
  [q EXCEPT !.at = at]
Finished(q, at, answer) ==
  [q EXCEPT !.at = at, !.answer = answer]
Refused(q, at, answer, reason, blamed) ==
  [q EXCEPT !.at = at, !.answer = answer, !.reason = reason, !.blamed = blamed]
Applied(q, at, answer) ==
  [q EXCEPT !.at = at, !.answer = answer, !.applied = TRUE]
Received(q, at, action, actor, target) ==
  [q EXCEPT !.at = at, !.action = action, !.actor = actor, !.target = target]
HasRead(q, at, hash, role) ==
  [q EXCEPT !.at = at, !.hash = hash, !.role = role]
Snapped(q, at, snap) ==
  [q EXCEPT !.at = at, !.snap = snap]
Approved(q, at, role) ==
  [q EXCEPT !.at = at, !.role = role]
Retried(q, at, attempt) ==
  [q EXCEPT !.at = at, !.attempt = attempt]
Unwritten(q, at) ==
  [q EXCEPT !.at = at, !.unrecorded = TRUE]

LEMMA GoingRow ==
  ASSUME NEW q \in RequestRows, NEW at \in Stations
  PROVE  LET v == Going(q, at)
         IN /\ v \in RequestRows
            /\ v.at = at /\ v.action = q.action /\ v.actor = q.actor /\ v.target = q.target
            /\ v.hash = q.hash /\ v.role = q.role /\ v.snap = q.snap /\ v.attempt = q.attempt
            /\ v.answer = q.answer /\ v.reason = q.reason /\ v.blamed = q.blamed /\ v.applied = q.applied
            /\ v.unrecorded = q.unrecorded
BY DEF RequestRows, Going

LEMMA FinishedRow ==
  ASSUME NEW q \in RequestRows, NEW at \in Stations, NEW answer \in MaybeAnswer
  PROVE  LET v == Finished(q, at, answer)
         IN /\ v \in RequestRows
            /\ v.at = at /\ v.action = q.action /\ v.actor = q.actor /\ v.target = q.target
            /\ v.hash = q.hash /\ v.role = q.role /\ v.snap = q.snap /\ v.attempt = q.attempt
            /\ v.answer = answer /\ v.reason = q.reason /\ v.blamed = q.blamed /\ v.applied = q.applied
            /\ v.unrecorded = q.unrecorded
BY DEF RequestRows, Finished

LEMMA RefusedRow ==
  ASSUME NEW q \in RequestRows, NEW at \in Stations, NEW answer \in MaybeAnswer,
         NEW reason \in MaybeReason, NEW blamed \in MaybeName
  PROVE  LET v == Refused(q, at, answer, reason, blamed)
         IN /\ v \in RequestRows
            /\ v.at = at /\ v.action = q.action /\ v.actor = q.actor /\ v.target = q.target
            /\ v.hash = q.hash /\ v.role = q.role /\ v.snap = q.snap /\ v.attempt = q.attempt
            /\ v.answer = answer /\ v.reason = reason /\ v.blamed = blamed /\ v.applied = q.applied
            /\ v.unrecorded = q.unrecorded
BY DEF RequestRows, Refused

LEMMA AppliedRow ==
  ASSUME NEW q \in RequestRows, NEW at \in Stations, NEW answer \in MaybeAnswer
  PROVE  LET v == Applied(q, at, answer)
         IN /\ v \in RequestRows
            /\ v.at = at /\ v.action = q.action /\ v.actor = q.actor /\ v.target = q.target
            /\ v.hash = q.hash /\ v.role = q.role /\ v.snap = q.snap /\ v.attempt = q.attempt
            /\ v.answer = answer /\ v.reason = q.reason /\ v.blamed = q.blamed /\ v.applied
            /\ v.unrecorded = q.unrecorded
BY DEF RequestRows, Applied

LEMMA ReceivedRow ==
  ASSUME NEW q \in RequestRows, NEW at \in Stations, NEW action \in MaybeAction,
         NEW actor \in MaybeName, NEW target \in MaybeName
  PROVE  LET v == Received(q, at, action, actor, target)
         IN /\ v \in RequestRows
            /\ v.at = at /\ v.action = action /\ v.actor = actor /\ v.target = target
            /\ v.hash = q.hash /\ v.role = q.role /\ v.snap = q.snap /\ v.attempt = q.attempt
            /\ v.answer = q.answer /\ v.reason = q.reason /\ v.blamed = q.blamed /\ v.applied = q.applied
            /\ v.unrecorded = q.unrecorded
BY DEF RequestRows, Received

LEMMA HasReadRow ==
  ASSUME NEW q \in RequestRows, NEW at \in Stations, NEW hash \in Hashes, NEW role \in MaybeRole
  PROVE  LET v == HasRead(q, at, hash, role)
         IN /\ v \in RequestRows
            /\ v.at = at /\ v.action = q.action /\ v.actor = q.actor /\ v.target = q.target
            /\ v.hash = hash /\ v.role = role /\ v.snap = q.snap /\ v.attempt = q.attempt
            /\ v.answer = q.answer /\ v.reason = q.reason /\ v.blamed = q.blamed /\ v.applied = q.applied
            /\ v.unrecorded = q.unrecorded
BY DEF RequestRows, HasRead

LEMMA SnappedRow ==
  ASSUME NEW q \in RequestRows, NEW at \in Stations, NEW snap \in MaybeTable
  PROVE  LET v == Snapped(q, at, snap)
         IN /\ v \in RequestRows
            /\ v.at = at /\ v.action = q.action /\ v.actor = q.actor /\ v.target = q.target
            /\ v.hash = q.hash /\ v.role = q.role /\ v.snap = snap /\ v.attempt = q.attempt
            /\ v.answer = q.answer /\ v.reason = q.reason /\ v.blamed = q.blamed /\ v.applied = q.applied
            /\ v.unrecorded = q.unrecorded
BY DEF RequestRows, Snapped

LEMMA ApprovedRow ==
  ASSUME NEW q \in RequestRows, NEW at \in Stations, NEW role \in MaybeRole
  PROVE  LET v == Approved(q, at, role)
         IN /\ v \in RequestRows
            /\ v.at = at /\ v.action = q.action /\ v.actor = q.actor /\ v.target = q.target
            /\ v.hash = q.hash /\ v.role = role /\ v.snap = q.snap /\ v.attempt = q.attempt
            /\ v.answer = q.answer /\ v.reason = q.reason /\ v.blamed = q.blamed /\ v.applied = q.applied
            /\ v.unrecorded = q.unrecorded
BY DEF RequestRows, Approved

LEMMA RetriedRow ==
  ASSUME NEW q \in RequestRows, NEW at \in Stations, NEW attempt \in Nat
  PROVE  LET v == Retried(q, at, attempt)
         IN /\ v \in RequestRows
            /\ v.at = at /\ v.action = q.action /\ v.actor = q.actor /\ v.target = q.target
            /\ v.hash = q.hash /\ v.role = q.role /\ v.snap = q.snap /\ v.attempt = attempt
            /\ v.answer = q.answer /\ v.reason = q.reason /\ v.blamed = q.blamed /\ v.applied = q.applied
            /\ v.unrecorded = q.unrecorded
BY DEF RequestRows, Retried

LEMMA UnwrittenRow ==
  ASSUME NEW q \in RequestRows, NEW at \in Stations
  PROVE  LET v == Unwritten(q, at)
         IN /\ v \in RequestRows
            /\ v.at = at /\ v.action = q.action /\ v.actor = q.actor /\ v.target = q.target
            /\ v.hash = q.hash /\ v.role = q.role /\ v.snap = q.snap /\ v.attempt = q.attempt
            /\ v.answer = q.answer /\ v.reason = q.reason /\ v.blamed = q.blamed /\ v.applied = q.applied
            /\ v.unrecorded
BY DEF RequestRows, Unwritten

Recorded == Trail!AdminActions \cup {"LOGIN"}

FailureFits(q) ==
  \/ q.action = "LOGIN" /\ q.reason = "AUTHENTICATION_FAILED"
  \/ /\ q.action \in Trail!AdminActions
     /\ \/ q.blamed = None /\ q.reason \in Trail!Unconfirmed
        \/ q.blamed \in Names /\ q.reason \in Trail!Confirmed

(* A request that ended so has a FAILURE row. *)
Owed(q) == q.at = "done" /\ q.answer = "refused" /\ ~q.unrecorded /\ q.action \in Recorded

Asked(q) ==
  /\ q.action \in Trail!Actions /\ q.actor \in Names /\ q.target \in Names
  /\ q.action \in Trail!AdminActions \/ q.actor = q.target

RequestFine(q) ==
  /\ q \in RequestRows
  /\ q.at # "done" => ~q.applied /\ ~q.unrecorded
  /\ q.at # "new" => Asked(q)
  /\ q.at = "self" => q.action \in Trail!AdminActions
  /\ q.at = "read" => q.action \notin Trail!AdminActions
  /\ q.at = "save" => q.action \notin Trail!Serializable
  /\ q.at \in {"begin", "decide", "commit"} => q.action \in Trail!Serializable
  /\ q.at \in {"decide", "commit"} => q.snap \in AuditTables
  /\ q.at = "commit" => q.snap[q.target] # None /\ q.role = q.snap[q.target].role
  /\ q.at = "record" => q.answer = "refused" /\ FailureFits(q)

EventRows ==
  [action : MaybeAction, result : {"SUCCESS", "FAILURE"}, actor : MaybeName, role : MaybeRole,
   target : MaybeName, reason : MaybeReason]

LogRows == [req : Calls, event : EventRows, was : MaybeRole]

(* The role of a login and of a self deletion is the one of that moment. *)
RoleOfMoment(row) ==
  row.event.result = "SUCCESS" /\ row.event.action \in {"LOGIN", "USER_ACCOUNT_DELETE"}
    => row.event.role = row.was

Tally(r, result) == Trail!Cardinality(Trail!RowsOf(r, result))

Told(r) ==
  /\ Tally(r, "SUCCESS") = IF trailReq[r].applied THEN 1 ELSE 0
  /\ Tally(r, "FAILURE") = IF Owed(trailReq[r]) THEN 1 ELSE 0

AuditInv ==
  /\ trailUser \in AuditTables
  /\ trailReq \in [Calls -> RequestRows] /\ \A r \in Calls : RequestFine(trailReq[r])
  /\ trailLog \in Seq(LogRows) /\ \A i \in DOMAIN trailLog : RoleOfMoment(trailLog[i])
  /\ \A r \in Calls : Told(r)

LEMMA AuditPromises ==
  ASSUME AuditInv
  PROVE  Trail!LogTellsWhatHappened
BY DEF AuditInv, Told, Tally, Owed, Recorded, RoleOfMoment, Trail!LogTellsWhatHappened, Trail!At

LEMMA RowAdded ==
  ASSUME trailLog \in Seq(LogRows), NEW row \in LogRows, trailLog' = Append(trailLog, row),
         NEW r, NEW result
  PROVE  Tally(r, result)' =
           IF row.req = r /\ row.event.result = result THEN Tally(r, result) + 1 ELSE Tally(r, result)
<1> DEFINE n == Len(trailLog)
           S == Trail!RowsOf(r, result)
           T == Trail!RowsOf(r, result)'
<1>1. /\ n \in Nat /\ DOMAIN trailLog = 1 .. n /\ DOMAIN trailLog' = 1 .. n + 1
      /\ trailLog'[n + 1] = row /\ \A i \in 1 .. n : trailLog'[i] = trailLog[i]
  OBVIOUS
<1> HIDE DEF n
<1>2. S \subseteq 1 .. n /\ IsFiniteSet(S) /\ n + 1 \notin S
  <2>1. S \subseteq 1 .. n
    BY <1>1 DEF Trail!RowsOf
  <2> HIDE DEF S
  <2>2. IsFiniteSet(1 .. n)
    BY <1>1, FS_Interval
  <2>3. IsFiniteSet(S)
    BY <2>1, <2>2, FS_Subset
  <2> QED BY <1>1, <2>1, <2>3
<1>3. T = IF row.req = r /\ row.event.result = result THEN S \cup {n + 1} ELSE S
  <2>1. \A i : i \in T <=> i \in 1 .. n + 1 /\ trailLog'[i].req = r /\ trailLog'[i].event.result = result
    BY <1>1 DEF Trail!RowsOf
  <2>2. \A i : i \in S <=> i \in 1 .. n /\ trailLog[i].req = r /\ trailLog[i].event.result = result
    BY <1>1 DEF Trail!RowsOf
  <2> HIDE DEF S, T
  <2>3. \A i : i \in 1 .. n + 1 <=> i \in 1 .. n \/ i = n + 1
    BY <1>1
  <2>4. \A i : i \in T <=> i \in S \/ (i = n + 1 /\ row.req = r /\ row.event.result = result)
    BY <1>1, <2>1, <2>2, <2>3
  <2> QED BY <2>4
<1>4. Tally(r, result) = Cardinality(S) /\ Tally(r, result)' = Cardinality(T)
  BY OneCardinality DEF Tally
<1> HIDE DEF S, T
<1>5. Cardinality(S \cup {n + 1}) = Cardinality(S) + 1
  BY <1>2, FS_AddElement
<1> QED BY <1>3, <1>4, <1>5

(* A request moves on and the log stays as it is. *)
LEMMA RequestMoves ==
  ASSUME AuditInv, NEW r \in Calls, NEW new, RequestFine(new), trailReq[r].at # "done",
         ~new.applied, ~Owed(new), trailReq' = [trailReq EXCEPT ![r] = new],
         UNCHANGED <<trailUser, trailLog>>
  PROVE  AuditInv'
<1>1. new \in RequestRows
  BY DEF RequestFine
<1>2. /\ trailReq' \in [Calls -> RequestRows] /\ trailReq'[r] = new
      /\ \A o \in Calls : o # r => trailReq'[o] = trailReq[o]
  BY <1>1 DEF AuditInv
<1>3. \A o \in Calls, result \in {"SUCCESS", "FAILURE"} : Tally(o, result)' = Tally(o, result)
  BY DEF Tally, Trail!RowsOf
<1>4. ~trailReq[r].applied /\ ~Owed(trailReq[r])
  BY DEF AuditInv, RequestFine, Owed
<1>5. \A o \in Calls : RequestFine(trailReq[o])'
  <2>1. \A o \in Calls : RequestFine(trailReq[o])
    BY DEF AuditInv
  <2> QED BY <1>2, <2>1 DEF RequestFine, Asked, FailureFits
<1>6. ASSUME NEW o \in Calls
      PROVE  Told(o)'
  <2>1. Told(o)
    BY DEF AuditInv
  <2> QED BY <1>2, <1>3, <1>4, <2>1 DEF Told, Owed
<1>7. (\A i \in DOMAIN trailLog : RoleOfMoment(trailLog[i]))'
  BY DEF AuditInv, RoleOfMoment
<1> QED BY <1>2, <1>5, <1>6, <1>7 DEF AuditInv

(* A request ends with a row in the log. *)
LEMMA RequestWrites ==
  ASSUME AuditInv, NEW r \in Calls, NEW new, RequestFine(new), trailReq[r].at # "done",
         trailReq' = [trailReq EXCEPT ![r] = new], trailUser' \in AuditTables,
         NEW row \in LogRows, trailLog' = Append(trailLog, row), row.req = r, RoleOfMoment(row),
         \/ row.event.result = "SUCCESS" /\ new.applied /\ ~Owed(new)
         \/ row.event.result = "FAILURE" /\ ~new.applied /\ Owed(new)
  PROVE  AuditInv'
<1>1. new \in RequestRows
  BY DEF RequestFine
<1>2. /\ trailReq' \in [Calls -> RequestRows] /\ trailReq'[r] = new
      /\ \A o \in Calls : o # r => trailReq'[o] = trailReq[o]
  BY <1>1 DEF AuditInv
<1>3. trailLog \in Seq(LogRows)
  BY DEF AuditInv
<1>4. \A o \in Calls, result \in {"SUCCESS", "FAILURE"} :
        Tally(o, result)' = IF o = r /\ row.event.result = result THEN Tally(o, result) + 1
                                                                  ELSE Tally(o, result)
  BY <1>3, RowAdded
<1>5. ~trailReq[r].applied /\ ~Owed(trailReq[r])
  BY DEF AuditInv, RequestFine, Owed
<1>6. \A o \in Calls : RequestFine(trailReq[o])'
  <2>1. \A o \in Calls : RequestFine(trailReq[o])
    BY DEF AuditInv
  <2> QED BY <1>2, <2>1 DEF RequestFine, Asked, FailureFits
<1>7. ASSUME NEW o \in Calls
      PROVE  Told(o)'
  <2>1. Told(o)
    BY DEF AuditInv
  <2>2. CASE o # r
    BY <1>2, <1>4, <2>1, <2>2 DEF Told, Owed
  <2>3. CASE o = r
    <3>1. Tally(r, "SUCCESS") = 0 /\ Tally(r, "FAILURE") = 0
      BY <1>5, <2>1, <2>3 DEF Told
    <3>2. CASE row.event.result = "SUCCESS" /\ new.applied /\ ~Owed(new)
      <4>1. Tally(r, "SUCCESS")' = 1 /\ Tally(r, "FAILURE")' = 0
        BY <1>4, <3>1, <3>2
      <4> QED BY <1>2, <2>3, <3>2, <4>1 DEF Told, Owed
    <3>3. CASE row.event.result = "FAILURE" /\ ~new.applied /\ Owed(new)
      <4>1. Tally(r, "SUCCESS")' = 0 /\ Tally(r, "FAILURE")' = 1
        BY <1>4, <3>1, <3>3
      <4> QED BY <1>2, <2>3, <3>3, <4>1 DEF Told, Owed
    <3> QED BY <3>2, <3>3
  <2> QED BY <2>2, <2>3
<1>8. trailLog' \in Seq(LogRows) /\ (\A i \in DOMAIN trailLog : RoleOfMoment(trailLog[i]))'
  <2>1. /\ DOMAIN trailLog' = 1 .. Len(trailLog) + 1 /\ trailLog' \in Seq(LogRows)
        /\ trailLog'[Len(trailLog) + 1] = row /\ Len(trailLog) \in Nat
        /\ \A i \in 1 .. Len(trailLog) : trailLog'[i] = trailLog[i]
    BY <1>3
  <2>2. \A i \in 1 .. Len(trailLog) : RoleOfMoment(trailLog[i])
    BY <1>3 DEF AuditInv
  <2>3. \A i \in 1 .. Len(trailLog) + 1 : i \in 1 .. Len(trailLog) \/ i = Len(trailLog) + 1
    BY <2>1
  <2>4. ASSUME NEW i \in 1 .. Len(trailLog) + 1
        PROVE  RoleOfMoment(trailLog'[i])
    BY <2>1, <2>2, <2>3, <2>4 DEF RoleOfMoment
  <2> QED BY <2>1, <2>4 DEF RoleOfMoment
<1> QED BY <1>2, <1>6, <1>7, <1>8 DEF AuditInv

LEMMA AuditConstants ==
  None \notin Names /\ None \notin {"USER", "ADMIN"} /\ Trail!Serializable \subseteq Trail!Actions
BY InstancesAssumption DEF Trail!AuditAssumption, Trail!Serializable, Trail!Actions, Trail!SelfActions

LEMMA RequestOf ==
  ASSUME AuditInv, NEW r \in Calls
  PROVE  trailReq \in [Calls -> RequestRows] /\ trailReq[r] \in RequestRows /\ RequestFine(trailReq[r])
BY DEF AuditInv

(* An administrator's change that is not about the caller begins. *)
LEMMA RequestBegins ==
  ASSUME AuditInv, NEW r \in Calls, trailReq[r].at = "self",
         trailReq' = [trailReq EXCEPT ![r] = Going(trailReq[r], "begin")],
         UNCHANGED <<trailUser, trailLog>>
  PROVE  AuditInv'
<1> DEFINE q == trailReq[r]
           new == Going(q, "begin")
<1>1. q \in RequestRows /\ RequestFine(q) /\ q.at = "self"
  BY RequestOf
<1> HIDE DEF q
<1>2. /\ new \in RequestRows /\ new.at = "begin" /\ new.action = q.action /\ new.actor = q.actor
      /\ new.target = q.target /\ new.applied = q.applied /\ new.unrecorded = q.unrecorded
  BY <1>1, GoingRow DEF Stations
<1> HIDE DEF new
<1>3. Trail!AdminActions \subseteq Trail!Serializable
  BY DEF Trail!Serializable
<1>4. RequestFine(new) /\ ~new.applied /\ ~Owed(new)
  BY <1>1, <1>2, <1>3 DEF RequestFine, Asked, Owed
<1>5. trailReq' = [trailReq EXCEPT ![r] = new]
  BY DEF new, q
<1> QED BY <1>1, <1>4, <1>5, RequestMoves DEF q

LEMMA ReceiveFine ==
  ASSUME AuditInv, NEW r \in Calls, Trail!Receive(r)
  PROVE  AuditInv'
<1> DEFINE q == trailReq[r]
<1>1. q \in RequestRows /\ RequestFine(q) /\ trailReq \in [Calls -> RequestRows]
  BY RequestOf
<1>2. q.at = "new" /\ UNCHANGED <<trailUser, trailLog>>
  BY DEF Trail!Receive, Trail!At
<1>3. PICK action \in Trail!Actions, a \in Names, x \in Names :
        /\ action \notin Trail!AdminActions => a = x
        /\ trailReq' = [trailReq EXCEPT
             ![r].at = IF action \in Trail!AdminActions THEN "self" ELSE "read",
             ![r].action = action, ![r].actor = a, ![r].target = x]
  BY DEF Trail!Receive
<1> DEFINE at == IF action \in Trail!AdminActions THEN "self" ELSE "read"
           new == Received(q, at, action, a, x)
<1>4. trailReq' = [trailReq EXCEPT ![r] = new]
  BY <1>1, <1>3, Zenon DEF Received
<1> HIDE DEF q
<1>5. at \in Stations /\ action \in MaybeAction /\ a \in MaybeName /\ x \in MaybeName
  BY DEF Stations, MaybeAction, MaybeName
<1> HIDE DEF at
<1>6. /\ new \in RequestRows /\ new.at = at /\ new.action = action /\ new.actor = a
      /\ new.target = x /\ new.applied = q.applied /\ new.unrecorded = q.unrecorded
  BY <1>1, <1>5, ReceivedRow
<1> HIDE DEF new
<1>7. RequestFine(new) /\ ~new.applied /\ ~Owed(new)
  BY <1>1, <1>2, <1>3, <1>6 DEF RequestFine, Asked, Owed, at
<1> QED BY <1>2, <1>4, <1>7, RequestMoves DEF q

(* A refusal goes to be recorded exactly if it is one the log is told of. *)
LEMMA RefuseFine ==
  ASSUME AuditInv, NEW r \in Calls, NEW reason \in MaybeReason, NEW blamed \in MaybeName,
         Trail!Refuse(r, reason, blamed), trailReq[r].at \notin {"new", "done"},
         \/ trailReq[r].action = "LOGIN" /\ reason = "AUTHENTICATION_FAILED"
         \/ /\ trailReq[r].action \in Trail!AdminActions
            /\ \/ blamed = None /\ reason \in Trail!Unconfirmed
               \/ blamed \in Names /\ reason \in Trail!Confirmed
         \/ trailReq[r].action \notin Recorded,
         UNCHANGED <<trailUser, trailLog>>
  PROVE  AuditInv'
<1> DEFINE q == trailReq[r]
           at == IF q.action \in Recorded THEN "record" ELSE "done"
           new == Refused(q, at, "refused", reason, blamed)
<1>1. q \in RequestRows /\ RequestFine(q) /\ trailReq \in [Calls -> RequestRows]
  BY RequestOf
<1>2. trailReq' = [trailReq EXCEPT ![r].at = at, ![r].answer = "refused", ![r].reason = reason,
                                   ![r].blamed = blamed]
  BY DEF Trail!Refuse, Recorded
<1>3. trailReq' = [trailReq EXCEPT ![r] = new]
  BY <1>1, <1>2, Zenon DEF Refused
<1>4. \/ q.action = "LOGIN" /\ reason = "AUTHENTICATION_FAILED"
      \/ /\ q.action \in Trail!AdminActions
         /\ \/ blamed = None /\ reason \in Trail!Unconfirmed
            \/ blamed \in Names /\ reason \in Trail!Confirmed
      \/ q.action \notin Recorded
  OBVIOUS
<1>5. q.at \notin {"new", "done"}
  OBVIOUS
<1> HIDE DEF q
<1>6. at \in Stations /\ "refused" \in MaybeAnswer
  BY DEF Stations, MaybeAnswer
<1>7. at = IF q.action \in Recorded THEN "record" ELSE "done"
  OBVIOUS
<1> HIDE DEF at
<1>8. /\ new \in RequestRows /\ new.at = at /\ new.action = q.action /\ new.actor = q.actor
      /\ new.target = q.target /\ new.answer = "refused" /\ new.reason = reason
      /\ new.blamed = blamed /\ new.applied = q.applied /\ new.unrecorded = q.unrecorded
  BY <1>1, <1>6, RefusedRow
<1> HIDE DEF new
<1>9. ~new.applied /\ ~Owed(new)
  BY <1>1, <1>5, <1>7, <1>8 DEF RequestFine, Owed
<1>10. at = "record" => FailureFits(new)
  BY <1>4, <1>7, <1>8 DEF FailureFits
<1>11. RequestFine(new)
  BY <1>1, <1>5, <1>7, <1>8, <1>10 DEF RequestFine, Asked
<1> QED BY <1>3, <1>5, <1>9, <1>11, RequestMoves DEF q

LEMMA NotSelfFine ==
  ASSUME AuditInv, NEW r \in Calls, Trail!NotSelf(r)
  PROVE  AuditInv'
<1>1. trailReq[r].at = "self" /\ UNCHANGED <<trailUser, trailLog>>
  BY DEF Trail!NotSelf, Trail!At
<1>2. trailReq \in [Calls -> RequestRows] /\ RequestFine(trailReq[r])
  BY RequestOf
<1>3. trailReq[r].actor \in Names /\ trailReq[r].action \in Trail!AdminActions
  BY <1>1, <1>2 DEF RequestFine, Asked
<1>4. CASE Trail!Refuse(r, "SELF_OPERATION_DENIED", trailReq[r].actor)
  <2>1. "SELF_OPERATION_DENIED" \in Trail!Confirmed
    BY DEF Trail!Confirmed
  <2>2. "SELF_OPERATION_DENIED" \in MaybeReason /\ trailReq[r].actor \in MaybeName
    BY <1>3, <2>1 DEF MaybeReason, AuditReasons, MaybeName
  <2>3. trailReq[r].at \notin {"new", "done"}
    BY <1>1
  <2> QED BY <1>1, <1>3, <1>4, <2>1, <2>2, <2>3, RefuseFine
<1>5. CASE Trail!Goto(r, "begin")
  <2>1. trailReq' = [trailReq EXCEPT ![r].at = "begin"]
    BY <1>5 DEF Trail!Goto
  <2>2. trailReq' = [trailReq EXCEPT ![r] = Going(trailReq[r], "begin")]
    BY <1>2, <2>1, Zenon DEF Going
  <2> QED BY <1>1, <2>2, RequestBegins
<1> QED BY <1>4, <1>5 DEF Trail!NotSelf

LEMMA UserFields ==
  ASSUME NEW row \in Trail!UserRows
  PROVE  row.role \in {"USER", "ADMIN"} /\ row.active \in BOOLEAN /\ row.hash \in Hashes /\ row.link \in BOOLEAN
BY DEF Trail!UserRows, Hashes

LEMMA AuditReadFine ==
  ASSUME AuditInv, NEW r \in Calls, Trail!Read(r)
  PROVE  AuditInv'
<1> DEFINE q == trailReq[r]
           row == trailUser[q.target]
           at == IF q.action \in Trail!Serializable THEN "begin" ELSE "save"
<1>1. q \in RequestRows /\ RequestFine(q) /\ trailReq \in [Calls -> RequestRows]
  BY RequestOf
<1>2. q.at = "read" /\ UNCHANGED <<trailUser, trailLog>>
  BY DEF Trail!Read, Trail!At
<1>3. CASE Trail!Refuse(r, "AUTHENTICATION_FAILED", None)
  <2>1. "AUTHENTICATION_FAILED" \in MaybeReason /\ None \in MaybeName
    BY DEF MaybeReason, AuditReasons, MaybeName
  <2>2. q.at \notin {"new", "done"} /\ q.action \notin Trail!AdminActions
    BY <1>1, <1>2 DEF RequestFine
  <2>3. q.action = "LOGIN" \/ q.action \notin Recorded
    BY <2>2 DEF Recorded
  <2> QED BY <1>2, <1>3, <2>1, <2>2, <2>3, RefuseFine
<1>4. CASE /\ row # None
           /\ trailReq' = [trailReq EXCEPT ![r].at = at, ![r].hash = row.hash, ![r].role = row.role]
  <2> DEFINE new == HasRead(q, at, row.hash, row.role)
  <2>1. trailReq' = [trailReq EXCEPT ![r] = new]
    BY <1>1, <1>4, Zenon DEF HasRead
  <2>2. q.target \in Names
    BY <1>1, <1>2 DEF RequestFine, Asked
  <2>3. row \in Trail!UserRows
    BY <1>4, <2>2 DEF AuditInv, AuditTables, AuditUsers
  <2>4. row.hash \in Hashes /\ row.role \in MaybeRole
    BY <2>3, UserFields DEF MaybeRole
  <2>5. at \in Stations /\ (at = "begin" <=> q.action \in Trail!Serializable) /\ at \in {"begin", "save"}
    BY DEF Stations
  <2> HIDE DEF at, q, row
  <2>6. /\ new \in RequestRows /\ new.at = at /\ new.action = q.action /\ new.actor = q.actor
        /\ new.target = q.target /\ new.applied = q.applied /\ new.unrecorded = q.unrecorded
    BY <1>1, <2>4, <2>5, HasReadRow
  <2> HIDE DEF new
  <2>7. RequestFine(new) /\ ~new.applied /\ ~Owed(new)
    BY <1>1, <1>2, <2>5, <2>6 DEF RequestFine, Asked, Owed
  <2> QED BY <1>2, <2>1, <2>7, RequestMoves DEF q
<1> QED BY <1>3, <1>4 DEF Trail!Read

LEMMA AuditBeginFine ==
  ASSUME AuditInv, NEW r \in Calls, Trail!Begin(r)
  PROVE  AuditInv'
<1> DEFINE q == trailReq[r]
           new == Snapped(q, "decide", trailUser)
<1>1. q \in RequestRows /\ RequestFine(q) /\ trailReq \in [Calls -> RequestRows]
  BY RequestOf
<1>2. q.at = "begin" /\ UNCHANGED <<trailUser, trailLog>>
      /\ trailReq' = [trailReq EXCEPT ![r].at = "decide", ![r].snap = trailUser]
  BY DEF Trail!Begin, Trail!At
<1>3. trailReq' = [trailReq EXCEPT ![r] = new]
  BY <1>1, <1>2, Zenon DEF Snapped
<1>4. trailUser \in AuditTables /\ trailUser \in MaybeTable /\ "decide" \in Stations
  BY DEF AuditInv, MaybeTable, Stations
<1> HIDE DEF q
<1>5. /\ new \in RequestRows /\ new.at = "decide" /\ new.action = q.action /\ new.actor = q.actor
      /\ new.target = q.target /\ new.applied = q.applied /\ new.unrecorded = q.unrecorded
      /\ new.snap = trailUser
  BY <1>1, <1>4, SnappedRow
<1> HIDE DEF new
<1>6. RequestFine(new) /\ ~new.applied /\ ~Owed(new)
  BY <1>1, <1>2, <1>4, <1>5 DEF RequestFine, Asked, Owed
<1> QED BY <1>2, <1>3, <1>6, RequestMoves DEF q

LEMMA AuditDecideFine ==
  ASSUME AuditInv, NEW r \in Calls, Trail!Decide(r)
  PROVE  AuditInv'
<1> DEFINE q == trailReq[r]
           row == q.snap[q.target]
<1>1. q \in RequestRows /\ RequestFine(q) /\ trailReq \in [Calls -> RequestRows]
  BY RequestOf
<1>2. q.at = "decide" /\ UNCHANGED <<trailUser, trailLog>> /\ q.at \notin {"new", "done"}
  BY DEF Trail!Decide, Trail!At
<1>3. /\ q.action \in Trail!Serializable /\ q.snap \in AuditTables /\ q.target \in Names
      /\ (q.action \in Trail!AdminActions \/ q.action = "USER_ACCOUNT_DELETE")
  BY <1>1, <1>2 DEF RequestFine, Asked, Trail!Serializable
<1>4. ASSUME NEW reason \in MaybeReason, NEW blamed \in MaybeName, Trail!Refuse(r, reason, blamed),
             \/ q.action = "USER_ACCOUNT_DELETE"
             \/ blamed = None /\ reason \in Trail!Unconfirmed
             \/ blamed \in Names /\ reason \in Trail!Confirmed
      PROVE  AuditInv'
  <2>1. "USER_ACCOUNT_DELETE" \notin Recorded
    BY DEF Recorded, Trail!AdminActions
  <2> QED BY <1>2, <1>3, <1>4, <2>1, RefuseFine
<1>5. /\ {"ACTOR_STATE_CONFLICT", "TARGET_NOT_FOUND"} \subseteq Trail!Unconfirmed
      /\ {"TARGET_STATE_CONFLICT", "LAST_ADMIN_PROTECTED"} \subseteq Trail!Confirmed
      /\ Trail!Unconfirmed \cup Trail!Confirmed \cup {None} \subseteq MaybeReason
      /\ None \in MaybeName /\ q.target \in MaybeName
  BY <1>3 DEF Trail!Unconfirmed, Trail!Confirmed, MaybeReason, AuditReasons, MaybeName
<1>6. CASE \/ Trail!Refuse(r, "ACTOR_STATE_CONFLICT", None)
           \/ Trail!Refuse(r, "TARGET_NOT_FOUND", None)
  BY <1>4, <1>5, <1>6
<1>7. CASE \/ Trail!Refuse(r, "TARGET_STATE_CONFLICT", q.target)
           \/ Trail!Refuse(r, "LAST_ADMIN_PROTECTED", q.target)
  BY <1>3, <1>4, <1>5, <1>7
<1>8. CASE q.action = "USER_ACCOUNT_DELETE" /\ Trail!Refuse(r, None, None)
  BY <1>4, <1>5, <1>8
<1>9. CASE row # None /\ trailReq' = [trailReq EXCEPT ![r].at = "commit", ![r].role = row.role]
  <2> DEFINE new == Approved(q, "commit", row.role)
  <2>1. trailReq' = [trailReq EXCEPT ![r] = new]
    BY <1>1, <1>9, Zenon DEF Approved
  <2>2. row \in Trail!UserRows
    BY <1>3, <1>9 DEF AuditTables, AuditUsers
  <2>3. row.role \in MaybeRole /\ "commit" \in Stations
    BY <2>2, UserFields DEF MaybeRole, Stations
  <2>4. row = q.snap[q.target]
    OBVIOUS
  <2> HIDE DEF q, row
  <2>5. /\ new \in RequestRows /\ new.at = "commit" /\ new.action = q.action /\ new.actor = q.actor
        /\ new.target = q.target /\ new.applied = q.applied /\ new.unrecorded = q.unrecorded
        /\ new.snap = q.snap /\ new.role = row.role
    BY <1>1, <2>3, ApprovedRow
  <2> HIDE DEF new
  <2>6. new.snap[new.target] # None /\ new.role = new.snap[new.target].role
    BY <1>9, <2>4, <2>5
  <2>7. RequestFine(new) /\ ~new.applied /\ ~Owed(new)
    BY <1>1, <1>2, <1>3, <2>5, <2>6 DEF RequestFine, Asked, Owed
  <2> QED BY <1>2, <2>1, <2>7, RequestMoves DEF q
<1>10. \/ Trail!Refuse(r, "ACTOR_STATE_CONFLICT", None)
       \/ Trail!Refuse(r, "TARGET_NOT_FOUND", None)
       \/ Trail!Refuse(r, "TARGET_STATE_CONFLICT", q.target)
       \/ Trail!Refuse(r, "LAST_ADMIN_PROTECTED", q.target)
       \/ q.action = "USER_ACCOUNT_DELETE" /\ Trail!Refuse(r, None, None)
       \/ row # None /\ trailReq' = [trailReq EXCEPT ![r].at = "commit", ![r].role = row.role]
  BY DEF Trail!Decide
<1> QED BY <1>6, <1>7, <1>8, <1>9, <1>10

(* An error is answered without a row. *)
LEMMA FinishFine ==
  ASSUME AuditInv, NEW r \in Calls, Trail!Finish(r, "error"), trailReq[r].at \notin {"new", "done"},
         UNCHANGED <<trailUser, trailLog>>
  PROVE  AuditInv'
<1> DEFINE q == trailReq[r]
           new == Finished(q, "done", "error")
<1>1. q \in RequestRows /\ RequestFine(q) /\ trailReq \in [Calls -> RequestRows]
      /\ q.at \notin {"new", "done"}
  BY RequestOf
<1>2. trailReq' = [trailReq EXCEPT ![r].at = "done", ![r].answer = "error"]
  BY DEF Trail!Finish
<1>3. trailReq' = [trailReq EXCEPT ![r] = new]
  BY <1>1, <1>2, Zenon DEF Finished
<1> HIDE DEF q
<1>4. "done" \in Stations /\ "error" \in MaybeAnswer
  BY DEF Stations, MaybeAnswer
<1>5. /\ new \in RequestRows /\ new.at = "done" /\ new.action = q.action /\ new.actor = q.actor
      /\ new.target = q.target /\ new.applied = q.applied /\ new.answer = "error"
  BY <1>1, <1>4, FinishedRow
<1> HIDE DEF new
<1>6. RequestFine(new) /\ ~new.applied /\ ~Owed(new)
  BY <1>1, <1>5 DEF RequestFine, Asked, Owed
<1> QED BY <1>1, <1>3, <1>6, RequestMoves DEF q

LEMMA AfterFine ==
  ASSUME AuditInv, NEW r \in Calls, NEW row \in Trail!UserRows
  PROVE  Trail!After(r, row) \in AuditUsers
<1>1. row.active \in BOOLEAN /\ row.hash \in 0 .. 1 /\ 1 - row.hash \in 0 .. 1
  BY DEF Trail!UserRows
<1>2. /\ [row EXCEPT !.active = FALSE, !.link = FALSE] \in Trail!UserRows
      /\ [row EXCEPT !.active = TRUE] \in Trail!UserRows
  BY DEF Trail!UserRows
<1>3. \A role \in {"USER", "ADMIN"} : [row EXCEPT !.role = role] \in Trail!UserRows
  BY DEF Trail!UserRows
<1>4. \A hash \in 0 .. 1 : /\ [row EXCEPT !.hash = hash] \in Trail!UserRows
                           /\ [row EXCEPT !.hash = hash, !.link = FALSE] \in Trail!UserRows
  BY DEF Trail!UserRows
<1>5. [row EXCEPT !.role = IF row.role = "ADMIN" THEN "USER" ELSE "ADMIN"] \in Trail!UserRows
  <2>1. PICK role \in {"USER", "ADMIN"} : role = IF row.role = "ADMIN" THEN "USER" ELSE "ADMIN"
    OBVIOUS
  <2> QED BY <1>3, <2>1
<1>6. /\ [row EXCEPT !.hash = 1 - row.hash] \in Trail!UserRows
      /\ [row EXCEPT !.hash = 1 - row.hash, !.link = FALSE] \in Trail!UserRows
  BY <1>1, <1>4
<1> HIDE DEF Trail!UserRows
<1>7. Trail!After(r, row) \in {[row EXCEPT !.active = FALSE, !.link = FALSE],
                               [row EXCEPT !.active = TRUE],
                               [row EXCEPT !.role = IF row.role = "ADMIN" THEN "USER" ELSE "ADMIN"],
                               [row EXCEPT !.hash = 1 - row.hash],
                               [row EXCEPT !.hash = 1 - row.hash, !.link = FALSE],
                               row, None}
  BY Zenon DEF Trail!After
<1> QED BY <1>2, <1>5, <1>6, <1>7 DEF AuditUsers

(* The row a change adds. *)
LogRow(r, event, was) == [req |-> r, event |-> event, was |-> was]

LEMMA LogRowFine ==
  ASSUME NEW r \in Calls, NEW e1 \in EventRows, NEW was \in MaybeRole
  PROVE  LogRow(r, e1, was) \in LogRows /\ LogRow(r, e1, was).req = r
         /\ LogRow(r, e1, was).event = e1 /\ LogRow(r, e1, was).was = was
BY DEF LogRow, LogRows

LEMMA EventFine ==
  ASSUME NEW action \in MaybeAction, NEW result \in {"SUCCESS", "FAILURE"}, NEW actor \in MaybeName,
         NEW role \in MaybeRole, NEW target \in MaybeName, NEW reason \in MaybeReason
  PROVE  LET e1 == Trail!Event(action, result, actor, role, target, reason)
         IN /\ e1 \in EventRows /\ e1.action = action /\ e1.result = result /\ e1.actor = actor
            /\ e1.role = role
BY DEF Trail!Event, EventRows

(* AddRow appends a row of its event, with the role of the actor. *)
LEMMA AddRowFine ==
  ASSUME AuditInv, NEW r \in Calls, NEW e1 \in EventRows, Trail!AddRow(r, e1)
  PROVE  \E was \in MaybeRole :
           /\ trailLog' = Append(trailLog, LogRow(r, e1, was))
           /\ e1.actor \in Names /\ trailUser[e1.actor] # None => was = trailUser[e1.actor].role
<1> DEFINE row == IF e1.actor = None THEN None ELSE trailUser[e1.actor]
           was == IF row = None THEN None ELSE row.role
<1>1. trailLog' = Append(trailLog, LogRow(r, e1, was))
  BY DEF Trail!AddRow, LogRow
<1>2. e1.actor \in MaybeName
  BY DEF EventRows
<1>3. e1.actor \in Names => trailUser[e1.actor] \in AuditUsers /\ row = trailUser[e1.actor]
  BY AuditConstants DEF AuditInv, AuditTables
<1>4. was \in MaybeRole
  <2>1. row = None \/ row \in Trail!UserRows
    BY <1>2, <1>3 DEF MaybeName, AuditUsers
  <2> HIDE DEF row
  <2> QED BY <2>1, UserFields DEF MaybeRole
<1>5. e1.actor \in Names /\ trailUser[e1.actor] # None => was = trailUser[e1.actor].role
  BY <1>3
<1> HIDE DEF was
<1> QED BY <1>1, <1>4, <1>5

LEMMA SuccessFine ==
  ASSUME AuditInv, NEW r \in Calls, trailReq[r].at \notin {"new", "done"}
  PROVE  LET e1 == Trail!SuccessEvent(r)
         IN /\ e1 \in EventRows /\ e1.result = "SUCCESS"
            /\ e1.action \in {"LOGIN", "USER_ACCOUNT_DELETE"}
                 => /\ trailReq[r].action \in {"LOGIN", "USER_ACCOUNT_DELETE"}
                    /\ e1.role = trailReq[r].role /\ e1.actor = trailReq[r].target
                    /\ e1.actor \in Names
<1> DEFINE q == trailReq[r]
<1>1. q \in RequestRows /\ Asked(q)
  BY RequestOf DEF RequestFine
<1>2. /\ q.action \in MaybeAction /\ q.actor \in MaybeName /\ q.target \in MaybeName
      /\ q.role \in MaybeRole /\ None \in MaybeReason /\ None \in MaybeName /\ None \in MaybeRole
      /\ "ADMIN" \in MaybeRole
  BY <1>1 DEF RequestRows, MaybeReason, MaybeName, MaybeRole
<1>3. CASE q.action \in Trail!AdminActions
  <2>1. Trail!SuccessEvent(r) = Trail!Event(q.action, "SUCCESS", q.actor, "ADMIN", q.target, None)
    BY <1>3 DEF Trail!SuccessEvent, Trail!AdminActions
  <2>2. {"LOGIN", "USER_ACCOUNT_DELETE"} \cap Trail!AdminActions = {}
    BY DEF Trail!AdminActions
  <2> HIDE DEF q
  <2> QED BY <1>2, <1>3, <2>1, <2>2, EventFine
<1>4. CASE q.action \notin Trail!AdminActions /\ q.action = "PASSWORD_RESET"
  <2>1. Trail!SuccessEvent(r) = Trail!Event(q.action, "SUCCESS", None, None, q.target, None)
    BY <1>4 DEF Trail!SuccessEvent
  <2> HIDE DEF q
  <2> QED BY <1>2, <1>4, <2>1, EventFine
<1>5. CASE q.action \notin Trail!AdminActions /\ q.action # "PASSWORD_RESET"
  <2>1. Trail!SuccessEvent(r) = Trail!Event(q.action, "SUCCESS", q.actor, q.role, q.target, None)
    BY <1>5 DEF Trail!SuccessEvent
  <2>2. q.actor = q.target /\ q.actor \in Names
    BY <1>1, <1>5 DEF Asked
  <2>3. LET e1 == Trail!SuccessEvent(r)
        IN /\ e1 \in EventRows /\ e1.action = q.action /\ e1.result = "SUCCESS" /\ e1.actor = q.actor
           /\ e1.role = q.role
    <3> HIDE DEF q
    <3> QED BY <1>2, <2>1, EventFine
  <2> QED BY <2>2, <2>3
<1> QED BY <1>3, <1>4, <1>5

LEMMA SaveFine ==
  ASSUME AuditInv, NEW r \in Calls, Trail!Save(r), trailReq[r].at \in {"save", "commit"},
         trailUser[trailReq[r].target] # None,
         trailReq[r].action \in {"LOGIN", "USER_ACCOUNT_DELETE"}
           => trailUser[trailReq[r].target].role = trailReq[r].role
  PROVE  AuditInv'
<1> DEFINE q == trailReq[r]
           old == trailUser[q.target]
           ev == Trail!SuccessEvent(r)
<1>1. q \in RequestRows /\ RequestFine(q) /\ trailReq \in [Calls -> RequestRows] /\ Asked(q)
      /\ q.at \notin {"new", "done"} /\ trailUser \in AuditTables
  BY RequestOf DEF RequestFine, AuditInv
<1>2. CASE Trail!Finish(r, "error") /\ UNCHANGED <<trailUser, trailLog>>
  BY <1>1, <1>2, FinishFine
<1>3. CASE \E answer \in {"done", "error"} :
             /\ trailUser' = [trailUser EXCEPT ![q.target] = Trail!After(r, old)]
             /\ Trail!AddRow(r, ev)
             /\ trailReq' = [trailReq EXCEPT ![r].at = "done", ![r].answer = answer, ![r].applied = TRUE]
  <2>1. PICK answer \in {"done", "error"} :
          /\ trailUser' = [trailUser EXCEPT ![q.target] = Trail!After(r, old)]
          /\ Trail!AddRow(r, ev)
          /\ trailReq' = [trailReq EXCEPT ![r].at = "done", ![r].answer = answer, ![r].applied = TRUE]
    BY <1>3
  <2>2. trailUser' \in AuditTables
    <3>1. old \in Trail!UserRows /\ q.target \in Names
      BY <1>1 DEF Asked, AuditTables, AuditUsers
    <3>2. Trail!After(r, old) \in AuditUsers
      BY <3>1, AfterFine
    <3> HIDE DEF old, q
    <3> QED BY <1>1, <2>1, <3>2 DEF AuditTables
  <2>3. /\ ev \in EventRows /\ ev.result = "SUCCESS"
        /\ ev.action \in {"LOGIN", "USER_ACCOUNT_DELETE"}
             => /\ q.action \in {"LOGIN", "USER_ACCOUNT_DELETE"} /\ ev.role = q.role
                /\ ev.actor = q.target /\ ev.actor \in Names
    BY <1>1, SuccessFine
  <2>4. old # None /\ (q.action \in {"LOGIN", "USER_ACCOUNT_DELETE"} => old.role = q.role)
    OBVIOUS
  <2> DEFINE new == Applied(q, "done", answer)
  <2>5. trailReq' = [trailReq EXCEPT ![r] = new]
    BY <1>1, <2>1, Zenon DEF Applied
  <2> HIDE DEF ev
  <2>6. PICK was \in MaybeRole :
          /\ trailLog' = Append(trailLog, LogRow(r, ev, was))
          /\ ev.actor \in Names /\ trailUser[ev.actor] # None => was = trailUser[ev.actor].role
    BY <2>1, <2>3, AddRowFine
  <2> DEFINE row == LogRow(r, ev, was)
  <2>7. row \in LogRows /\ row.req = r /\ row.event = ev /\ row.was = was
    BY <2>3, LogRowFine
  <2> HIDE DEF row
  <2>8. RoleOfMoment(row)
    BY <2>3, <2>4, <2>6, <2>7 DEF RoleOfMoment
  <2> HIDE DEF q
  <2>9. /\ new \in RequestRows /\ new.at = "done" /\ new.action = q.action /\ new.actor = q.actor
        /\ new.target = q.target /\ new.applied /\ new.answer = answer
    <3>1. "done" \in Stations /\ answer \in MaybeAnswer
      BY <2>1 DEF Stations, MaybeAnswer
    <3> QED BY <1>1, <3>1, AppliedRow
  <2> HIDE DEF new
  <2>10. RequestFine(new) /\ new.applied /\ ~Owed(new)
    BY <1>1, <2>9 DEF RequestFine, Asked, Owed
  <2>11. trailLog' = Append(trailLog, row) /\ row.event.result = "SUCCESS"
    BY <2>3, <2>6, <2>7 DEF row
  <2>12. trailReq[r].at # "done"
    BY <1>1 DEF q
  <2> QED BY <2>2, <2>5, <2>7, <2>8, <2>10, <2>11, <2>12, RequestWrites
<1> QED BY <1>2, <1>3 DEF Trail!Save

LEMMA OwnAndCommitFine ==
  ASSUME AuditInv, NEW r \in Calls, Trail!SaveOwn(r) \/ Trail!Commit(r)
  PROVE  AuditInv'
<1> DEFINE q == trailReq[r]
<1>1. q \in RequestRows /\ RequestFine(q) /\ trailReq \in [Calls -> RequestRows]
  BY RequestOf
<1>2. CASE Trail!SaveOwn(r)
  <2>1. q.at = "save"
    BY <1>2 DEF Trail!SaveOwn, Trail!At
  <2>2. q.action \notin Trail!AdminActions /\ q.action # "USER_ACCOUNT_DELETE"
    BY <1>1, <2>1 DEF RequestFine, Trail!Serializable
  <2>3. CASE Trail!Unchanged(r) /\ Trail!Save(r)
    BY <2>1, <2>2, <2>3, SaveFine DEF Trail!Unchanged
  <2>4. CASE Trail!Refuse(r, "AUTHENTICATION_FAILED", None) /\ UNCHANGED <<trailUser, trailLog>>
    <3>1. "AUTHENTICATION_FAILED" \in MaybeReason /\ None \in MaybeName
      BY DEF MaybeReason, AuditReasons, MaybeName
    <3>2. q.at \notin {"new", "done"} /\ (q.action = "LOGIN" \/ q.action \notin Recorded)
      BY <2>1, <2>2 DEF Recorded
    <3> QED BY <2>4, <3>1, <3>2, RefuseFine
  <2> QED BY <1>2, <2>3, <2>4 DEF Trail!SaveOwn
<1>3. CASE Trail!Commit(r)
  <2>1. q.at = "commit" /\ trailUser[q.target] = q.snap[q.target] /\ Trail!Save(r)
    BY <1>3 DEF Trail!Commit, Trail!At
  <2>2. q.snap[q.target] # None /\ q.role = q.snap[q.target].role
    BY <1>1, <2>1 DEF RequestFine
  <2> QED BY <2>1, <2>2, SaveFine
<1> QED BY <1>2, <1>3

LEMMA ConflictFine ==
  ASSUME AuditInv, NEW r \in Calls, Trail!Conflict(r)
  PROVE  AuditInv'
<1> DEFINE q == trailReq[r]
<1>1. q \in RequestRows /\ RequestFine(q) /\ trailReq \in [Calls -> RequestRows]
  BY RequestOf
<1>2. q.at \in {"decide", "commit"} /\ q.at \notin {"new", "done"} /\ UNCHANGED <<trailUser, trailLog>>
  BY DEF Trail!Conflict
<1>3. q.action \in Trail!AdminActions \/ q.action = "USER_ACCOUNT_DELETE"
  BY <1>1, <1>2 DEF RequestFine, Trail!Serializable
<1>4. CASE trailReq' = [trailReq EXCEPT ![r].at = "begin", ![r].attempt = q.attempt + 1]
  <2> DEFINE new == Retried(q, "begin", q.attempt + 1)
  <2>1. trailReq' = [trailReq EXCEPT ![r] = new]
    BY <1>1, <1>4, Zenon DEF Retried
  <2>2. q.attempt + 1 \in Nat /\ "begin" \in Stations
    BY <1>1 DEF RequestRows, Stations
  <2> HIDE DEF q
  <2>3. /\ new \in RequestRows /\ new.at = "begin" /\ new.action = q.action /\ new.actor = q.actor
        /\ new.target = q.target /\ new.applied = q.applied /\ new.unrecorded = q.unrecorded
    BY <1>1, <2>2, RetriedRow
  <2> HIDE DEF new
  <2>4. RequestFine(new) /\ ~new.applied /\ ~Owed(new)
    BY <1>1, <1>2, <2>3 DEF RequestFine, Asked, Owed
  <2> QED BY <1>2, <2>1, <2>4, RequestMoves DEF q
<1>5. CASE q.action \in Trail!AdminActions /\ Trail!Refuse(r, "SERIALIZATION_CONFLICT", None)
  <2>1. "SERIALIZATION_CONFLICT" \in Trail!Unconfirmed
    BY DEF Trail!Unconfirmed
  <2>2. "SERIALIZATION_CONFLICT" \in MaybeReason /\ None \in MaybeName
    BY <2>1 DEF MaybeReason, AuditReasons, MaybeName
  <2> QED BY <1>2, <1>5, <2>1, <2>2, RefuseFine
<1>6. CASE q.action \notin Trail!AdminActions /\ Trail!Refuse(r, None, None)
  <2>1. None \in MaybeReason /\ None \in MaybeName
    BY DEF MaybeReason, MaybeName
  <2>2. q.action \notin Recorded
    BY <1>3, <1>6 DEF Recorded
  <2> QED BY <1>2, <1>6, <2>1, <2>2, RefuseFine
<1> QED BY <1>4, <1>5, <1>6 DEF Trail!Conflict

LEMMA LoseFine ==
  ASSUME AuditInv, NEW r \in Calls, Trail!Lose(r)
  PROVE  AuditInv'
BY FinishFine DEF Trail!Lose

(* The FAILURE event of a request fits the schema, so its row is missing     *)
(* only if the insert failed.                                               *)
LEMMA FailureFine ==
  ASSUME AuditInv, NEW r \in Calls, trailReq[r].at = "record"
  PROVE  LET e1 == Trail!FailureEvent(r)
         IN e1 \in EventRows /\ e1.result = "FAILURE" /\ Trail!Recordable(e1)
<1> DEFINE q == trailReq[r]
           e1 == Trail!FailureEvent(r)
<1>1. q \in RequestRows /\ Asked(q) /\ FailureFits(q)
  BY RequestOf DEF RequestFine
<1>2. /\ q.action \in MaybeAction /\ q.actor \in MaybeName /\ q.blamed \in MaybeName
      /\ q.reason \in MaybeReason /\ None \in MaybeName /\ None \in MaybeRole /\ "ADMIN" \in MaybeRole
  BY <1>1 DEF RequestRows, MaybeName, MaybeRole
<1>3. CASE q.action = "LOGIN"
  <2>1. e1 = Trail!Event("LOGIN", "FAILURE", None, None, None, q.reason)
    BY <1>3 DEF Trail!FailureEvent
  <2>2. q.reason = "AUTHENTICATION_FAILED"
    BY <1>1, <1>3 DEF FailureFits, Trail!AdminActions
  <2>3. e1 = Trail!Event("LOGIN", "FAILURE", None, None, None, "AUTHENTICATION_FAILED")
    BY <2>1, <2>2
  <2>4. Trail!Recordable(e1)
    BY <2>3 DEF Trail!Recordable
  <2>5. e1 \in EventRows /\ e1.result = "FAILURE"
    <3> HIDE DEF e1, q
    <3> QED BY <1>2, <1>3, <2>1, EventFine
  <2> QED BY <2>4, <2>5
<1>4. CASE q.action # "LOGIN"
  <2>1. e1 = Trail!Event(q.action, "FAILURE", q.actor, "ADMIN", q.blamed, q.reason)
    BY <1>4 DEF Trail!FailureEvent
  <2>2. /\ q.action \in Trail!AdminActions /\ q.actor \in Names
        /\ \/ q.blamed = None /\ q.reason \in Trail!Unconfirmed
           \/ q.blamed \in Names /\ q.reason \in Trail!Confirmed
    BY <1>1, <1>4 DEF FailureFits, Asked
  <2> HIDE DEF e1, q
  <2>3. /\ e1.result = "FAILURE" /\ e1.action = q.action /\ e1.actor = q.actor /\ e1.role = "ADMIN"
        /\ e1.target = q.blamed /\ e1.reason = q.reason
    BY <2>1 DEF Trail!Event
  <2>4. Trail!Recordable(e1)
    BY <2>2, <2>3 DEF Trail!Recordable
  <2>5. e1 \in EventRows
    BY <1>2, <2>1, EventFine
  <2> QED BY <2>3, <2>4, <2>5 DEF e1
<1> QED BY <1>3, <1>4

LEMMA AuditRecordFine ==
  ASSUME AuditInv, NEW r \in Calls, Trail!Record(r)
  PROVE  AuditInv'
<1> DEFINE q == trailReq[r]
           ev == Trail!FailureEvent(r)
<1>1. q \in RequestRows /\ RequestFine(q) /\ trailReq \in [Calls -> RequestRows]
  BY RequestOf
<1>2. q.at = "record" /\ UNCHANGED trailUser
  BY DEF Trail!Record, Trail!At
<1>3. ev \in EventRows /\ ev.result = "FAILURE" /\ Trail!Recordable(ev)
  BY <1>2, FailureFine
<1>4. q.answer = "refused" /\ q.action \in Recorded /\ ~q.applied /\ ~q.unrecorded /\ Asked(q)
  BY <1>1, <1>2 DEF RequestFine, FailureFits, Recorded
<1>5. CASE Trail!AddRow(r, ev) /\ Trail!Finish(r, "refused")
  <2> DEFINE new == Finished(q, "done", "refused")
  <2>1. trailReq' = [trailReq EXCEPT ![r].at = "done", ![r].answer = "refused"]
    BY <1>5 DEF Trail!Finish
  <2>2. trailReq' = [trailReq EXCEPT ![r] = new]
    BY <1>1, <2>1, Zenon DEF Finished
  <2> HIDE DEF ev
  <2>3. PICK was \in MaybeRole : trailLog' = Append(trailLog, LogRow(r, ev, was))
    BY <1>3, <1>5, AddRowFine
  <2> DEFINE row == LogRow(r, ev, was)
  <2>4. row \in LogRows /\ row.req = r /\ row.event = ev
    BY <1>3, LogRowFine
  <2> HIDE DEF row
  <2>5. RoleOfMoment(row) /\ row.event.result = "FAILURE" /\ trailLog' = Append(trailLog, row)
    BY <1>3, <2>3, <2>4 DEF RoleOfMoment, row
  <2> HIDE DEF q
  <2>6. "done" \in Stations /\ "refused" \in MaybeAnswer
    BY DEF Stations, MaybeAnswer
  <2>7. /\ new \in RequestRows /\ new.at = "done" /\ new.action = q.action /\ new.actor = q.actor
        /\ new.target = q.target /\ new.applied = q.applied /\ new.answer = "refused"
        /\ new.unrecorded = q.unrecorded
    BY <1>1, <2>6, FinishedRow
  <2> HIDE DEF new
  <2>8. RequestFine(new) /\ ~new.applied /\ Owed(new)
    BY <1>4, <2>7 DEF RequestFine, Asked, Owed
  <2>9. trailUser' \in AuditTables /\ trailReq[r].at # "done"
    BY <1>2 DEF AuditInv, q
  <2> QED BY <2>2, <2>4, <2>5, <2>8, <2>9, RequestWrites
<1>6. CASE /\ trailReq' = [trailReq EXCEPT ![r].at = "done", ![r].unrecorded = Trail!Recordable(ev)]
           /\ UNCHANGED trailLog
  <2>1. trailReq' = [trailReq EXCEPT ![r].at = "done", ![r].unrecorded = TRUE]
    <3>1. Trail!Recordable(ev) = TRUE
      <4>1. Trail!Recordable(ev)
        BY <1>3
      <4>2. Trail!Recordable(ev) <=> TRUE
        BY <4>1
      <4> QED BY <4>2 DEF Trail!Recordable
    <3> QED BY <1>6, <3>1, Zenon
  <2> DEFINE new == Unwritten(q, "done")
  <2>2. trailReq' = [trailReq EXCEPT ![r] = new]
    BY <1>1, <2>1, Zenon DEF Unwritten
  <2> HIDE DEF q
  <2>3. "done" \in Stations
    BY DEF Stations
  <2>4. /\ new \in RequestRows /\ new.at = "done" /\ new.action = q.action /\ new.actor = q.actor
        /\ new.target = q.target /\ new.applied = q.applied /\ new.unrecorded
    BY <1>1, <2>3, UnwrittenRow
  <2> HIDE DEF new
  <2>5. RequestFine(new) /\ ~new.applied /\ ~Owed(new)
    BY <1>4, <2>4 DEF RequestFine, Asked, Owed
  <2>6. trailReq[r].at # "done"
    BY <1>2 DEF q
  <2> QED BY <1>2, <1>6, <2>2, <2>5, <2>6, RequestMoves
<1> QED BY <1>5, <1>6 DEF Trail!Record

LEMMA AuditStarts ==
  ASSUME Trail!Init
  PROVE  AuditInv
<1> DEFINE fresh == [at |-> "new", action |-> None, actor |-> None, target |-> None, hash |-> 0,
                     role |-> None, snap |-> None, attempt |-> 1, answer |-> None, reason |-> None,
                     blamed |-> None, applied |-> FALSE, unrecorded |-> FALSE]
<1>1. trailReq = [r \in Calls |-> fresh] /\ trailLog = << >>
  BY DEF Trail!Init
<1>2. fresh \in RequestRows
  <2>1. /\ "new" \in Stations /\ None \in MaybeAction /\ None \in MaybeName /\ 0 \in Hashes
        /\ None \in MaybeRole /\ None \in MaybeTable /\ 1 \in Nat /\ None \in MaybeAnswer
        /\ None \in MaybeReason /\ FALSE \in BOOLEAN
    BY DEF Stations, MaybeAction, MaybeName, Hashes, MaybeRole, MaybeTable, MaybeAnswer, MaybeReason
  <2> QED BY <2>1 DEF RequestRows
<1>3. fresh.at = "new" /\ ~fresh.applied /\ ~fresh.unrecorded
  OBVIOUS
<1> HIDE DEF fresh
<1>4. RequestFine(fresh) /\ ~Owed(fresh) /\ ~fresh.applied
  BY <1>2, <1>3 DEF RequestFine, Owed
<1>5. trailUser \in AuditTables
  BY DEF Trail!Init, AuditTables, AuditUsers
<1>6. \A r, result : Tally(r, result) = 0
  <2> TAKE r, result
  <2>1. Trail!RowsOf(r, result) = {}
    BY <1>1 DEF Trail!RowsOf
  <2> QED BY <2>1, OneCardinality, FS_EmptySet DEF Tally
<1>7. \A r \in Calls : Told(r)
  BY <1>1, <1>4, <1>6 DEF Told
<1>8. trailLog \in Seq(LogRows) /\ \A i \in DOMAIN trailLog : RoleOfMoment(trailLog[i])
  BY <1>1
<1>9. trailReq \in [Calls -> RequestRows] /\ \A r \in Calls : RequestFine(trailReq[r])
  BY <1>1, <1>2, <1>4
<1> QED BY <1>5, <1>7, <1>8, <1>9 DEF AuditInv

LEMMA AuditNext ==
  ASSUME AuditInv, [Trail!Next]_(Trail!vars)
  PROVE  AuditInv'
<1>1. CASE UNCHANGED Trail!vars
  BY <1>1 DEF Trail!vars, AuditInv, Told, Tally, Trail!RowsOf, RequestFine, Asked, FailureFits, RoleOfMoment
<1>2. CASE Trail!Next
  BY <1>2, ReceiveFine, NotSelfFine, AuditReadFine, OwnAndCommitFine, AuditBeginFine,
     AuditDecideFine, ConflictFine, LoseFine, AuditRecordFine DEF Trail!Next
<1> QED BY <1>1, <1>2

----------------------------------------------------------------------------
(* The cleanup jobs, with the facts of RetentionProofs.                     *)

CleanupFacts == INSTANCE RetentionProofs WITH
    Runs <- Calls, job <- cleanupJob, enabled <- cleanupEnabled, now <- cleanupNow,
    due <- cleanupDue, run <- cleanupRun, removed <- cleanupRemoved

LEMMA CleanupAssumed == CleanupFacts!RetentionAssumption
BY InstancesAssumption DEF CleanupFacts!RetentionAssumption, Cleanup!RetentionAssumption,
                           CleanupFacts!IsFiniteSet, Cleanup!IsFiniteSet

LEMMA CleanupInits ==
  ASSUME Cleanup!Init
  PROVE  CleanupFacts!Init
BY DEF Cleanup!Init, CleanupFacts!Init, Cleanup!Jobs, CleanupFacts!Jobs, Cleanup!Gone, CleanupFacts!Gone,
       Cleanup!Unborn, CleanupFacts!Unborn, Cleanup!Never, CleanupFacts!Never, Cleanup!Idle, CleanupFacts!Idle

LEMMA CleanupNexts ==
  ASSUME [Cleanup!Next]_(Cleanup!vars)
  PROVE  [CleanupFacts!Next]_(CleanupFacts!vars)
BY DEF Cleanup!Next, CleanupFacts!Next, Cleanup!vars, CleanupFacts!vars,
       Cleanup!RunNext, CleanupFacts!RunNext, Cleanup!Gone, CleanupFacts!Gone,
       Cleanup!Unborn, CleanupFacts!Unborn, Cleanup!Never, CleanupFacts!Never,
       Cleanup!Idle, CleanupFacts!Idle, Cleanup!Due, CleanupFacts!Due,
       Cleanup!Cutoff, CleanupFacts!Cutoff, Cleanup!Scopes, CleanupFacts!Scopes,
       Cleanup!Start, CleanupFacts!Start, Cleanup!Look, CleanupFacts!Look,
       Cleanup!Size, CleanupFacts!Size, Cleanup!Stop, CleanupFacts!Stop,
       Cleanup!MustStop, CleanupFacts!MustStop, Cleanup!AfterRead, CleanupFacts!AfterRead,
       Cleanup!IsBatch, CleanupFacts!IsBatch, Cleanup!ReadBatch, CleanupFacts!ReadBatch,
       Cleanup!Again, CleanupFacts!Again, Cleanup!CountedAsDeleted, CleanupFacts!CountedAsDeleted,
       Cleanup!Deleted, CleanupFacts!Deleted, Cleanup!DeleteBatch, CleanupFacts!DeleteBatch,
       Cleanup!LimitReached, CleanupFacts!LimitReached, Cleanup!Check, CleanupFacts!Check,
       Cleanup!Verify, CleanupFacts!Verify, Cleanup!Fail, CleanupFacts!Fail,
       Cleanup!Insert, CleanupFacts!Insert, Cleanup!Remove, CleanupFacts!Remove,
       Cleanup!Tick, CleanupFacts!Tick, Cleanup!Cardinality, CleanupFacts!Cardinality,
       Cleanup!IsFiniteSet, CleanupFacts!IsFiniteSet

LEMMA CleanupPromises ==
  ASSUME CleanupFacts!IInv, CleanupFacts!CountInv
  PROVE  Cleanup!TypeOK /\ Cleanup!SuccessLeavesNothing /\ Cleanup!CountsAddUp
<1>1. CleanupFacts!TypeOK /\ CleanupFacts!CountsAddUp
  BY DEF CleanupFacts!IInv, CleanupFacts!CountInv
<1>2. \A w \in Calls : CleanupFacts!Success(w)
  BY DEF CleanupFacts!IInv, CleanupFacts!RunInv
<1>3. Cleanup!TypeOK
  BY <1>1 DEF Cleanup!TypeOK, CleanupFacts!TypeOK, Cleanup!Jobs, CleanupFacts!Jobs, Cleanup!Gone,
       CleanupFacts!Gone, Cleanup!Unborn, CleanupFacts!Unborn, Cleanup!Never, CleanupFacts!Never,
       Cleanup!RunType, CleanupFacts!RunType, Cleanup!Cardinality, CleanupFacts!Cardinality
<1>4. Cleanup!SuccessLeavesNothing
  BY <1>2 DEF CleanupFacts!Success, Cleanup!SuccessLeavesNothing, Cleanup!Due, CleanupFacts!Due
<1>5. Cleanup!CountsAddUp
  <2> DEFINE reports == [w \in Calls |-> cleanupRun[w].deleted]
  <2>1. Cleanup!SumFunction(reports) = CleanupFacts!SumFunction(reports)
    BY DEF Cleanup!SumFunction, CleanupFacts!SumFunction, Cleanup!SumFunctionOnSet,
           CleanupFacts!SumFunctionOnSet, Cleanup!FoldFunctionOnSet, CleanupFacts!FoldFunctionOnSet,
           Cleanup!MapThenFoldSet, CleanupFacts!MapThenFoldSet
  <2> QED BY <1>1, <2>1 DEF Cleanup!CountsAddUp, CleanupFacts!CountsAddUp
<1> QED BY <1>3, <1>4, <1>5

----------------------------------------------------------------------------
(* The parts of the server that report.                                     *)

ReleasePart == which = "campaign" => ReleaseInv
MeasurePart == which = "deletion" => MeasureInv
AuditPart == which = "audit" => AuditInv
ListPart == which = "users" => ListInv
CleanupPart == which = "cleanup" => CleanupFacts!IInv /\ CleanupFacts!CountInv

ReportInv == ReleasePart /\ MeasurePart /\ AuditPart /\ ListPart /\ CleanupPart

LEMMA ReportsStart ==
  ASSUME AllInit
  PROVE  ReportInv
<1>1. which = "cleanup" => CleanupFacts!Init
  BY ComponentStarts, CleanupInits
<1>2. CleanupPart
  BY <1>1, CleanupFacts!InitIInv, CleanupFacts!CountInit, CleanupAssumed DEF CleanupPart
<1>3. ReleasePart /\ MeasurePart /\ AuditPart /\ ListPart
  BY ComponentStarts, ReleaseStarts, MeasureStarts, AuditStarts, ListStarts
     DEF ReleasePart, MeasurePart, AuditPart, ListPart
<1> QED BY <1>2, <1>3 DEF ReportInv

LEMMA MeasureMoves ==
  ASSUME MeasureInv, [Measure!Next]_(Measure!vars)
  PROVE  MeasureInv'
<1>1. CASE UNCHANGED Measure!vars
  BY <1>1 DEF Measure!vars, MeasureInv, AtWork, WorkFine, Measure!FixtureTold
<1> QED BY <1>1, MeasureNext

LEMMA CleanupMoves ==
  ASSUME CleanupFacts!IInv, CleanupFacts!CountInv, [Cleanup!Next]_(Cleanup!vars)
  PROVE  CleanupFacts!IInv' /\ CleanupFacts!CountInv'
<1>1. [CleanupFacts!Next]_(CleanupFacts!vars)
  BY CleanupNexts
<1>2. CleanupFacts!IInv'
  BY <1>1, CleanupFacts!StepIInv, CleanupAssumed
<1>3. CleanupFacts!TypeOK'
  BY <1>2 DEF CleanupFacts!IInv
<1>4. CleanupFacts!CountInv'
  BY <1>1, <1>3, CleanupFacts!CountStep, CleanupAssumed
<1> QED BY <1>2, <1>4

LEMMA ReportsMove ==
  ASSUME ReportInv, [AllNext]_allVars
  PROVE  ReportInv'
<1>1. which' = which
  BY ComponentSteps
<1>2. ReleasePart' /\ AuditPart' /\ ListPart'
  BY <1>1, ComponentSteps, ReleaseNext, AuditNext, ListNext
     DEF ReportInv, ReleasePart, AuditPart, ListPart
<1>3. MeasurePart' /\ CleanupPart'
  BY <1>1, ComponentSteps, MeasureMoves, CleanupMoves DEF ReportInv, MeasurePart, CleanupPart
<1> QED BY <1>2, <1>3 DEF ReportInv

(* What is reported happened: the audit log has the rows that the ends of   *)
(* the requests call for, the campaign decides for a release only after a   *)
(* campaign that passed, the measured deletion tells what it left in the    *)
(* database, the pages of the list show every user who stayed exactly once  *)
(* and in order, and a successful run of a cleanup job left nothing due,    *)
(* for any requests, users, rows and limits.                                *)
THEOREM WhatIsReportedHappened == AllSpec => []ReportsAreTrue
<1>1. AllInit => ReportInv
  BY ReportsStart
<1>2. ReportInv /\ [AllNext]_allVars => ReportInv'
  BY ReportsMove
<1>3. ReportInv => ReportsAreTrue
  <2> SUFFICES ASSUME ReportInv PROVE ReportsAreTrue
    OBVIOUS
  <2>1. which = "audit" => Trail!LogTellsWhatHappened
    BY AuditPromises DEF ReportInv, AuditPart
  <2>2. which = "campaign" => Release!DecisionEarned
    BY DEF ReportInv, ReleasePart, ReleaseInv
  <2>3. which = "deletion" => Measure!FixtureTold
    BY DEF ReportInv, MeasurePart, MeasureInv
  <2>4. which = "users" => List!ListsEveryoneOnce
    BY ListPromises DEF ReportInv, ListPart
  <2>5. which = "cleanup" => Cleanup!TypeOK /\ Cleanup!SuccessLeavesNothing /\ Cleanup!CountsAddUp
    BY CleanupPromises DEF ReportInv, CleanupPart
  <2> QED BY <2>1, <2>2, <2>3, <2>4, <2>5 DEF ReportsAreTrue
<1> QED BY <1>1, <1>2, <1>3, PTL DEF AllSpec

----------------------------------------------------------------------------
(* The counters in memory.                                                  *)

LEMMA MemoryConstants ==
  /\ MapLimit \in Nat \ {0} /\ MapWindow \in Nat \ {0} /\ MapSize \in Nat \ {0}
BY InstancesAssumption DEF Memory!MemoryStoreAssumption

(* The map by its places: what each holds, how many there are, and that no  *)
(* two hold the same key.                                                   *)
Apart(map) == \A i, j \in DOMAIN map : map[i].key = map[j].key => i = j

MapFine(map) == map \in Seq(Memory!EntryType) /\ Len(map) <= MapSize /\ Apart(map)

LEMMA MapBoundedByPlaces ==
  Memory!MapBounded <=> MapFine(memoryEntries) /\ memoryForgot \subseteq MapKeys
<1>1. ASSUME MapFine(memoryEntries), memoryForgot \subseteq MapKeys PROVE Memory!MapBounded
  BY <1>1 DEF Memory!MapBounded, MapFine, Apart, Memory!Places
<1>2. ASSUME Memory!MapBounded PROVE MapFine(memoryEntries) /\ memoryForgot \subseteq MapKeys
  <2>1. memoryEntries \in Seq(Memory!EntryType) /\ memoryForgot \subseteq MapKeys /\ Len(memoryEntries) <= MapSize
    BY <1>2 DEF Memory!MapBounded
  <2>2. ASSUME NEW i \in DOMAIN memoryEntries, NEW j \in DOMAIN memoryEntries,
               memoryEntries[i].key = memoryEntries[j].key
        PROVE  i = j
    <3>1. memoryEntries[i] \in Memory!EntryType
      BY <2>1
    <3>2. memoryEntries[i].key \in MapKeys
      BY <3>1 DEF Memory!EntryType
    <3>3. {i, j} \subseteq Memory!Places(memoryEntries[i].key)
      BY <2>2 DEF Memory!Places
    <3> QED BY <1>2, <3>2, <3>3 DEF Memory!MapBounded
  <2> QED BY <2>1, <2>2 DEF MapFine, Apart
<1> QED BY <1>1, <1>2

LEMMA FreshEntry ==
  ASSUME NEW k \in MapKeys
  PROVE  Memory!Fresh(k) \in Memory!EntryType /\ Memory!Fresh(k).key = k
BY MemoryConstants DEF Memory!Fresh, Memory!EntryType

(* A step that writes the places of the map and keeps their keys.           *)
LEMMA PlacesWritten ==
  ASSUME NEW map, MapFine(map), NEW after \in [DOMAIN map -> Memory!EntryType],
         \A i \in DOMAIN map : after[i].key = map[i].key
  PROVE  MapFine(after)
<1>1. map \in Seq(Memory!EntryType) /\ Len(map) \in Nat /\ DOMAIN map = 1 .. Len(map)
  BY DEF MapFine
<1>2. after \in Seq(Memory!EntryType) /\ Len(after) = Len(map)
  BY <1>1
<1>3. Apart(after)
  BY DEF MapFine, Apart
<1> QED BY <1>2, <1>3 DEF MapFine

LEMMA CountOnFine ==
  ASSUME MapFine(memoryEntries), memoryForgot \subseteq MapKeys, NEW k \in MapKeys, Memory!CountOn(k)
  PROVE  MapFine(memoryEntries') /\ memoryForgot' \subseteq memoryForgot
<1> DEFINE More(i) == [memoryEntries[i] EXCEPT !.passed = IF @ < MapLimit THEN @ + 1 ELSE @]
           F(i) == IF i \notin Memory!Places(k) THEN memoryEntries[i]
                   ELSE IF Memory!Ended(memoryEntries[i]) THEN Memory!Fresh(k) ELSE More(i)
<1>1. \A i \in DOMAIN memoryEntries : memoryEntries[i] \in Memory!EntryType
  BY DEF MapFine
<1>2. \A i \in DOMAIN memoryEntries : More(i) \in Memory!EntryType /\ More(i).key = memoryEntries[i].key
  BY <1>1, MemoryConstants DEF Memory!EntryType
<1>3. \A i \in DOMAIN memoryEntries : F(i) \in Memory!EntryType /\ F(i).key = memoryEntries[i].key
  BY <1>1, <1>2, FreshEntry DEF Memory!Places
<1>4. memoryEntries' = [i \in DOMAIN memoryEntries |-> F(i)] /\ memoryForgot' = memoryForgot \ {k}
  BY DEF Memory!CountOn
<1> HIDE DEF F
<1>5. MapFine(memoryEntries')
  BY <1>3, <1>4, PlacesWritten
<1> QED BY <1>4, <1>5

LEMMA MemoryTickFine ==
  ASSUME MapFine(memoryEntries), Memory!Tick
  PROVE  MapFine(memoryEntries') /\ memoryForgot' = memoryForgot
<1> DEFINE F(i) == [memoryEntries[i] EXCEPT !.left = IF @ = 0 THEN 0 ELSE @ - 1]
<1>1. \A i \in DOMAIN memoryEntries : memoryEntries[i] \in Memory!EntryType
  BY DEF MapFine
<1>2. \A i \in DOMAIN memoryEntries : F(i) \in Memory!EntryType /\ F(i).key = memoryEntries[i].key
  BY <1>1, MemoryConstants DEF Memory!EntryType
<1>3. memoryEntries' = [i \in DOMAIN memoryEntries |-> F(i)] /\ memoryForgot' = memoryForgot
  BY DEF Memory!Tick
<1> HIDE DEF F
<1>4. MapFine(memoryEntries')
  BY <1>2, <1>3, PlacesWritten
<1> QED BY <1>3, <1>4

(* The windows that have not ended, from the oldest: each once, at most as  *)
(* many as the map has, and all of the map only if none has ended.          *)
LEMMA LivingListed ==
  ASSUME MapFine(memoryEntries), NEW live \in [1 .. Memory!Cardinality(Memory!Living) -> Memory!Living],
         Memory!FromOldest(live)
  PROVE  /\ Len(live) \in Nat /\ DOMAIN live = 1 .. Len(live) /\ Len(live) <= Len(memoryEntries)
         /\ \A i \in DOMAIN live : live[i] \in DOMAIN memoryEntries
         /\ \A i, j \in DOMAIN live : live[i] = live[j] => i = j
         /\ Len(live) = Len(memoryEntries) => \A i \in DOMAIN memoryEntries : ~Memory!Ended(memoryEntries[i])
<1>1. Len(memoryEntries) \in Nat /\ DOMAIN memoryEntries = 1 .. Len(memoryEntries)
  BY DEF MapFine
<1>2. Memory!Living \subseteq 1 .. Len(memoryEntries)
  BY <1>1 DEF Memory!Living
<1>3. IsFiniteSet(1 .. Len(memoryEntries)) /\ Cardinality(1 .. Len(memoryEntries)) = Len(memoryEntries)
  BY <1>1, FS_Interval
<1>4. /\ IsFiniteSet(Memory!Living) /\ Cardinality(Memory!Living) <= Len(memoryEntries)
      /\ Cardinality(Memory!Living) = Len(memoryEntries) => Memory!Living = 1 .. Len(memoryEntries)
  <2> DEFINE all == 1 .. Len(memoryEntries)
  <2>1. IsFiniteSet(all) /\ Cardinality(all) = Len(memoryEntries) /\ Memory!Living \in SUBSET all
    BY <1>2, <1>3
  <2> HIDE DEF all
  <2>2. /\ IsFiniteSet(Memory!Living) /\ Cardinality(Memory!Living) <= Cardinality(all)
        /\ Cardinality(all) = Cardinality(Memory!Living) => all = Memory!Living
    BY <2>1, FS_Subset
  <2> QED BY <2>1, <2>2 DEF all
<1>5. Cardinality(Memory!Living) \in Nat
  BY <1>4, FS_CardinalityType
<1>6. Memory!Cardinality(Memory!Living) = Cardinality(Memory!Living)
  BY DEF Memory!Cardinality, Cardinality
<1>7. Len(live) = Cardinality(Memory!Living) /\ DOMAIN live = 1 .. Len(live)
  BY <1>5, <1>6
<1>8. \A i \in DOMAIN live : live[i] \in DOMAIN memoryEntries
  BY <1>1, <1>2
<1>9. \A i, j \in DOMAIN live : live[i] = live[j] => i = j
  <2> SUFFICES ASSUME NEW i \in DOMAIN live, NEW j \in DOMAIN live, live[i] = live[j], i # j PROVE FALSE
    OBVIOUS
  <2>1. i \in Nat /\ j \in Nat /\ live[i] \in Nat
    BY <1>1, <1>5, <1>7, <1>8
  <2>2. (i < j => live[i] < live[j]) /\ (j < i => live[j] < live[i])
    BY DEF Memory!FromOldest
  <2> QED BY <2>1, <2>2
<1>10. Len(live) = Len(memoryEntries) => \A i \in DOMAIN memoryEntries : ~Memory!Ended(memoryEntries[i])
  BY <1>1, <1>4, <1>7 DEF Memory!Living
<1> QED BY <1>4, <1>5, <1>7, <1>8, <1>9, <1>10

(* Any places of the map, each once, make a map of their own.               *)
Chosen(map, n, chosen, after) ==
  /\ n \in Nat /\ n <= MapSize /\ chosen \in [1 .. n -> DOMAIN map]
  /\ \A i, j \in 1 .. n : chosen[i] = chosen[j] => i = j
  /\ after = [j \in 1 .. n |-> map[chosen[j]]]

LEMMA PlacesChosen ==
  ASSUME NEW map, NEW n, NEW chosen, NEW after, MapFine(map), Chosen(map, n, chosen, after)
  PROVE  MapFine(after) /\ Len(after) = n /\ Memory!KeysOf(after) \subseteq Memory!KeysOf(map)
<1>1. map \in Seq(Memory!EntryType) /\ Len(map) \in Nat /\ DOMAIN map = 1 .. Len(map)
  BY DEF MapFine
<1>0. /\ n \in Nat /\ n <= MapSize /\ chosen \in [1 .. n -> DOMAIN map]
      /\ \A a, b \in 1 .. n : chosen[a] = chosen[b] => a = b
      /\ after = [c \in 1 .. n |-> map[chosen[c]]]
  BY DEF Chosen
<1>2. \A j \in 1 .. n : map[chosen[j]] \in Memory!EntryType
  BY <1>0, <1>1
<1>3. after \in Seq(Memory!EntryType) /\ Len(after) = n
  BY <1>0, <1>2
<1>4. Apart(after)
  BY <1>0 DEF MapFine, Apart
<1>5. Memory!KeysOf(after) \subseteq Memory!KeysOf(map)
  BY <1>0 DEF Memory!KeysOf
<1> QED BY <1>0, <1>3, <1>4, <1>5 DEF MapFine

(* A new key at the end of a map that has room for it.                      *)
LEMMA KeyAdded ==
  ASSUME NEW map, MapFine(map), Len(map) < MapSize, NEW k \in MapKeys, k \notin Memory!KeysOf(map)
  PROVE  MapFine(Append(map, Memory!Fresh(k)))
<1> DEFINE after == Append(map, Memory!Fresh(k))
<1>1. map \in Seq(Memory!EntryType) /\ Len(map) \in Nat /\ DOMAIN map = 1 .. Len(map)
  BY DEF MapFine
<1>2. after \in Seq(Memory!EntryType) /\ Len(after) = Len(map) + 1
  BY <1>1, FreshEntry
<1>3. \A i \in 1 .. Len(map) : after[i] = map[i] /\ after[i].key # k
  BY <1>1 DEF Memory!KeysOf
<1>4. after[Len(map) + 1].key = k /\ DOMAIN after = 1 .. Len(map) + 1
  BY <1>1, FreshEntry
<1> HIDE DEF after
<1>5. Apart(after)
  <2> SUFFICES ASSUME NEW i \in 1 .. Len(map) + 1, NEW j \in 1 .. Len(map) + 1, after[i].key = after[j].key
               PROVE  i = j
    BY <1>4 DEF Apart
  <2>1. CASE i \in 1 .. Len(map) /\ j \in 1 .. Len(map)
    BY <1>1, <1>3, <2>1 DEF MapFine, Apart
  <2>2. CASE i = Len(map) + 1 \/ j = Len(map) + 1
    <3>1. i \notin 1 .. Len(map) => i = Len(map) + 1
      BY <1>1
    <3>2. j \notin 1 .. Len(map) => j = Len(map) + 1
      BY <1>1
    <3> QED BY <1>3, <1>4, <2>2, <3>1, <3>2
  <2> QED BY <1>1, <2>1, <2>2
<1>6. Len(after) <= MapSize
  BY <1>1, <1>2, MemoryConstants
<1>7. MapFine(after)
  BY <1>2, <1>5, <1>6 DEF MapFine
<1> QED BY <1>7 DEF after

(* Space for a new entry: a map with room, of keys the map had; a live      *)
(* window goes only if all of them are live and the map is full.            *)
LEMMA SpaceFine ==
  ASSUME MapFine(memoryEntries), NEW live \in [1 .. Memory!Cardinality(Memory!Living) -> Memory!Living],
         Memory!FromOldest(live)
  PROVE  /\ MapFine(Memory!Space(live)) /\ Len(Memory!Space(live)) < MapSize
         /\ Memory!KeysOf(Memory!Space(live)) \subseteq Memory!KeysOf(memoryEntries)
         /\ Memory!KeysOf(Memory!Kept(live)) \subseteq Memory!KeysOf(memoryEntries)
         /\ \/ Memory!KeysOf(Memory!Kept(live)) \subseteq Memory!KeysOf(Memory!Space(live))
            \/ /\ Len(memoryEntries) = MapSize
               /\ \A i \in DOMAIN memoryEntries : ~Memory!Ended(memoryEntries[i])
<1> DEFINE n == Len(live)
           kept == Memory!Kept(live)
<1>1. /\ n \in Nat /\ DOMAIN live = 1 .. n /\ n <= Len(memoryEntries)
      /\ \A i \in DOMAIN live : live[i] \in DOMAIN memoryEntries
      /\ \A i, j \in DOMAIN live : live[i] = live[j] => i = j
      /\ n = Len(memoryEntries) => \A i \in DOMAIN memoryEntries : ~Memory!Ended(memoryEntries[i])
  BY LivingListed
<1>2. Len(memoryEntries) \in Nat /\ Len(memoryEntries) <= MapSize
  BY DEF MapFine
<1>3. kept = [j \in 1 .. n |-> memoryEntries[live[j]]]
  BY <1>1 DEF Memory!Kept
<1>4. live \in [1 .. n -> DOMAIN memoryEntries] /\ n <= MapSize
  <2>1. live \in [DOMAIN live -> DOMAIN memoryEntries]
    BY <1>1
  <2> QED BY <1>1, <1>2, <2>1, MemoryConstants
<1>5. MapFine(kept) /\ Len(kept) = n /\ Memory!KeysOf(kept) \subseteq Memory!KeysOf(memoryEntries)
  <2>1. n \in Nat /\ \A i, j \in 1 .. n : live[i] = live[j] => i = j
    BY <1>1
  <2> HIDE DEF n, kept
  <2>2. Chosen(memoryEntries, n, live, kept)
    BY <1>3, <1>4, <2>1 DEF Chosen
  <2> QED BY <2>2, PlacesChosen
<1>6. CASE Len(memoryEntries) < MapSize
  <2>1. Memory!Space(live) = memoryEntries
    BY <1>6 DEF Memory!Space
  <2> QED BY <1>5, <1>6, <2>1
<1>7. CASE ~(Len(memoryEntries) < MapSize) /\ n < MapSize
  <2>1. Memory!Space(live) = kept
    BY <1>7 DEF Memory!Space
  <2> QED BY <1>5, <1>7, <2>1
<1>8. CASE ~(Len(memoryEntries) < MapSize) /\ ~(n < MapSize)
  <2>1. n = MapSize /\ Len(memoryEntries) = MapSize /\ n \in Nat \ {0}
    BY <1>1, <1>2, <1>8, MemoryConstants
  <2>2. Memory!Space(live) = SubSeq(kept, 2, n)
    <3>1. n - MapSize + 2 = 2
      BY <2>1
    <3> QED BY <1>8, <3>1 DEF Memory!Space
  <2> DEFINE later == [j \in 1 .. n - 1 |-> j + 1]
             after == [j \in 1 .. n - 1 |-> kept[later[j]]]
  <2>3. DOMAIN kept = 1 .. n
    BY <1>3
  <2>4. later \in [1 .. n - 1 -> DOMAIN kept] /\ n - 1 \in Nat /\ n - 1 <= MapSize
    BY <2>1, <2>3, MemoryConstants
  <2>5. \A i, j \in 1 .. n - 1 : later[i] = later[j] => i = j
    BY <2>1
  <2>6. SubSeq(kept, 2, n) = after
    <3>1. kept \in Seq(Memory!EntryType)
      BY <1>5 DEF MapFine
    <3>2. SubSeq(kept, 2, n) = [j \in 1 .. 1 + n - 2 |-> kept[2 + j - 1]]
      BY <1>1, <3>1
    <3>3. 1 + n - 2 = n - 1 /\ \A j \in 1 .. n - 1 : 2 + j - 1 = j + 1
      BY <2>1
    <3>4. after = [j \in 1 .. n - 1 |-> kept[j + 1]]
      <4> HIDE DEF n, kept
      <4> QED OBVIOUS
    <3> HIDE DEF n, kept, after, later
    <3>5. [j \in 1 .. n - 1 |-> kept[2 + j - 1]] = [j \in 1 .. n - 1 |-> kept[j + 1]]
      BY <3>3
    <3> QED BY <3>2, <3>3, <3>4, <3>5
  <2>7. MapFine(after) /\ Len(after) = n - 1 /\ Memory!KeysOf(after) \subseteq Memory!KeysOf(kept)
    <3>1. after = [j \in 1 .. n - 1 |-> kept[later[j]]]
      OBVIOUS
    <3> HIDE DEF n, kept, later, after
    <3>2. Chosen(kept, n - 1, later, after)
      BY <2>4, <2>5, <3>1 DEF Chosen
    <3> QED BY <1>5, <3>2, PlacesChosen
  <2>8. Memory!KeysOf(kept) \subseteq Memory!KeysOf(memoryEntries)
    BY <1>5
  <2>9. n - 1 < MapSize
    BY <2>1, MemoryConstants
  <2>10. \A i \in DOMAIN memoryEntries : ~Memory!Ended(memoryEntries[i])
    BY <1>1, <2>1
  <2> HIDE DEF n, after
  <2> QED BY <2>1, <2>2, <2>6, <2>7, <2>8, <2>9, <2>10
<1> HIDE DEF n, kept
<1> QED BY <1>6, <1>7, <1>8

LEMMA EnterFine ==
  ASSUME MapFine(memoryEntries), memoryForgot \subseteq MapKeys, NEW k \in MapKeys, Memory!Enter(k)
  PROVE  /\ MapFine(memoryEntries') /\ memoryForgot' \subseteq MapKeys
         /\ memoryForgot' \subseteq memoryForgot
            \/ /\ Len(memoryEntries) = MapSize
               /\ \A i \in DOMAIN memoryEntries : ~Memory!Ended(memoryEntries[i])
<1>1. PICK live \in [1 .. Memory!Cardinality(Memory!Living) -> Memory!Living] :
        /\ Memory!FromOldest(live)
        /\ memoryEntries' = Append(Memory!Space(live), Memory!Fresh(k))
        /\ memoryForgot' = (memoryForgot \ {k})
                             \cup (Memory!KeysOf(Memory!Kept(live)) \ Memory!KeysOf(Memory!Space(live)))
  BY DEF Memory!Enter
<1>2. k \notin Memory!KeysOf(memoryEntries)
  BY DEF Memory!Enter, Memory!KeysOf, Memory!Places
<1>3. Memory!KeysOf(memoryEntries) \subseteq MapKeys
  <2>1. \A i \in DOMAIN memoryEntries : memoryEntries[i] \in Memory!EntryType
    BY DEF MapFine
  <2> QED BY <2>1 DEF Memory!KeysOf, Memory!EntryType
<1>4. /\ MapFine(Memory!Space(live)) /\ Len(Memory!Space(live)) < MapSize
      /\ Memory!KeysOf(Memory!Space(live)) \subseteq Memory!KeysOf(memoryEntries)
      /\ Memory!KeysOf(Memory!Kept(live)) \subseteq Memory!KeysOf(memoryEntries)
      /\ \/ Memory!KeysOf(Memory!Kept(live)) \subseteq Memory!KeysOf(Memory!Space(live))
         \/ /\ Len(memoryEntries) = MapSize
            /\ \A i \in DOMAIN memoryEntries : ~Memory!Ended(memoryEntries[i])
  BY <1>1, SpaceFine
<1>5. MapFine(memoryEntries')
  BY <1>1, <1>2, <1>4, KeyAdded
<1> QED BY <1>1, <1>3, <1>4, <1>5

LEMMA MemoryStarts ==
  ASSUME Memory!Init
  PROVE  Memory!MapBounded
<1>1. MapFine(<<>>)
  BY MemoryConstants DEF MapFine, Apart
<1> QED BY <1>1, MapBoundedByPlaces DEF Memory!Init

LEMMA MemoryMoves ==
  ASSUME Memory!MapBounded, [Memory!Next]_(Memory!vars)
  PROVE  /\ Memory!MapBounded'
         /\ memoryForgot' \ memoryForgot # {}
              => /\ Len(memoryEntries) = MapSize
                 /\ \A i \in DOMAIN memoryEntries : ~Memory!Ended(memoryEntries[i])
<1>1. MapFine(memoryEntries) /\ memoryForgot \subseteq MapKeys
  BY MapBoundedByPlaces
<1>2. /\ MapFine(memoryEntries') /\ memoryForgot' \subseteq MapKeys
      /\ memoryForgot' \subseteq memoryForgot
         \/ /\ Len(memoryEntries) = MapSize
            /\ \A i \in DOMAIN memoryEntries : ~Memory!Ended(memoryEntries[i])
  <2>1. CASE UNCHANGED Memory!vars
    BY <1>1, <2>1 DEF Memory!vars, MapFine, Apart
  <2>2. ASSUME NEW k \in MapKeys, Memory!Consume(k)
        PROVE  /\ MapFine(memoryEntries') /\ memoryForgot' \subseteq MapKeys
               /\ memoryForgot' \subseteq memoryForgot
                  \/ /\ Len(memoryEntries) = MapSize
                     /\ \A i \in DOMAIN memoryEntries : ~Memory!Ended(memoryEntries[i])
    BY <1>1, <2>2, CountOnFine, EnterFine DEF Memory!Consume
  <2>3. CASE Memory!Tick
    BY <1>1, <2>3, MemoryTickFine
  <2> QED BY <2>1, <2>2, <2>3 DEF Memory!Next
<1>3. Memory!MapBounded'
  <2>1. (Memory!MapBounded <=> MapFine(memoryEntries) /\ memoryForgot \subseteq MapKeys)'
    BY MapBoundedByPlaces, PTL
  <2> QED BY <1>2, <2>1
<1> QED BY <1>2, <1>3

(* A counter kept in memory starts over before its window has ended only    *)
(* while the map is full of windows that have not ended, and the map stays  *)
(* within its size and has each key once, for any keys, limit, window and   *)
(* size.                                                                    *)
THEOREM CountersKept == AllSpec => ForgetsOnlyWhenFull
<1> DEFINE NoneLost == memoryForgot' \ memoryForgot # {}
                         => /\ Len(memoryEntries) = MapSize
                            /\ \A i \in DOMAIN memoryEntries : ~Memory!Ended(memoryEntries[i])
<1>1. AllInit => Memory!MapBounded
  BY ComponentStarts, MemoryStarts
<1>2. Memory!MapBounded /\ [AllNext]_allVars => Memory!MapBounded' /\ [NoneLost]_(Memory!vars)
  <2> SUFFICES ASSUME Memory!MapBounded, [AllNext]_allVars PROVE Memory!MapBounded' /\ NoneLost
    OBVIOUS
  <2> QED BY ComponentSteps, MemoryMoves
<1> QED BY <1>1, <1>2, PTL DEF AllSpec, ForgetsOnlyWhenFull, Memory!ForgetsOnlyWhenFull

----------------------------------------------------------------------------
(* The rehearsals: a row that a command has deleted and not committed is    *)
(* still an exact fixture to everybody else, no two commands have deleted   *)
(* the same row, and a preparation about to commit has the table to itself. *)

RehearsalSteps == {"idle", "find", "delete", "create", "commit", "done"}

RehearsalWork ==
  [cmd : {None, "prepare", "remove"}, at : RehearsalSteps, found : SUBSET Names,
   deleted : SUBSET Names, result : {None, "refused", "done"}]

RehearsalType ==
  /\ rehearsalTable \in [Names -> Rehearsal!FixtureRows \cup {None}]
  /\ rehearsalWork \in [Calls -> RehearsalWork]

DeletedBy(w) == rehearsalWork[w].deleted

Deleting(w) ==
  /\ rehearsalWork[w].at # "idle" => rehearsalWork[w].cmd \in {"prepare", "remove"}
  /\ rehearsalWork[w].at \notin {"idle", "done"} => rehearsalWork[w].result = None
  /\ rehearsalWork[w].at = "create" => rehearsalWork[w].cmd = "prepare"
  /\ rehearsalWork[w].at \notin {"create", "commit"} => DeletedBy(w) = {}
  /\ \A n \in DeletedBy(w) : rehearsalTable[n] = "exact"
  /\ \A v \in Calls \ {w} : DeletedBy(v) \cap DeletedBy(w) = {}

Removing(w) ==
  rehearsalWork[w].at = "commit" /\ rehearsalWork[w].cmd = "remove" =>
    /\ Cardinality(DeletedBy(w)) = Cardinality(rehearsalWork[w].found)
    /\ \A n \in rehearsalWork[w].found \ DeletedBy(w) : rehearsalTable[n] # "exact"

Preparing(w) ==
  rehearsalWork[w].at = "commit" /\ rehearsalWork[w].cmd = "prepare" =>
    /\ \A v \in Calls \ {w} : DeletedBy(v) = {} \/ (DeletedBy(w) = {} /\ DeletedBy(v) = Names)
    /\ DeletedBy(w) = {} => Rehearsal!Held = {} \/ Rehearsal!Exact = Names
    /\ \A n \in Names : rehearsalTable[n] \in {None, "exact"}

RehearsalInv == RehearsalType /\ \A w \in Calls : Deleting(w) /\ Removing(w) /\ Preparing(w)

LEMMA RehearsalConstants ==
  /\ IsFiniteSet(Names) /\ None \notin Calls
  /\ None # "exact" /\ None # "changed" /\ None # "foreign" /\ None # "done"
BY InstancesAssumption DEF Rehearsal!FixturesAssumption, Rehearsal!FixtureRows, Rehearsal!IsFiniteSet, IsFiniteSet

LEMMA RehearsalIdle ==
  /\ Rehearsal!Idle \in RehearsalWork /\ Rehearsal!Idle.at = "idle" /\ Rehearsal!Idle.deleted = {}
  /\ Rehearsal!Idle.cmd = None
BY DEF Rehearsal!Idle, RehearsalWork, RehearsalSteps

LEMMA RehearsalStarts ==
  ASSUME AllInit
  PROVE  RehearsalInv
<1>1. /\ rehearsalTable \in [Names -> Rehearsal!FixtureRows \cup {None}]
      /\ rehearsalWork = [w \in Calls |-> Rehearsal!Idle]
  BY DEF AllInit, Rehearsal!Init, FixturesRests
<1>2. RehearsalType /\ \A w \in Calls : rehearsalWork[w] = Rehearsal!Idle
  BY <1>1, RehearsalIdle DEF RehearsalType
<1> QED BY <1>2, RehearsalIdle DEF RehearsalInv, Deleting, Removing, Preparing, DeletedBy

(* A worker that has deleted nothing and is not about to commit.            *)
LEMMA WorkerKeeps ==
  ASSUME RehearsalInv, NEW w \in Calls, NEW r \in RehearsalWork, rehearsalTable' = rehearsalTable,
         rehearsalWork' = [rehearsalWork EXCEPT ![w] = r], r.at \notin {"create", "commit"}, r.deleted = {},
         r.at # "idle" => r.cmd \in {"prepare", "remove"}, r.at \notin {"idle", "done"} => r.result = None
  PROVE  RehearsalInv'
<1>1. RehearsalType'
  BY DEF RehearsalInv, RehearsalType
<1>2. rehearsalWork'[w] = r /\ \A v \in Calls \ {w} : rehearsalWork'[v] = rehearsalWork[v]
  BY DEF RehearsalInv, RehearsalType
<1>3. \A v \in Calls : Deleting(v)'
  BY <1>2 DEF RehearsalInv, Deleting, DeletedBy
<1>4. \A v \in Calls : Removing(v)'
  BY <1>2 DEF RehearsalInv, Removing, DeletedBy
<1>5. Rehearsal!Held' = Rehearsal!Held /\ Rehearsal!Exact' = Rehearsal!Exact
  BY DEF Rehearsal!Held, Rehearsal!Exact
<1>6. \A v \in Calls : Preparing(v)'
  BY <1>2, <1>5 DEF RehearsalInv, Preparing, DeletedBy
<1> QED BY <1>1, <1>3, <1>4, <1>6 DEF RehearsalInv

LEMMA RefuseKeeps ==
  ASSUME RehearsalInv, NEW w \in Calls, rehearsalTable' = rehearsalTable, Rehearsal!Refuse(w),
         rehearsalWork[w].at # "idle"
  PROVE  RehearsalInv'
<1> DEFINE r == [Rehearsal!Idle EXCEPT !.cmd = rehearsalWork[w].cmd, !.at = "done", !.result = "refused"]
<1>1. rehearsalWork[w].cmd \in {"prepare", "remove"}
  BY DEF RehearsalInv, Deleting
<1>2. r \in RehearsalWork /\ r.at = "done" /\ r.deleted = {} /\ r.cmd = rehearsalWork[w].cmd
  BY <1>1 DEF RehearsalWork, RehearsalSteps, Rehearsal!Idle
<1>3. rehearsalWork' = [rehearsalWork EXCEPT ![w] = r]
  BY DEF Rehearsal!Refuse
<1> HIDE DEF r
<1> QED BY <1>1, <1>2, <1>3, WorkerKeeps

LEMMA BeginKeeps ==
  ASSUME RehearsalInv, NEW w \in Calls, NEW cmd \in {"prepare", "remove"}, Rehearsal!Begin(w, cmd)
  PROVE  RehearsalInv'
<1> DEFINE r == [Rehearsal!Idle EXCEPT !.cmd = cmd, !.at = "find"]
<1>1. /\ r \in RehearsalWork /\ r.at = "find" /\ r.deleted = {} /\ r.cmd = cmd /\ r.result = None
  BY DEF RehearsalWork, RehearsalSteps, Rehearsal!Idle
<1>2. rehearsalWork' = [rehearsalWork EXCEPT ![w] = r] /\ rehearsalTable' = rehearsalTable
  BY DEF Rehearsal!Begin
<1> HIDE DEF r
<1> QED BY <1>1, <1>2, WorkerKeeps

LEMMA AgainKeeps ==
  ASSUME RehearsalInv, NEW w \in Calls, Rehearsal!Again(w)
  PROVE  RehearsalInv'
<1>1. rehearsalWork' = [rehearsalWork EXCEPT ![w] = Rehearsal!Idle] /\ rehearsalTable' = rehearsalTable
  BY DEF Rehearsal!Again
<1> QED BY <1>1, RehearsalIdle, WorkerKeeps

(* A worker's row with another step, and what it found or deleted.          *)
AtStep(r, at) == [r EXCEPT !.at = at]
FoundRow(r, found) == [r EXCEPT !.found = found, !.at = "delete"]
DeletedRow(r, deleted, at) == [r EXCEPT !.deleted = deleted, !.at = at]

LEMMA WorkRows ==
  ASSUME NEW r \in RehearsalWork, NEW at \in RehearsalSteps, NEW S \in SUBSET Names
  PROVE  /\ AtStep(r, at) \in RehearsalWork /\ FoundRow(r, S) \in RehearsalWork
         /\ DeletedRow(r, S, at) \in RehearsalWork
         /\ AtStep(r, at).at = at /\ FoundRow(r, S).at = "delete" /\ DeletedRow(r, S, at).at = at
         /\ AtStep(r, at).deleted = r.deleted /\ FoundRow(r, S).deleted = r.deleted
         /\ DeletedRow(r, S, at).deleted = S
         /\ AtStep(r, at).found = r.found /\ FoundRow(r, S).found = S /\ DeletedRow(r, S, at).found = r.found
         /\ AtStep(r, at).cmd = r.cmd /\ FoundRow(r, S).cmd = r.cmd /\ DeletedRow(r, S, at).cmd = r.cmd
         /\ AtStep(r, at).result = r.result /\ FoundRow(r, S).result = r.result
         /\ DeletedRow(r, S, at).result = r.result
BY DEF RehearsalWork, RehearsalSteps, AtStep, FoundRow, DeletedRow

LEMMA FindKeeps ==
  ASSUME RehearsalInv, NEW w \in Calls, Rehearsal!Find(w)
  PROVE  RehearsalInv'
<1>1. rehearsalTable' = rehearsalTable /\ rehearsalWork[w].at = "find"
  BY DEF Rehearsal!Find
<1>2. CASE Rehearsal!Refuse(w)
  BY <1>1, <1>2, RefuseKeeps
<1>3. CASE rehearsalWork' = [rehearsalWork EXCEPT ![w].found = Rehearsal!Held, ![w].at = "delete"]
  <2> DEFINE r == FoundRow(rehearsalWork[w], Rehearsal!Held)
  <2>1. rehearsalWork[w] \in RehearsalWork /\ Rehearsal!Held \in SUBSET Names
    BY DEF RehearsalInv, RehearsalType, Rehearsal!Held
  <2>2. /\ r \in RehearsalWork /\ r.at = "delete" /\ r.deleted = DeletedBy(w)
        /\ r.cmd = rehearsalWork[w].cmd /\ r.result = rehearsalWork[w].result
    BY <2>1, WorkRows DEF DeletedBy, RehearsalSteps
  <2>3. rehearsalWork' = [rehearsalWork EXCEPT ![w] = r]
    BY <1>3 DEF RehearsalInv, RehearsalType, FoundRow
  <2>4. DeletedBy(w) = {} /\ rehearsalWork[w].cmd \in {"prepare", "remove"} /\ rehearsalWork[w].result = None
    BY <1>1 DEF RehearsalInv, Deleting
  <2> HIDE DEF r
  <2> QED BY <1>1, <2>2, <2>3, <2>4, WorkerKeeps
<1> QED BY <1>2, <1>3 DEF Rehearsal!Find

(* Only a worker that nobody keeps waiting deletes: the others then have     *)
(* nothing deleted, or nothing is left to delete.                           *)
LEMMA DeletesAlone ==
  ASSUME RehearsalInv, NEW w \in Calls, \A n \in Rehearsal!Exact : ~Rehearsal!Blocked(w, n)
  PROVE  \A v \in Calls \ {w} : DeletedBy(v) = {}
<1> SUFFICES ASSUME NEW v \in Calls \ {w}, NEW n \in DeletedBy(v) PROVE FALSE
  OBVIOUS
<1>1. DeletedBy(v) \subseteq Names
  BY DEF RehearsalInv, RehearsalType, RehearsalWork, DeletedBy
<1>2. n \in Rehearsal!Exact
  BY <1>1 DEF RehearsalInv, Deleting, Rehearsal!Exact
<1> QED BY <1>2 DEF Rehearsal!Blocked, DeletedBy

LEMMA DeleteKeeps ==
  ASSUME RehearsalInv, NEW w \in Calls, Rehearsal!Delete(w)
  PROVE  RehearsalInv'
<1>1. /\ rehearsalTable' = rehearsalTable /\ rehearsalWork[w].at = "delete"
      /\ \A n \in Rehearsal!Exact : ~Rehearsal!Blocked(w, n)
  BY DEF Rehearsal!Delete
<1>2. CASE Rehearsal!Refuse(w)
  BY <1>1, <1>2, RefuseKeeps
<1>3. CASE /\ Rehearsal!SameNumber(w, Rehearsal!Exact)
           /\ rehearsalWork' =
                [rehearsalWork EXCEPT ![w].deleted = Rehearsal!Exact,
                   ![w].at = IF rehearsalWork[w].cmd = "prepare" THEN "create" ELSE "commit"]
  <2> DEFINE at == IF rehearsalWork[w].cmd = "prepare" THEN "create" ELSE "commit"
             r == DeletedRow(rehearsalWork[w], Rehearsal!Exact, at)
  <2>1. rehearsalWork[w] \in RehearsalWork /\ Rehearsal!Exact \in SUBSET Names /\ at \in RehearsalSteps
    BY DEF RehearsalInv, RehearsalType, Rehearsal!Exact, RehearsalSteps
  <2>2. /\ r \in RehearsalWork /\ r.at = at /\ r.deleted = Rehearsal!Exact
        /\ r.cmd = rehearsalWork[w].cmd /\ r.result = rehearsalWork[w].result
        /\ r.found = rehearsalWork[w].found
    BY <2>1, WorkRows
  <2>3. rehearsalWork' = [rehearsalWork EXCEPT ![w] = r]
    BY <1>3 DEF RehearsalInv, RehearsalType, DeletedRow
  <2>4. DeletedBy(w) = {} /\ r.cmd \in {"prepare", "remove"} /\ r.result = None
    BY <1>1, <2>2 DEF RehearsalInv, Deleting
  <2>5. \A v \in Calls \ {w} : DeletedBy(v) = {}
    BY <1>1, DeletesAlone
  <2>6. Cardinality(Rehearsal!Exact) = Cardinality(r.found)
    <3>1. Rehearsal!Cardinality(Rehearsal!Exact) = Rehearsal!Cardinality(r.found)
      BY <1>3, <2>2 DEF Rehearsal!SameNumber
    <3> QED BY <3>1 DEF Rehearsal!Cardinality, Cardinality
  <2>7. r.cmd = "prepare" <=> r.at = "create"
    BY <2>2
  <2>8. r.at \in {"create", "commit"}
    BY <2>2
  <2> HIDE DEF r, at
  <2>9. rehearsalWork'[w] = r /\ \A v \in Calls \ {w} : rehearsalWork'[v] = rehearsalWork[v]
    BY <2>3 DEF RehearsalInv, RehearsalType
  <2>10. RehearsalType'
    BY <1>1, <2>2, <2>3 DEF RehearsalInv, RehearsalType
  <2>11. Rehearsal!Held' = Rehearsal!Held /\ Rehearsal!Exact' = Rehearsal!Exact
    BY <1>1 DEF Rehearsal!Held, Rehearsal!Exact
  <2>12. \A v \in Calls : Deleting(v)'
    <3>1. Deleting(w)'
      BY <1>1, <2>2, <2>4, <2>5, <2>7, <2>8, <2>9 DEF Deleting, DeletedBy, Rehearsal!Exact
    <3>2. ASSUME NEW v \in Calls \ {w} PROVE Deleting(v)'
      BY <1>1, <2>5, <2>9 DEF RehearsalInv, Deleting, DeletedBy
    <3> QED BY <3>1, <3>2
  <2>13. \A v \in Calls : Removing(v)'
    <3>0. r.found \subseteq Names
      BY <2>2 DEF RehearsalWork
    <3>1. Removing(w)'
      BY <1>1, <2>2, <2>6, <2>9, <3>0 DEF Removing, DeletedBy, Rehearsal!Exact
    <3>2. ASSUME NEW v \in Calls \ {w} PROVE Removing(v)'
      BY <1>1, <2>9 DEF RehearsalInv, Removing, DeletedBy
    <3> QED BY <3>1, <3>2
  <2>14. \A v \in Calls : Preparing(v)'
    <3>1. Preparing(w)'
      BY <2>7, <2>9 DEF Preparing
    <3>2. ASSUME NEW v \in Calls \ {w}, rehearsalWork[v].at = "commit", rehearsalWork[v].cmd = "prepare"
          PROVE  Preparing(v)'
      <4>1. /\ \A x \in Calls \ {v} : DeletedBy(x) = {} \/ (DeletedBy(v) = {} /\ DeletedBy(x) = Names)
            /\ DeletedBy(v) = {} => Rehearsal!Held = {} \/ Rehearsal!Exact = Names
            /\ \A n \in Names : rehearsalTable[n] \in {None, "exact"}
        BY <3>2 DEF RehearsalInv, Preparing
      <4>2. DeletedBy(v) = {}
        BY <2>5
      <4>3. Rehearsal!Exact \in {{}, Names}
        BY <4>1, <4>2, RehearsalConstants DEF Rehearsal!Held, Rehearsal!Exact
      <4>4. /\ DeletedBy(v)' = {} /\ DeletedBy(w)' \in {{}, Names}
            /\ \A x \in Calls \ {v, w} : DeletedBy(x)' = DeletedBy(x)
        BY <2>2, <2>9, <4>2, <4>3 DEF DeletedBy
      <4> QED BY <1>1, <2>11, <4>1, <4>2, <4>4 DEF Preparing
    <3>3. ASSUME NEW v \in Calls \ {w}, ~(rehearsalWork[v].at = "commit" /\ rehearsalWork[v].cmd = "prepare")
          PROVE  Preparing(v)'
      BY <2>9, <3>3 DEF Preparing
    <3> QED BY <3>1, <3>2, <3>3
  <2> QED BY <2>10, <2>12, <2>13, <2>14 DEF RehearsalInv
<1> QED BY <1>2, <1>3 DEF Rehearsal!Delete

LEMMA CreateKeeps ==
  ASSUME RehearsalInv, NEW w \in Calls, Rehearsal!Create(w)
  PROVE  RehearsalInv'
<1>1. /\ rehearsalTable' = rehearsalTable /\ rehearsalWork[w].at = "create"
      /\ \A n \in Names : ~Rehearsal!Blocked(w, n)
  BY DEF Rehearsal!Create
<1>2. CASE Rehearsal!Refuse(w)
  BY <1>1, <1>2, RefuseKeeps
<1>3. CASE Rehearsal!View(w) = {} /\ Rehearsal!Goto(w, "commit")
  <2> DEFINE r == AtStep(rehearsalWork[w], "commit")
  <2>1. rehearsalWork[w] \in RehearsalWork /\ DeletedBy(w) \subseteq Names
    BY DEF RehearsalInv, RehearsalType, RehearsalWork, DeletedBy
  <2>2. /\ r \in RehearsalWork /\ r.at = "commit" /\ r.deleted = DeletedBy(w)
        /\ r.cmd = rehearsalWork[w].cmd /\ r.result = rehearsalWork[w].result
    BY <2>1, WorkRows DEF DeletedBy, RehearsalSteps
  <2>3. rehearsalWork' = [rehearsalWork EXCEPT ![w] = r]
    BY <1>3 DEF RehearsalInv, RehearsalType, AtStep, Rehearsal!Goto
  <2>4. r.cmd = "prepare" /\ r.result = None /\ \A n \in DeletedBy(w) : rehearsalTable[n] = "exact"
    BY <1>1, <2>2 DEF RehearsalInv, Deleting
  <2>5. \A v \in Calls \ {w} : DeletedBy(v) = {}
    BY <1>1 DEF RehearsalInv, RehearsalType, RehearsalWork, Rehearsal!Blocked, DeletedBy
  <2> HIDE DEF r
  <2>6. rehearsalWork'[w] = r /\ \A v \in Calls \ {w} : rehearsalWork'[v] = rehearsalWork[v]
    BY <2>3 DEF RehearsalInv, RehearsalType
  <2>7. \A v \in Calls : DeletedBy(v)' = DeletedBy(v)
    BY <2>2, <2>6 DEF DeletedBy
  <2>8. RehearsalType'
    BY <1>1, <2>2, <2>3 DEF RehearsalInv, RehearsalType
  <2>9. Rehearsal!Held' = Rehearsal!Held /\ Rehearsal!Exact' = Rehearsal!Exact
    BY <1>1 DEF Rehearsal!Held, Rehearsal!Exact
  <2>10. \A v \in Calls : Deleting(v)'
    <3>1. Deleting(w)'
      BY <1>1, <2>2, <2>4, <2>5, <2>6, <2>7 DEF Deleting
    <3>2. ASSUME NEW v \in Calls \ {w} PROVE Deleting(v)'
      BY <1>1, <2>6, <2>7 DEF RehearsalInv, Deleting
    <3> QED BY <3>1, <3>2
  <2>11. \A v \in Calls : Removing(v)'
    BY <1>1, <2>4, <2>6, <2>7 DEF RehearsalInv, Removing
  <2>12. Preparing(w)'
    <3>1. DeletedBy(w) = {} => Rehearsal!Held = {}
      BY <1>3 DEF Rehearsal!View, DeletedBy
    <3>2. \A n \in Names : rehearsalTable[n] \in {None, "exact"}
      BY <1>3, <2>4 DEF Rehearsal!View, Rehearsal!Held, DeletedBy
    <3> QED BY <1>1, <2>5, <2>7, <2>9, <3>1, <3>2 DEF Preparing
  <2>13. \A v \in Calls \ {w} : Preparing(v)'
    BY <1>1, <2>6, <2>7, <2>9 DEF RehearsalInv, Preparing
  <2> QED BY <2>8, <2>10, <2>11, <2>12, <2>13 DEF RehearsalInv
<1> QED BY <1>2, <1>3 DEF Rehearsal!Create

(* What a commit writes: all fixtures, or nothing in place of what it has    *)
(* deleted.                                                                 *)
LEMMA CommitWrites ==
  ASSUME RehearsalInv, NEW w \in Calls, Rehearsal!Commit(w)
  PROVE  /\ rehearsalWork[w].at = "commit" /\ rehearsalWork[w].cmd \in {"prepare", "remove"}
         /\ RehearsalType' /\ DeletedBy(w)' = {}
         /\ rehearsalWork'[w].at = "done" /\ rehearsalWork'[w].cmd = rehearsalWork[w].cmd
         /\ \A v \in Calls \ {w} : rehearsalWork'[v] = rehearsalWork[v] /\ DeletedBy(v)' = DeletedBy(v)
         /\ rehearsalWork[w].cmd = "prepare" => \A n \in Names : rehearsalTable'[n] = "exact"
         /\ rehearsalWork[w].cmd = "remove" =>
              \A n \in Names : rehearsalTable'[n] = IF n \in DeletedBy(w) THEN None ELSE rehearsalTable[n]
<1> DEFINE r == [Rehearsal!Idle EXCEPT !.cmd = rehearsalWork[w].cmd, !.at = "done", !.result = "done"]
<1>1. rehearsalWork[w].at = "commit" /\ rehearsalWork[w].cmd \in {"prepare", "remove"}
  BY DEF Rehearsal!Commit, RehearsalInv, Deleting
<1>2. r \in RehearsalWork /\ r.at = "done" /\ r.deleted = {} /\ r.cmd = rehearsalWork[w].cmd
  BY <1>1 DEF RehearsalWork, RehearsalSteps, Rehearsal!Idle
<1>3. /\ rehearsalWork' = [rehearsalWork EXCEPT ![w] = r]
      /\ rehearsalTable' = [n \in Names |->
                              IF rehearsalWork[w].cmd = "prepare" THEN "exact"
                              ELSE IF n \in rehearsalWork[w].deleted THEN None ELSE rehearsalTable[n]]
  BY DEF Rehearsal!Commit
<1> HIDE DEF r
<1>4. rehearsalWork'[w] = r /\ \A v \in Calls \ {w} : rehearsalWork'[v] = rehearsalWork[v]
  BY <1>3 DEF RehearsalInv, RehearsalType
<1>5. RehearsalType'
  BY <1>2, <1>3 DEF RehearsalInv, RehearsalType, Rehearsal!FixtureRows
<1>6. DeletedBy(w)' = {} /\ \A v \in Calls \ {w} : DeletedBy(v)' = DeletedBy(v)
  BY <1>2, <1>4 DEF DeletedBy
<1>7. /\ rehearsalWork[w].cmd = "prepare" => \A n \in Names : rehearsalTable'[n] = "exact"
      /\ rehearsalWork[w].cmd = "remove" =>
           \A n \in Names : rehearsalTable'[n] = IF n \in DeletedBy(w) THEN None ELSE rehearsalTable[n]
  BY <1>3 DEF DeletedBy
<1> QED BY <1>1, <1>2, <1>4, <1>5, <1>6, <1>7

LEMMA CommitKeeps ==
  ASSUME RehearsalInv, NEW w \in Calls, Rehearsal!Commit(w)
  PROVE  RehearsalInv'
<1>1. /\ rehearsalWork[w].at = "commit" /\ rehearsalWork[w].cmd \in {"prepare", "remove"}
      /\ RehearsalType' /\ DeletedBy(w)' = {}
      /\ rehearsalWork'[w].at = "done" /\ rehearsalWork'[w].cmd = rehearsalWork[w].cmd
      /\ \A v \in Calls \ {w} : rehearsalWork'[v] = rehearsalWork[v] /\ DeletedBy(v)' = DeletedBy(v)
  BY CommitWrites
<1>2. \A v \in Calls : DeletedBy(v) \subseteq Names /\ rehearsalWork[v].found \subseteq Names
  BY DEF RehearsalInv, RehearsalType, RehearsalWork, DeletedBy
<1>3. /\ Deleting(w)' /\ Removing(w)' /\ Preparing(w)'
  BY <1>1 DEF Deleting, Removing, Preparing
<1>4. ASSUME NEW v \in Calls \ {w} PROVE Deleting(v)'
  <2>1. \A n \in DeletedBy(v) : rehearsalTable[n] = "exact" /\ n \notin DeletedBy(w) /\ n \in Names
    BY <1>2 DEF RehearsalInv, Deleting
  <2>2. \A n \in DeletedBy(v) : rehearsalTable'[n] = "exact"
    BY <1>1, <2>1, CommitWrites
  <2> QED BY <1>1, <2>2 DEF RehearsalInv, Deleting
<1>5. ASSUME NEW v \in Calls \ {w} PROVE Removing(v)'
  <2> SUFFICES ASSUME rehearsalWork[v].at = "commit", rehearsalWork[v].cmd = "remove"
               PROVE  /\ Cardinality(DeletedBy(v)) = Cardinality(rehearsalWork[v].found)
                      /\ \A n \in rehearsalWork[v].found \ DeletedBy(v) : rehearsalTable'[n] # "exact"
    BY <1>1 DEF Removing
  <2>1. /\ Cardinality(DeletedBy(v)) = Cardinality(rehearsalWork[v].found)
        /\ \A n \in rehearsalWork[v].found \ DeletedBy(v) : rehearsalTable[n] # "exact"
    BY DEF RehearsalInv, Removing
  <2>2. CASE rehearsalWork[w].cmd = "remove"
    BY <1>2, <2>1, <2>2, CommitWrites, RehearsalConstants
  <2>3. CASE rehearsalWork[w].cmd = "prepare"
    <3>1. DeletedBy(v) = {} \/ DeletedBy(v) = Names
      BY <1>1, <2>3 DEF RehearsalInv, Preparing
    <3>2. DeletedBy(v) = {} => rehearsalWork[v].found = {}
      <4>1. IsFiniteSet(rehearsalWork[v].found)
        BY <1>2, RehearsalConstants, FS_Subset
      <4> QED BY <2>1, <4>1, FS_EmptySet
    <3> QED BY <1>2, <2>1, <3>1, <3>2
  <2> QED BY <1>1, <2>2, <2>3
<1>6. ASSUME NEW v \in Calls \ {w} PROVE Preparing(v)'
  <2> SUFFICES ASSUME rehearsalWork[v].at = "commit", rehearsalWork[v].cmd = "prepare"
               PROVE  /\ \A x \in Calls \ {v} :
                           DeletedBy(x)' = {} \/ (DeletedBy(v)' = {} /\ DeletedBy(x)' = Names)
                      /\ DeletedBy(v) = {} => Rehearsal!Held' = {} \/ Rehearsal!Exact' = Names
                      /\ \A n \in Names : rehearsalTable'[n] \in {None, "exact"}
    BY <1>1 DEF Preparing
  <2>1. /\ \A x \in Calls \ {v} : DeletedBy(x) = {} \/ (DeletedBy(v) = {} /\ DeletedBy(x) = Names)
        /\ DeletedBy(v) = {} => Rehearsal!Held = {} \/ Rehearsal!Exact = Names
        /\ \A n \in Names : rehearsalTable[n] \in {None, "exact"}
    BY DEF RehearsalInv, Preparing
  <2>2. \A x \in Calls \ {v} : DeletedBy(x)' = {} \/ (DeletedBy(v)' = {} /\ DeletedBy(x)' = Names)
    BY <1>1, <2>1
  <2>3. CASE rehearsalWork[w].cmd = "prepare"
    BY <2>2, <2>3, CommitWrites DEF Rehearsal!Held, Rehearsal!Exact
  <2>4. CASE rehearsalWork[w].cmd = "remove" /\ DeletedBy(w) = {}
    <3>1. \A n \in Names : rehearsalTable'[n] = rehearsalTable[n]
      BY <2>4, CommitWrites
    <3> QED BY <2>1, <2>2, <3>1 DEF Rehearsal!Held, Rehearsal!Exact
  <2>5. CASE rehearsalWork[w].cmd = "remove" /\ DeletedBy(w) = Names
    <3>1. \A n \in Names : rehearsalTable'[n] = None
      BY <2>5, CommitWrites
    <3> QED BY <2>2, <3>1 DEF Rehearsal!Held
  <2> QED BY <1>1, <2>1, <2>3, <2>4, <2>5
<1> QED BY <1>1, <1>3, <1>4, <1>5, <1>6 DEF RehearsalInv

LEMMA MoveKeepsRehearsal ==
  ASSUME RehearsalInv, NEW n \in Names, Rehearsal!Move(n)
  PROVE  RehearsalInv' /\ rehearsalMoves' = rehearsalMoves + 1
<1>1. /\ rehearsalWork' = rehearsalWork /\ rehearsalMoves' = rehearsalMoves + 1
      /\ \A v \in Calls : n \notin DeletedBy(v)
      /\ \A v \in Calls : ~(rehearsalWork[v].cmd = "prepare" /\ rehearsalWork[v].at = "commit")
  BY RehearsalConstants DEF Rehearsal!Move, Rehearsal!Blocked, Rehearsal!Creating, DeletedBy
<1>2. PICK row \in {"changed", "foreign", None} : rehearsalTable' = [rehearsalTable EXCEPT ![n] = row]
  BY DEF Rehearsal!Move
<1>3. rehearsalTable'[n] # "exact" /\ \A m \in Names \ {n} : rehearsalTable'[m] = rehearsalTable[m]
  BY <1>2, RehearsalConstants DEF RehearsalInv, RehearsalType
<1>4. RehearsalType'
  BY <1>1, <1>2 DEF RehearsalInv, RehearsalType, Rehearsal!FixtureRows
<1>5. \A v \in Calls : DeletedBy(v)' = DeletedBy(v) /\ DeletedBy(v) \subseteq Names
                       /\ rehearsalWork[v].found \subseteq Names
  BY <1>1 DEF RehearsalInv, RehearsalType, RehearsalWork, DeletedBy
<1>6. ASSUME NEW v \in Calls PROVE Deleting(v)' /\ Removing(v)' /\ Preparing(v)'
  <2>1. \A m \in DeletedBy(v) : rehearsalTable'[m] = rehearsalTable[m]
    BY <1>1, <1>3, <1>5
  <2>2. Deleting(v)'
    BY <1>1, <1>5, <2>1 DEF RehearsalInv, Deleting
  <2>3. Removing(v)'
    BY <1>1, <1>3, <1>5 DEF RehearsalInv, Removing
  <2> QED BY <1>1, <2>2, <2>3 DEF Preparing
<1> QED BY <1>1, <1>4, <1>6 DEF RehearsalInv

ReplacedBy ==
  /\ \A n \in Names :
       rehearsalTable[n] \in {"changed", "foreign"} /\ rehearsalTable'[n] # rehearsalTable[n]
         => rehearsalMoves' = rehearsalMoves + 1
  /\ \A w \in Calls :
       rehearsalWork[w].at = "commit" /\ rehearsalWork'[w].result = "done" =>
         \/ rehearsalWork[w].cmd = "prepare" /\ \A n \in Names : rehearsalTable'[n] = "exact"
         \/ rehearsalWork[w].cmd = "remove" /\ \A n \in rehearsalWork[w].found : rehearsalTable'[n] # "exact"

(* A commit replaces the fixtures as a whole and nobody else's row.         *)
LEMMA CommitReplaces ==
  ASSUME RehearsalInv, NEW w \in Calls, Rehearsal!Commit(w)
  PROVE  ReplacedBy
<1>1. /\ rehearsalWork[w].at = "commit" /\ rehearsalWork[w].cmd \in {"prepare", "remove"}
      /\ \A v \in Calls \ {w} : rehearsalWork'[v] = rehearsalWork[v]
      /\ rehearsalWork[w].cmd = "prepare" => \A n \in Names : rehearsalTable'[n] = "exact"
      /\ rehearsalWork[w].cmd = "remove" =>
           \A n \in Names : rehearsalTable'[n] = IF n \in DeletedBy(w) THEN None ELSE rehearsalTable[n]
  BY CommitWrites
<1>2. \A v \in Calls \ {w} : rehearsalWork[v].at = "commit" => rehearsalWork'[v].result # "done"
  BY <1>1, RehearsalConstants DEF RehearsalInv, Deleting
<1>3. CASE rehearsalWork[w].cmd = "prepare"
  <2>1. \A n \in Names : rehearsalTable[n] \in {None, "exact"}
    BY <1>1, <1>3 DEF RehearsalInv, Preparing
  <2>2. \A n \in Names : rehearsalTable[n] \notin {"changed", "foreign"}
    BY <2>1, RehearsalConstants
  <2> QED BY <1>1, <1>2, <1>3, <2>2 DEF ReplacedBy
<1>4. CASE rehearsalWork[w].cmd = "remove"
  <2>1. \A n \in DeletedBy(w) : rehearsalTable[n] = "exact"
    BY DEF RehearsalInv, Deleting
  <2>2. \A n \in Names : rehearsalTable[n] \in {"changed", "foreign"} => rehearsalTable'[n] = rehearsalTable[n]
    BY <1>1, <1>4, <2>1
  <2>3. rehearsalWork[w].found \subseteq Names
    BY DEF RehearsalInv, RehearsalType, RehearsalWork
  <2>4. \A n \in rehearsalWork[w].found : rehearsalTable'[n] # "exact"
    BY <1>1, <1>4, <2>3, RehearsalConstants DEF RehearsalInv, Removing
  <2> QED BY <1>1, <1>2, <1>4, <2>2, <2>4 DEF ReplacedBy
<1> QED BY <1>1, <1>3, <1>4

(* A worker's step before its commit leaves the table and the others alone. *)
LEMMA WorkerReplacesNothing ==
  ASSUME RehearsalInv, NEW w \in Calls, rehearsalTable' = rehearsalTable, rehearsalWork[w].at # "commit",
         \A v \in Calls \ {w} : rehearsalWork'[v] = rehearsalWork[v]
  PROVE  ReplacedBy
<1>1. \A v \in Calls : rehearsalWork[v].at = "commit" => rehearsalWork'[v].result # "done"
  BY RehearsalConstants DEF RehearsalInv, Deleting
<1> QED BY <1>1 DEF ReplacedBy

LEMMA WorkerChanges ==
  ASSUME RehearsalInv, NEW w \in Calls, Rehearsal!Worker(w), ~Rehearsal!Commit(w)
  PROVE  /\ rehearsalTable' = rehearsalTable /\ rehearsalWork[w].at # "commit"
         /\ \A v \in Calls \ {w} : rehearsalWork'[v] = rehearsalWork[v]
<1>1. rehearsalTable' = rehearsalTable /\ rehearsalWork[w].at # "commit"
  BY DEF Rehearsal!Worker, Rehearsal!Begin, Rehearsal!Find, Rehearsal!Delete, Rehearsal!Create, Rehearsal!Again
<1>2. ASSUME NEW cmd \in {"prepare", "remove"}, Rehearsal!Begin(w, cmd)
      PROVE  \A v \in Calls \ {w} : rehearsalWork'[v] = rehearsalWork[v]
  BY <1>2 DEF RehearsalInv, RehearsalType, Rehearsal!Begin
<1>3. CASE Rehearsal!Find(w)
  BY <1>3 DEF RehearsalInv, RehearsalType, Rehearsal!Find, Rehearsal!Refuse
<1>4. CASE Rehearsal!Delete(w)
  BY <1>4 DEF RehearsalInv, RehearsalType, Rehearsal!Delete, Rehearsal!Refuse
<1>5. CASE Rehearsal!Create(w)
  BY <1>5 DEF RehearsalInv, RehearsalType, Rehearsal!Create, Rehearsal!Refuse, Rehearsal!Goto
<1>6. CASE Rehearsal!Again(w)
  BY <1>6 DEF RehearsalInv, RehearsalType, Rehearsal!Again
<1>7. \A v \in Calls \ {w} : rehearsalWork'[v] = rehearsalWork[v]
  BY <1>2, <1>3, <1>4, <1>5, <1>6 DEF Rehearsal!Worker
<1> QED BY <1>1, <1>7

LEMMA RehearsalMove ==
  ASSUME RehearsalInv, [Rehearsal!Next]_(Rehearsal!vars)
  PROVE  RehearsalInv' /\ (ReplacedBy \/ UNCHANGED Rehearsal!vars)
<1>1. CASE UNCHANGED Rehearsal!vars
  <2>1. RehearsalInv'
    BY <1>1 DEF Rehearsal!vars, RehearsalInv, RehearsalType, Deleting, Removing, Preparing, DeletedBy,
                Rehearsal!Held, Rehearsal!Exact
  <2> QED BY <1>1, <2>1
<1>2. ASSUME NEW w \in Calls, Rehearsal!Worker(w)
      PROVE  RehearsalInv' /\ ReplacedBy
  <2>1. CASE Rehearsal!Commit(w)
    BY <2>1, CommitKeeps, CommitReplaces
  <2>2. CASE ~Rehearsal!Commit(w)
    <3>1. ReplacedBy
      BY <1>2, <2>2, WorkerChanges, WorkerReplacesNothing
    <3>2. RehearsalInv'
      BY <1>2, <2>2, BeginKeeps, FindKeeps, DeleteKeeps, CreateKeeps, AgainKeeps DEF Rehearsal!Worker
    <3> QED BY <3>1, <3>2
  <2> QED BY <2>1, <2>2
<1>3. ASSUME NEW n \in Names, Rehearsal!Move(n)
      PROVE  RehearsalInv' /\ ReplacedBy
  <2>1. RehearsalInv' /\ rehearsalMoves' = rehearsalMoves + 1 /\ rehearsalWork' = rehearsalWork
    BY <1>3, MoveKeepsRehearsal DEF Rehearsal!Move
  <2>2. \A v \in Calls : rehearsalWork[v].at = "commit" => rehearsalWork'[v].result # "done"
    BY <2>1, RehearsalConstants DEF RehearsalInv, Deleting
  <2> QED BY <2>1, <2>2 DEF ReplacedBy
<1> QED BY <1>1, <1>2, <1>3 DEF Rehearsal!Next

----------------------------------------------------------------------------
(* The command that creates an administrator: until it has inserted a row   *)
(* it has made nothing, and then its row is the administrator.              *)

CommandSteps == {"parse", "validate", "config", "create", "disconnect", "exit"}

CommandRuns ==
  [at : CommandSteps, name : Names \cup {None}, code : {None, 0, 1, 2},
   message : {None, "arguments", "help", "input", "no database", "failed", "created", "duplicate",
              "created, do not repeat"},
   made : BOOLEAN, lost : BOOLEAN]

Registered == [by |-> "register", role |-> "USER", verified |-> FALSE, active |-> TRUE]

CommandType ==
  /\ commandUser \in [Names -> {Command!Admin(c) : c \in Calls} \cup {Registered, None}]
  /\ commandRun \in [Calls -> CommandRuns]

(* What holds of the run r of command c beside the rows in table.           *)
RunFine(c, r, table) ==
  /\ r.at \in {"parse", "validate", "config", "create"} => ~r.made /\ ~r.lost
  /\ r.at \in {"validate", "config", "create", "disconnect"} => r.name \in Names
  /\ r.at = "disconnect" =>
       /\ r.made <=> (r.code = 0 \/ r.lost)
       /\ r.code = 0 => r.message = "created"
       /\ r.made => table[r.name] = Command!Admin(c)

CommandInv == CommandType /\ \A c \in Calls : RunFine(c, commandRun[c], commandUser)

LEMMA CommandConstants ==
  /\ None \notin Names /\ "register" \notin Calls
  /\ \A c \in Calls : None # Command!Admin(c)
BY InstancesAssumption DEF Command!CreateAdminAssumption

LEMMA CommandStarts ==
  ASSUME Command!Init
  PROVE  CommandInv
<1>1. /\ Command!Fresh \in CommandRuns /\ Command!Fresh.at = "parse"
      /\ ~Command!Fresh.made /\ ~Command!Fresh.lost
  BY DEF Command!Fresh, CommandRuns, CommandSteps
<1>2. CommandType /\ \A c \in Calls : commandRun[c] = Command!Fresh
  BY <1>1 DEF Command!Init, CommandType
<1> QED BY <1>1, <1>2 DEF CommandInv, RunFine

(* One command moves on.                                                    *)
LEMMA RunKeeps ==
  ASSUME CommandInv, NEW c \in Calls, NEW r \in CommandRuns, commandUser' = commandUser,
         commandRun' = [commandRun EXCEPT ![c] = r], RunFine(c, r, commandUser)
  PROVE  CommandInv'
<1>1. CommandType'
  BY DEF CommandInv, CommandType
<1>2. commandRun'[c] = r /\ \A d \in Calls \ {c} : commandRun'[d] = commandRun[d]
  BY DEF CommandInv, CommandType
<1>3. \A d \in Calls : RunFine(d, commandRun'[d], commandUser')
  BY <1>2 DEF CommandInv
<1> QED BY <1>1, <1>3 DEF CommandInv

(* The rows a command's run goes through.                                   *)
WentTo(r, at) == [r EXCEPT !.at = at]
NamedRun(r, n) == [r EXCEPT !.at = "validate", !.name = n]
ExitedRun(r, code, message) == [r EXCEPT !.at = "exit", !.code = code, !.message = message]
RefusedRun(r, message) == [r EXCEPT !.at = "disconnect", !.code = 1, !.message = message]
MadeRun(r) == [r EXCEPT !.at = "disconnect", !.code = 0, !.message = "created", !.made = TRUE]
LostRun(r) ==
  [r EXCEPT !.at = "disconnect", !.code = 1, !.message = "failed", !.made = TRUE, !.lost = TRUE]

Messages == {"arguments", "help", "input", "no database", "failed", "created", "duplicate",
             "created, do not repeat"}

LEMMA WentRow ==
  ASSUME NEW r \in CommandRuns, NEW at \in CommandSteps
  PROVE  /\ WentTo(r, at) \in CommandRuns /\ WentTo(r, at).at = at /\ WentTo(r, at).name = r.name
         /\ WentTo(r, at).made = r.made /\ WentTo(r, at).lost = r.lost
         /\ WentTo(r, at).code = r.code /\ WentTo(r, at).message = r.message
BY DEF WentTo, CommandRuns, CommandSteps

LEMMA NamedRow ==
  ASSUME NEW r \in CommandRuns, NEW n \in Names
  PROVE  /\ NamedRun(r, n) \in CommandRuns /\ NamedRun(r, n).at = "validate" /\ NamedRun(r, n).name = n
         /\ NamedRun(r, n).made = r.made /\ NamedRun(r, n).lost = r.lost
BY DEF NamedRun, CommandRuns, CommandSteps

LEMMA ExitedRow ==
  ASSUME NEW r \in CommandRuns, NEW code \in {0, 1, 2} \cup {r.code}, NEW m \in Messages \cup {r.message}
  PROVE  /\ ExitedRun(r, code, m) \in CommandRuns /\ ExitedRun(r, code, m).at = "exit"
         /\ ExitedRun(r, code, m).code = code /\ ExitedRun(r, code, m).message = m
         /\ ExitedRun(r, code, m).made = r.made /\ ExitedRun(r, code, m).lost = r.lost
BY DEF ExitedRun, CommandRuns, CommandSteps, Messages

LEMMA TakenRow ==
  ASSUME NEW r \in CommandRuns, NEW m \in Messages
  PROVE  /\ RefusedRun(r, m) \in CommandRuns /\ RefusedRun(r, m).at = "disconnect"
         /\ RefusedRun(r, m).code = 1 /\ RefusedRun(r, m).message = m /\ RefusedRun(r, m).name = r.name
         /\ RefusedRun(r, m).made = r.made /\ RefusedRun(r, m).lost = r.lost
BY DEF RefusedRun, CommandRuns, CommandSteps, Messages

LEMMA MadeRow ==
  ASSUME NEW r \in CommandRuns
  PROVE  /\ MadeRun(r) \in CommandRuns /\ MadeRun(r).at = "disconnect" /\ MadeRun(r).code = 0
         /\ MadeRun(r).message = "created" /\ MadeRun(r).name = r.name
         /\ MadeRun(r).made = TRUE /\ MadeRun(r).lost = r.lost
BY DEF MadeRun, CommandRuns, CommandSteps

LEMMA LostRow ==
  ASSUME NEW r \in CommandRuns
  PROVE  /\ LostRun(r) \in CommandRuns /\ LostRun(r).at = "disconnect" /\ LostRun(r).code = 1
         /\ LostRun(r).name = r.name /\ LostRun(r).made = TRUE /\ LostRun(r).lost = TRUE
BY DEF LostRun, CommandRuns, CommandSteps

(* What a command's step does to its run and to the rows.                   *)
CommandStep(c) ==
  LET r == commandRun[c]
  IN \/ /\ commandUser' = commandUser
        /\ \/ r.at = "parse" /\ \E n \in Names : commandRun' = [commandRun EXCEPT ![c] = NamedRun(r, n)]
           \/ /\ r.at \in {"parse", "validate", "config"}
              /\ \E code \in {1, 2}, m \in Messages : commandRun' = [commandRun EXCEPT ![c] = ExitedRun(r, code, m)]
           \/ r.at = "parse" /\ commandRun' = [commandRun EXCEPT ![c] = ExitedRun(r, 0, "help")]
           \/ r.at = "validate" /\ commandRun' = [commandRun EXCEPT ![c] = WentTo(r, "config")]
           \/ r.at = "config" /\ commandRun' = [commandRun EXCEPT ![c] = WentTo(r, "create")]
           \/ r.at = "create" /\ \E m \in Messages : commandRun' = [commandRun EXCEPT ![c] = RefusedRun(r, m)]
           \/ r.at = "disconnect" /\ commandRun' = [commandRun EXCEPT ![c] = WentTo(r, "exit")]
           \/ r.at = "disconnect" /\ \E m \in {"created, do not repeat", r.message} :
                /\ m = r.message \/ r.code = 0
                /\ commandRun' = [commandRun EXCEPT ![c] = ExitedRun(r, r.code, m)]
           \/ r.at = "exit" /\ commandRun' = [commandRun EXCEPT ![c] = Command!Fresh]
     \/ /\ r.at = "create" /\ commandUser[r.name] = None
        /\ commandUser' = [commandUser EXCEPT ![r.name] = Command!Admin(c)]
        /\ \E s \in {MadeRun(r), LostRun(r)} : commandRun' = [commandRun EXCEPT ![c] = s]

LEMMA CommandStepTaken ==
  ASSUME CommandInv, NEW c \in Calls,
         \/ Command!Parse(c) \/ Command!Validate(c) \/ Command!Connect(c) \/ Command!Create(c)
         \/ Command!Disconnect(c) \/ Command!Repeat(c)
  PROVE  CommandStep(c)
<1> DEFINE r == commandRun[c]
<1>1. commandRun \in [Calls -> CommandRuns]
  BY DEF CommandInv, CommandType
<1>2. \A at : Command!Goto(c, at) => commandRun' = [commandRun EXCEPT ![c] = WentTo(r, at)]
  BY <1>1 DEF Command!Goto, WentTo
<1>3. \A code, m : Command!Exit(c, code, m) => commandRun' = [commandRun EXCEPT ![c] = ExitedRun(r, code, m)]
  BY <1>1 DEF Command!Exit, ExitedRun
<1>0. {"arguments", "input", "no database", "failed", "duplicate"} \subseteq Messages
  BY DEF Messages
<1>4. CASE Command!Parse(c)
  <2>1. /\ r.at = "parse" /\ commandUser' = commandUser
        /\ \/ Command!Exit(c, 2, "arguments") \/ Command!Exit(c, 0, "help")
           \/ \E n \in Names : commandRun' = [commandRun EXCEPT ![c].at = "validate", ![c].name = n]
    BY <1>4 DEF Command!Parse, Command!At
  <2>3. CASE Command!Exit(c, 2, "arguments")
    <3>1. commandRun' = [commandRun EXCEPT ![c] = ExitedRun(r, 2, "arguments")]
      BY <1>3, <2>3
    <3> QED BY <1>0, <2>1, <3>1 DEF CommandStep
  <2>4. CASE Command!Exit(c, 0, "help")
    <3>1. commandRun' = [commandRun EXCEPT ![c] = ExitedRun(r, 0, "help")]
      BY <1>3, <2>4
    <3> QED BY <2>1, <3>1 DEF CommandStep
  <2>5. CASE \E n \in Names : commandRun' = [commandRun EXCEPT ![c].at = "validate", ![c].name = n]
    <3>1. PICK n \in Names : commandRun' = [commandRun EXCEPT ![c].at = "validate", ![c].name = n]
      BY <2>5
    <3>2. commandRun' = [commandRun EXCEPT ![c] = NamedRun(r, n)]
      BY <1>1, <3>1 DEF NamedRun
    <3> QED BY <2>1, <3>2 DEF CommandStep
  <2> QED BY <2>1, <2>3, <2>4, <2>5
<1>5. CASE Command!Validate(c)
  <2>1. /\ r.at = "validate" /\ commandUser' = commandUser
        /\ Command!Goto(c, "config") \/ Command!Exit(c, 2, "input")
    BY <1>5 DEF Command!Validate, Command!At
  <2>2. CASE Command!Goto(c, "config")
    <3>1. commandRun' = [commandRun EXCEPT ![c] = WentTo(r, "config")]
      BY <1>2, <2>2
    <3> QED BY <2>1, <3>1 DEF CommandStep
  <2>3. CASE Command!Exit(c, 2, "input")
    <3>1. commandRun' = [commandRun EXCEPT ![c] = ExitedRun(r, 2, "input")]
      BY <1>3, <2>3
    <3> QED BY <1>0, <2>1, <3>1 DEF CommandStep
  <2> QED BY <2>1, <2>2, <2>3
<1>6. CASE Command!Connect(c)
  <2>1. /\ r.at = "config" /\ commandUser' = commandUser
        /\ \/ Command!Exit(c, 1, "no database") \/ Command!Exit(c, 1, "failed") \/ Command!Goto(c, "create")
    BY <1>6 DEF Command!Connect, Command!At
  <2>2. CASE Command!Goto(c, "create")
    <3>1. commandRun' = [commandRun EXCEPT ![c] = WentTo(r, "create")]
      BY <1>2, <2>2
    <3> QED BY <2>1, <3>1 DEF CommandStep
  <2>3. ASSUME NEW m \in {"no database", "failed"}, Command!Exit(c, 1, m)
        PROVE  CommandStep(c)
    <3>1. commandRun' = [commandRun EXCEPT ![c] = ExitedRun(r, 1, m)]
      BY <1>3, <2>3
    <3> QED BY <1>0, <2>1, <3>1 DEF CommandStep
  <2> QED BY <2>1, <2>2, <2>3
<1>7. CASE Command!Create(c)
  <2>1. r.at = "create"
    BY <1>7 DEF Command!Create, Command!At
  <2>2. CASE commandUser[r.name] = None /\ commandUser' = [commandUser EXCEPT ![r.name] = Command!Admin(c)]
             /\ commandRun' = [commandRun EXCEPT ![c].at = "disconnect", ![c].code = 0,
                                 ![c].message = "created", ![c].made = TRUE]
    <3>1. commandRun' = [commandRun EXCEPT ![c] = MadeRun(r)]
      BY <1>1, <2>2 DEF MadeRun
    <3> QED BY <2>1, <2>2, <3>1 DEF CommandStep
  <2>3. CASE commandUser[r.name] = None /\ commandUser' = [commandUser EXCEPT ![r.name] = Command!Admin(c)]
             /\ commandRun' = [commandRun EXCEPT ![c].at = "disconnect", ![c].code = 1,
                                 ![c].message = "failed", ![c].made = TRUE, ![c].lost = TRUE]
    <3>1. commandRun' = [commandRun EXCEPT ![c] = LostRun(r)]
      BY <1>1, <2>3 DEF LostRun
    <3> QED BY <2>1, <2>3, <3>1 DEF CommandStep
  <2>4. CASE /\ commandUser' = commandUser
             /\ commandRun' = [commandRun EXCEPT ![c].at = "disconnect", ![c].code = 1,
                                 ![c].message = IF commandUser[r.name] # None THEN "duplicate" ELSE "failed"]
    <3>1. PICK m \in {"duplicate", "failed"} :
            commandRun' = [commandRun EXCEPT ![c].at = "disconnect", ![c].code = 1, ![c].message = m]
      BY <2>4
    <3>2. commandRun' = [commandRun EXCEPT ![c] = RefusedRun(r, m)]
      BY <1>1, <3>1 DEF RefusedRun
    <3>3. m \in Messages
      BY <1>0
    <3> HIDE DEF r
    <3>4. /\ commandUser' = commandUser /\ r.at = "create"
          /\ \E n \in Messages : commandRun' = [commandRun EXCEPT ![c] = RefusedRun(r, n)]
      BY <2>1, <2>4, <3>2, <3>3
    <3> QED BY <3>4 DEF CommandStep, r
  <2> QED BY <1>7, <2>2, <2>3, <2>4 DEF Command!Create
<1>8. CASE Command!Disconnect(c)
  <2>1. /\ r.at = "disconnect" /\ commandUser' = commandUser
        /\ \/ Command!Goto(c, "exit")
           \/ Command!Exit(c, r.code, IF r.code = 0 THEN "created, do not repeat" ELSE r.message)
    BY <1>8 DEF Command!Disconnect, Command!At
  <2>2. PICK m \in {"created, do not repeat", r.message} :
          /\ m = r.message \/ r.code = 0
          /\ Command!Goto(c, "exit") \/ Command!Exit(c, r.code, m)
    BY <2>1
  <2>3. \/ commandRun' = [commandRun EXCEPT ![c] = WentTo(r, "exit")]
        \/ commandRun' = [commandRun EXCEPT ![c] = ExitedRun(r, r.code, m)]
    BY <1>2, <1>3, <2>2
  <2> QED BY <2>1, <2>2, <2>3 DEF CommandStep
<1>9. CASE Command!Repeat(c)
  BY <1>9 DEF Command!Repeat, Command!At, CommandStep
<1> QED BY <1>4, <1>5, <1>6, <1>7, <1>8, <1>9

(* What a command's step tells.                                             *)
ToldBy ==
  /\ \A c \in Calls :
       commandRun'[c].at = "exit" /\ ~(commandRun[c].at = "exit") =>
         /\ commandRun[c].made = ((commandRun'[c].code = 0 /\ commandRun'[c].message # "help") \/ commandRun[c].lost)
         /\ commandRun[c].made => commandUser[commandRun[c].name] = Command!Admin(c)
  /\ \A n \in Names : commandUser[n] # None => commandUser'[n] = commandUser[n] \/ UNCHANGED commandRun

(* The run s that command c goes on with says at its exit what it made.     *)
ExitsAs(c, s) ==
  s.at = "exit" /\ commandRun[c].at # "exit" =>
    /\ commandRun[c].made = ((s.code = 0 /\ s.message # "help") \/ commandRun[c].lost)
    /\ commandRun[c].made => commandUser[commandRun[c].name] = Command!Admin(c)

LEMMA RunMoves ==
  ASSUME CommandInv, NEW c \in Calls, NEW s \in CommandRuns, commandUser' = commandUser,
         commandRun' = [commandRun EXCEPT ![c] = s], RunFine(c, s, commandUser), ExitsAs(c, s)
  PROVE  CommandInv' /\ ToldBy
<1>1. CommandInv'
  BY RunKeeps
<1>2. commandRun'[c] = s /\ \A d \in Calls \ {c} : commandRun'[d] = commandRun[d]
  BY DEF CommandInv, CommandType
<1> QED BY <1>1, <1>2 DEF ToldBy, ExitsAs

LEMMA CommandStepKeeps ==
  ASSUME CommandInv, NEW c \in Calls, CommandStep(c)
  PROVE  CommandInv' /\ ToldBy
<1> DEFINE r == commandRun[c]
<1>1. r \in CommandRuns /\ RunFine(c, r, commandUser)
  BY DEF CommandInv, CommandType
<1>2. /\ r.at \in CommandSteps
      /\ r.message \in Messages \cup {r.message} /\ r.code \in {0, 1, 2} \cup {r.code}
      /\ {"parse", "validate", "config", "create", "disconnect", "exit"} \subseteq CommandSteps
      /\ {"help", "created, do not repeat"} \subseteq Messages
  BY <1>1 DEF CommandRuns, CommandSteps, Messages
<1>3. \A s : commandRun' = [commandRun EXCEPT ![c] = s]
               => commandRun'[c] = s /\ \A d \in Calls \ {c} : commandRun'[d] = commandRun[d]
  BY DEF CommandInv, CommandType
<1>5. CASE r.at = "parse" /\ commandUser' = commandUser
           /\ \E n \in Names : commandRun' = [commandRun EXCEPT ![c] = NamedRun(r, n)]
  <2>1. PICK n \in Names : commandRun' = [commandRun EXCEPT ![c] = NamedRun(r, n)]
    BY <1>5
  <2>2. /\ NamedRun(r, n) \in CommandRuns /\ NamedRun(r, n).at = "validate" /\ NamedRun(r, n).name = n
        /\ ~NamedRun(r, n).made /\ ~NamedRun(r, n).lost
    BY <1>1, <1>5, NamedRow DEF RunFine
  <2>3. RunFine(c, NamedRun(r, n), commandUser) /\ ExitsAs(c, NamedRun(r, n))
    BY <2>2 DEF RunFine, ExitsAs
  <2> QED BY <1>5, <2>1, <2>2, <2>3, RunMoves
<1>6. CASE r.at \in {"parse", "validate", "config"} /\ commandUser' = commandUser
           /\ \E code \in {1, 2}, m \in Messages : commandRun' = [commandRun EXCEPT ![c] = ExitedRun(r, code, m)]
  <2>1. PICK code \in {1, 2}, m \in Messages : commandRun' = [commandRun EXCEPT ![c] = ExitedRun(r, code, m)]
    BY <1>6
  <2> DEFINE s == ExitedRun(r, code, m)
  <2>2. s \in CommandRuns /\ s.at = "exit" /\ s.code # 0
    <3>1. code \in {0, 1, 2} \cup {r.code} /\ m \in Messages \cup {r.message} /\ code # 0
      OBVIOUS
    <3> QED BY <1>1, <3>1, ExitedRow
  <2>3. ~r.made /\ ~r.lost /\ r.made \in BOOLEAN
    BY <1>1, <1>6 DEF RunFine, CommandRuns
  <2> HIDE DEF s
  <2>4. RunFine(c, s, commandUser)
    BY <2>2 DEF RunFine
  <2>5. ExitsAs(c, s)
    BY <2>2, <2>3 DEF ExitsAs
  <2>6. commandRun' = [commandRun EXCEPT ![c] = s]
    BY <2>1 DEF s
  <2> QED BY <1>6, <2>2, <2>4, <2>5, <2>6, RunMoves
<1>7. CASE r.at = "parse" /\ commandUser' = commandUser
           /\ commandRun' = [commandRun EXCEPT ![c] = ExitedRun(r, 0, "help")]
  <2> DEFINE s == ExitedRun(r, 0, "help")
  <2>2. s \in CommandRuns /\ s.at = "exit" /\ s.message = "help"
    <3>1. 0 \in {0, 1, 2} \cup {r.code} /\ "help" \in Messages \cup {r.message}
      BY DEF Messages
    <3> QED BY <1>1, <3>1, ExitedRow
  <2>3. ~r.made /\ ~r.lost /\ r.made \in BOOLEAN
    BY <1>1, <1>7 DEF RunFine, CommandRuns
  <2> HIDE DEF s
  <2>4. RunFine(c, s, commandUser)
    BY <2>2 DEF RunFine
  <2>5. ExitsAs(c, s)
    BY <2>2, <2>3 DEF ExitsAs
  <2>6. commandRun' = [commandRun EXCEPT ![c] = s]
    BY <1>7 DEF s
  <2> QED BY <1>7, <2>2, <2>4, <2>5, <2>6, RunMoves
<1>8. ASSUME NEW at \in {"config", "create"}, r.at \in {"validate", "config"}, commandUser' = commandUser,
             commandRun' = [commandRun EXCEPT ![c] = WentTo(r, at)]
      PROVE  CommandInv' /\ ToldBy
  <2>1. /\ WentTo(r, at) \in CommandRuns /\ WentTo(r, at).at = at /\ WentTo(r, at).name \in Names
        /\ ~WentTo(r, at).made /\ ~WentTo(r, at).lost
    <3>1. at \in CommandSteps
      BY DEF CommandSteps
    <3>2. r.name \in Names /\ ~r.made /\ ~r.lost
      BY <1>1, <1>8 DEF RunFine
    <3> QED BY <1>1, <3>1, <3>2, WentRow
  <2>2. RunFine(c, WentTo(r, at), commandUser) /\ ExitsAs(c, WentTo(r, at))
    BY <2>1 DEF RunFine, ExitsAs
  <2> QED BY <1>8, <2>1, <2>2, RunMoves
<1>9. CASE r.at = "create" /\ commandUser' = commandUser
           /\ \E m \in Messages : commandRun' = [commandRun EXCEPT ![c] = RefusedRun(r, m)]
  <2>1. PICK m \in Messages : commandRun' = [commandRun EXCEPT ![c] = RefusedRun(r, m)]
    BY <1>9
  <2> DEFINE s == RefusedRun(r, m)
  <2>2. s \in CommandRuns /\ s.at = "disconnect" /\ s.code = 1 /\ s.name = r.name
        /\ s.made = r.made /\ s.lost = r.lost
    BY <1>1, TakenRow
  <2>3. s.name \in Names /\ ~s.made /\ ~s.lost /\ s.made \in BOOLEAN
    BY <1>1, <1>9, <2>2 DEF RunFine, CommandRuns
  <2> HIDE DEF s
  <2>4. RunFine(c, s, commandUser)
    BY <2>2, <2>3 DEF RunFine
  <2>5. ExitsAs(c, s)
    BY <2>2 DEF ExitsAs
  <2>6. commandRun' = [commandRun EXCEPT ![c] = s]
    BY <2>1 DEF s
  <2> QED BY <1>9, <2>2, <2>4, <2>5, <2>6, RunMoves
<1>10. CASE r.at = "disconnect" /\ commandUser' = commandUser
            /\ commandRun' = [commandRun EXCEPT ![c] = WentTo(r, "exit")]
  <2> DEFINE s == WentTo(r, "exit")
  <2>1. s \in CommandRuns /\ s.at = "exit" /\ s.code = r.code /\ s.message = r.message
    BY <1>1, <1>2, WentRow
  <2>2. /\ r.made <=> (r.code = 0 \/ r.lost)
        /\ r.code = 0 => r.message = "created"
        /\ r.made => commandUser[r.name] = Command!Admin(c)
    BY <1>1, <1>10 DEF RunFine
  <2> HIDE DEF s
  <2>3. RunFine(c, s, commandUser)
    BY <2>1 DEF RunFine
  <2>4. r.made = ((s.code = 0 /\ s.message # "help") \/ r.lost)
    <3>1. r.made <=> ((s.code = 0 /\ s.message # "help") \/ r.lost)
      BY <2>1, <2>2
    <3>2. r.made \in BOOLEAN
      BY <1>1 DEF CommandRuns
    <3> QED BY <3>1, <3>2, Zenon
  <2>5. ExitsAs(c, s)
    BY <2>2, <2>4 DEF ExitsAs
  <2>6. commandRun' = [commandRun EXCEPT ![c] = s]
    BY <1>10 DEF s
  <2> QED BY <1>10, <2>1, <2>3, <2>5, <2>6, RunMoves
<1>11. CASE r.at = "disconnect" /\ commandUser' = commandUser
            /\ \E m \in {"created, do not repeat", r.message} :
                 /\ m = r.message \/ r.code = 0
                 /\ commandRun' = [commandRun EXCEPT ![c] = ExitedRun(r, r.code, m)]
  <2>0. PICK m \in {"created, do not repeat", r.message} :
          /\ m = r.message \/ r.code = 0
          /\ commandRun' = [commandRun EXCEPT ![c] = ExitedRun(r, r.code, m)]
    BY <1>11
  <2> DEFINE s == ExitedRun(r, r.code, m)
  <2>1. s \in CommandRuns /\ s.at = "exit" /\ s.code = r.code /\ s.message = m
    <3>1. r.code \in {0, 1, 2} \cup {r.code} /\ m \in Messages \cup {r.message}
      BY DEF Messages
    <3> QED BY <1>1, <3>1, ExitedRow
  <2>2. /\ r.made <=> (r.code = 0 \/ r.lost)
        /\ r.code = 0 => r.message = "created"
        /\ r.made => commandUser[r.name] = Command!Admin(c)
    BY <1>1, <1>11 DEF RunFine
  <2> HIDE DEF s
  <2>3. RunFine(c, s, commandUser)
    BY <2>1 DEF RunFine
  <2>4. r.made = ((s.code = 0 /\ s.message # "help") \/ r.lost)
    <3>1. r.made <=> ((s.code = 0 /\ s.message # "help") \/ r.lost)
      BY <2>0, <2>1, <2>2
    <3>2. r.made \in BOOLEAN
      BY <1>1 DEF CommandRuns
    <3> QED BY <3>1, <3>2, Zenon
  <2>5. ExitsAs(c, s)
    BY <2>2, <2>4 DEF ExitsAs
  <2>6. commandRun' = [commandRun EXCEPT ![c] = s]
    BY <2>0 DEF s
  <2> QED BY <1>11, <2>1, <2>3, <2>5, <2>6, RunMoves
<1>12. CASE r.at = "exit" /\ commandUser' = commandUser /\ commandRun' = [commandRun EXCEPT ![c] = Command!Fresh]
  <2>1. /\ Command!Fresh \in CommandRuns /\ Command!Fresh.at = "parse"
        /\ ~Command!Fresh.made /\ ~Command!Fresh.lost
    BY DEF Command!Fresh, CommandRuns, CommandSteps
  <2>2. RunFine(c, Command!Fresh, commandUser) /\ ExitsAs(c, Command!Fresh)
    BY <2>1 DEF RunFine, ExitsAs
  <2> QED BY <1>12, <2>1, <2>2, RunMoves
<1>13. ASSUME NEW s \in {MadeRun(r), LostRun(r)}, r.at = "create", commandUser[r.name] = None,
              commandUser' = [commandUser EXCEPT ![r.name] = Command!Admin(c)],
              commandRun' = [commandRun EXCEPT ![c] = s]
       PROVE  CommandInv' /\ ToldBy
  <2>1. /\ s \in CommandRuns /\ s.at = "disconnect" /\ s.name = r.name /\ s.made
        /\ s.made <=> (s.code = 0 \/ s.lost)
        /\ s.code = 0 => s.message = "created"
    <3>1. CASE s = MadeRun(r)
      BY <1>1, <3>1, MadeRow
    <3>2. CASE s = LostRun(r)
      <4>1. s \in CommandRuns /\ s.at = "disconnect" /\ s.code = 1 /\ s.name = r.name
        BY <1>1, <3>2, LostRow
      <4>2. s.made = TRUE /\ s.lost = TRUE
        BY <1>1, <3>2, LostRow
      <4>3. s.made /\ s.lost
        BY <4>2
      <4> QED BY <4>1, <4>3
    <3> QED BY <1>13, <3>1, <3>2
  <2>2. r.name \in Names
    BY <1>1, <1>13 DEF RunFine
  <2>3. CommandType'
    BY <1>13, <2>1 DEF CommandInv, CommandType
  <2>4. commandRun'[c] = s /\ \A d \in Calls \ {c} : commandRun'[d] = commandRun[d]
    BY <1>3, <1>13
  <2>5. commandUser'[r.name] = Command!Admin(c) /\ \A n \in Names \ {r.name} : commandUser'[n] = commandUser[n]
    BY <1>13, <2>2 DEF CommandInv, CommandType
  <2>6. RunFine(c, commandRun'[c], commandUser')
    BY <2>1, <2>2, <2>4, <2>5 DEF RunFine
  <2>7. ASSUME NEW d \in Calls \ {c} PROVE RunFine(d, commandRun'[d], commandUser')
    <3>1. RunFine(d, commandRun[d], commandUser)
      BY DEF CommandInv
    <3>2. commandRun[d].at = "disconnect" /\ commandRun[d].made => commandUser[commandRun[d].name] # None
      BY <3>1, CommandConstants DEF RunFine
    <3> QED BY <1>13, <2>4, <2>5, <3>1, <3>2 DEF RunFine
  <2>8. CommandInv'
    BY <2>3, <2>6, <2>7 DEF CommandInv
  <2>9. ToldBy
    BY <1>13, <2>1, <2>4, <2>5 DEF ToldBy
  <2> QED BY <2>8, <2>9
<1>14. CASE r.at = "validate" /\ commandUser' = commandUser
            /\ commandRun' = [commandRun EXCEPT ![c] = WentTo(r, "config")]
  BY <1>8, <1>14
<1>15. CASE r.at = "config" /\ commandUser' = commandUser
            /\ commandRun' = [commandRun EXCEPT ![c] = WentTo(r, "create")]
  BY <1>8, <1>15
<1> HIDE DEF r
<1> QED
  BY <1>5, <1>6, <1>7, <1>9, <1>10, <1>11, <1>12, <1>13, <1>14, <1>15 DEF CommandStep, r

LEMMA CommandMoves ==
  ASSUME CommandInv, [Command!Next]_(Command!vars)
  PROVE  CommandInv' /\ ToldBy
<1>1. CASE UNCHANGED Command!vars
  <2>1. commandUser' = commandUser /\ commandRun' = commandRun
    BY <1>1 DEF Command!vars
  <2> QED BY <2>1 DEF CommandInv, CommandType, ToldBy
<1>2. ASSUME NEW c \in Calls,
             \/ Command!Parse(c) \/ Command!Validate(c) \/ Command!Connect(c) \/ Command!Create(c)
             \/ Command!Disconnect(c) \/ Command!Repeat(c)
      PROVE  CommandInv' /\ ToldBy
  BY <1>2, CommandStepTaken, CommandStepKeeps
<1>3. ASSUME NEW n \in Names, Command!Register(n) \/ Command!Leave(n)
      PROVE  CommandInv' /\ ToldBy
  <2>1. /\ commandRun' = commandRun
        /\ commandUser[n] = None \/ commandUser[n].by = "register"
        /\ \E row \in {Registered, None} : commandUser' = [commandUser EXCEPT ![n] = row]
    BY <1>3 DEF Command!Register, Command!Leave, Registered
  <2>2. CommandType' /\ \A m \in Names \ {n} : commandUser'[m] = commandUser[m]
    BY <2>1 DEF CommandInv, CommandType
  <2>3. \A c \in Calls : Command!Admin(c) # None /\ Command!Admin(c).by # "register"
    BY CommandConstants DEF Command!Admin
  <2>4. ASSUME NEW c \in Calls PROVE RunFine(c, commandRun'[c], commandUser')
    <3>1. RunFine(c, commandRun[c], commandUser)
      BY DEF CommandInv
    <3>2. commandUser[n] # Command!Admin(c)
      BY <2>1, <2>3
    <3>3. \A m \in Names : commandUser[m] = Command!Admin(c) => commandUser'[m] = commandUser[m]
      BY <2>2, <3>2
    <3> QED BY <2>1, <3>1, <3>3 DEF RunFine
  <2>5. CommandInv'
    BY <2>2, <2>4 DEF CommandInv
  <2>6. ToldBy
    BY <2>1 DEF ToldBy
  <2> QED BY <2>5, <2>6
<1> QED BY <1>1, <1>2, <1>3 DEF Command!Next

----------------------------------------------------------------------------
(* The account locked beside its deletion, with the facts of AccountsProofs. *)

LockFacts == INSTANCE AccountsProofs WITH
    Users <- {e}, Admins <- {}, Unverified <- {}, Lockable <- {e}, Changers <- {e},
    Requests <- Calls, NoRow <- None, clock <- lockClock, user <- lockUser,
    pc <- lockPc, tx <- lockTx

LEMMA LockAssumed == LockFacts!AccountsAssumption /\ LockFacts!NoRowAssumption
BY InstancesAssumption DEF LockFacts!AccountsAssumption, Lock!AccountsAssumption, LockFacts!NoRowAssumption,
       Lock!NoRowAssumption, LockFacts!Row, Lock!Row, LockFacts!IsFiniteSet, Lock!IsFiniteSet

LEMMA LockInits ==
  ASSUME Lock!Init
  PROVE  LockFacts!Init
BY DEF Lock!Init, LockFacts!Init, Lock!NotLocked, LockFacts!NotLocked, Lock!Blank, LockFacts!Blank

LEMMA LockNexts ==
  ASSUME [Lock!Next]_(Lock!vars)
  PROVE  [LockFacts!Next]_(LockFacts!vars)
BY DEF Lock!Next, LockFacts!Next, Lock!vars, LockFacts!vars, Lock!MaxAttempts, LockFacts!MaxAttempts,
       Lock!AdminKinds, LockFacts!AdminKinds, Lock!Kinds, LockFacts!Kinds,
       Lock!NotLocked, LockFacts!NotLocked, Lock!UsableAccount, LockFacts!UsableAccount,
       Lock!UsableAdmin, LockFacts!UsableAdmin, Lock!UsableAdmins, LockFacts!UsableAdmins,
       Lock!Blank, LockFacts!Blank, Lock!At, LockFacts!At, Lock!Goto, LockFacts!Goto,
       Lock!Finish, LockFacts!Finish, Lock!InTransaction, LockFacts!InTransaction,
       Lock!After, LockFacts!After, Lock!Counts, LockFacts!Counts, Lock!Footprint, LockFacts!Footprint,
       Lock!ReadBefore, LockFacts!ReadBefore, Lock!MustFail, LockFacts!MustFail,
       Lock!Write, LockFacts!Write, Lock!Receive, LockFacts!Receive,
       Lock!VerifyPassword, LockFacts!VerifyPassword, Lock!ReplaceHash, LockFacts!ReplaceHash,
       Lock!LockAccount, LockFacts!LockAccount, Lock!Begin, LockFacts!Begin,
       Lock!Accepted, LockFacts!Accepted, Lock!Decide, LockFacts!Decide, Lock!Commit, LockFacts!Commit,
       Lock!FailSerialization, LockFacts!FailSerialization, Lock!Abandon, LockFacts!Abandon,
       Lock!Tick, LockFacts!Tick, Lock!Cardinality, LockFacts!Cardinality

DeletedKnowingly ==
  \A r \in Calls :
    /\ Lock!Committing(r) /\ lockTx[r].kind = "selfDelete"
    => LET row == lockUser[lockTx[r].actor]
       IN row # None /\ row.active /\ row.hash = lockTx[r].hash

LEMMA LockMoves ==
  ASSUME LockFacts!IInv, [Lock!Next]_(Lock!vars)
  PROVE  LockFacts!IInv' /\ DeletedKnowingly
<1>1. [LockFacts!Next]_(LockFacts!vars)
  BY LockNexts
<1>2. LockFacts!IInv'
  BY <1>1, LockFacts!StepKeeps, LockAssumed
<1>3. ASSUME NEW r \in Calls, Lock!Committing(r), lockTx[r].kind = "selfDelete"
      PROVE  LET row == lockUser[lockTx[r].actor]
             IN row # None /\ row.active /\ row.hash = lockTx[r].hash
  <2>1. LockFacts!Committing(r)
    BY <1>3 DEF Lock!Committing, LockFacts!Committing
  <2> QED BY <1>1, <1>3, <2>1, LockFacts!SelfDeleteChecked, LockAssumed
<1> QED BY <1>2, <1>3 DEF DeletedKnowingly

(* What a command or a request reports it did, it did: a rehearsal replaces *)
(* its fixtures as a whole and nobody else's row, whatever others do        *)
(* between its statements; a run of create-admin reports success exactly    *)
(* when it made an administrator; and an account is deleted by its owner    *)
(* only with the password of that moment, for any workers, commands,        *)
(* requests and names.                                                      *)
THEOREM CommandsTold == AllSpec => CommandsTellTruth
<1> DEFINE Inv == RehearsalInv /\ CommandInv /\ LockFacts!IInv
<1>1. AllInit => Inv
  <2> SUFFICES ASSUME AllInit PROVE Inv
    OBVIOUS
  <2>1. LockFacts!IInv
    BY ComponentStarts, LockInits, LockFacts!InitHolds, LockAssumed
  <2> QED BY <2>1, ComponentStarts, RehearsalStarts, CommandStarts
<1>2. Inv /\ [AllNext]_allVars
        => /\ Inv'
           /\ [ReplacedBy]_(Rehearsal!vars) /\ [ToldBy]_(Command!vars) /\ [DeletedKnowingly]_(Lock!vars)
  <2> SUFFICES ASSUME Inv, [AllNext]_allVars
               PROVE  /\ Inv'
                      /\ [ReplacedBy]_(Rehearsal!vars) /\ ToldBy /\ DeletedKnowingly
    OBVIOUS
  <2>1. RehearsalInv' /\ [ReplacedBy]_(Rehearsal!vars)
    BY ComponentSteps, RehearsalMove
  <2>2. CommandInv' /\ ToldBy
    BY ComponentSteps, CommandMoves
  <2>3. LockFacts!IInv' /\ DeletedKnowingly
    BY ComponentSteps, LockMoves
  <2> QED BY <2>1, <2>2, <2>3
<1> QED
  BY <1>1, <1>2, PTL DEF AllSpec, CommandsTellTruth, Rehearsal!FixturesReplaced, ReplacedBy,
     Command!ExitTellsTheTruth, Command!At, ToldBy, Lock!SelfDeleteKnowsPassword, DeletedKnowingly
=============================================================================
