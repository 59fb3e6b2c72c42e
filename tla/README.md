# Formal models of Gensoko

Gensoko is a web game for learning the chemical elements: a SvelteKit frontend
(`src/frontend`), an API of Hono routers and services on Cloudflare Workers
(`src/backend`), PostgreSQL through Prisma, Durable Objects for rate limits, and
cron jobs. This directory holds TLA+ models of it, the TLC configurations that check
them on small instances, and TLAPS proofs for every size.

Contents: 1 inventory, 2 modules, 3 runs and bounds, 4 theorems, 5 where the code
departs from its documentation, 6 observations and what is not modelled, 7 plan.

## 1. Inventory

Paths of the backend are under `src/backend/src`, those of the frontend under
`src/frontend/src`.

| Component | State it keeps | Operations | Interacts with |
|---|---|---|---|
| Game service (`services/game.service.ts`) | `GameQuestionSet`, `GameSession`, `GameAnswer`, `WeakElement`, `UserStats` | issue a question set, submit a session (one transaction), read a result, page the history | jobs, login and weak list write the same rows |
| Element mastery (`services/element-mastery.service.ts`) | none (derived from `GameAnswer`) | mastery from the latest two sessions of an element | game service, weak list, catalogue |
| Weak list (`services/weak.service.ts`) | `WeakElement` | list, delete a row | races submissions |
| Weekly score (`lib/weekly-score.ts`, `jobs/resetWeeklyScores.ts`) | `weeklyScore`, `weeklyScoreWeekStart` | week of a time, reset job | races submissions |
| Question set cleanup (`jobs/cleanupGameQuestionSets.ts`) | `GameQuestionSet` | delete expired sets | races submissions |
| Authentication (`services/auth.service.ts`) | `User`, `RefreshToken`, `EmailVerification`, `PasswordResetToken` | register, verify, login, refresh, logout, forgot and reset password, lock, login streak | mail, audit, `UserStats` |
| Access middleware (`middleware/`) | none | read the caller's row, admit or refuse | every protected route |
| Account settings (`services/user.service.ts`) | `User` | change name or password, delete own account | serializable transactions |
| Administration (`services/admin.service.ts`, `lib/usable-admin.ts`) | `User`, tokens | list users, suspend, reactivate, change role, delete by force | serializable transactions, audit |
| Serializable transactions (`lib/serializable-transaction-core.ts`) | none | run, retry once on P2034 | administration, self deletion |
| Creation of administrators (`scripts/createAdmin.ts`) | `User` | insert one administrator from the command line | registration of the same name |
| Audit log (`services/audit.service.ts`) | `AuditLog` | append, in or beside the transaction it describes | auth, user, admin services |
| Rate limiting (`middleware/rateLimit`, `cloudflare/rate-limit-counter.ts`) | a counter and window per key (Durable Object with an alarm, or a map) | consume, expire, evict, fail open or closed | in front of most routes |
| Retention jobs (`jobs/cleanup*.ts`, `jobs/deleteLegacySoftDeletedUsers.ts`) | old rows | delete in batches up to a row or time limit | cron, command line |
| Ranking (`services/ranking.service.ts`) | none | a list and the caller's rank, in separate statements | submissions, suspensions |
| Staging evidence (`jobs/staging*.ts`) | synthetic accounts and rows | the release campaign, the measured deletion, fixtures of rehearsals | the deployed API and database |
| Auth store (`lib/stores/auth.svelte.ts`) | access token, user, generation, a refresh in flight | page load, log in, one refresh for all waiters, log out, follow other tabs | API, BroadcastChannel, Web Locks |
| Game pages (`routes/(app)/game/`) | question index, answers, timers, result store | load, answer, abort, submit again, show a result | game service, auth store |
| Administrators' page, list pages, account pages | what is shown, requests under way | load, filter, further pages, change, forms | API, auth store |
| Toasts, theme (`lib/stores/`) | queue with timers, `localStorage` | show, remove, follow other tabs | all pages |

What is hard in this code, and what makes the components correct:

* **Concurrent submissions.** `submitGameSession` is some twenty statements at READ
  COMMITTED. Each sees what is committed when it runs, so what an earlier one read may
  be stale. A set must be scored once, totals must be the sums over the saved sessions,
  the weekly score that of the week, `masteredCount` the number of mastered elements, and
  the weak list must follow the answers. Jobs and deletions run beside them, and weak rows
  are locked in question order, so submissions deadlock.
* **Check, then act.** The middleware's look at the caller, the password comparison of a
  login, change, reset or self deletion, and the count of remaining administrators precede
  the write by an arbitrary time. A session must not survive a suspension, two
  administrators removing each other must not both succeed, and a retried transaction must
  not rest on what its first attempt saw.
* **Read in pieces.** Mastery, history, the list of users and the ranking are read page
  by page or statement by statement beside writers.
* **Tabs, answers and timers.** Tabs share a cookie and rotate it; a page's answers come
  late, twice in no order, or after the page, the user or the filter has changed.
* **Partial failure.** A job is killed between batches, a bucket of a route cannot be
  counted, a commit is made whose answer is lost; what is reported must still be true.

`PROJECT.json` lists each hazard at the line where it bites with the properties that
cover it.

## 2. Modules

Each module's header names the code it models; its actions carry the names of the
source's functions or statements.

**Games**

| Module | What it is |
|---|---|
| `GameSession` | the game service of one user, statement by statement, with the jobs, login and weak-list deletion beside it |
| `GameSessionProperties` | its invariants, action and liveness properties and the refinement mapping |
| `QuestionSetLedger` | abstract: a set is issued, then scored once or dropped, and totals move exactly when it is scored |
| `QuestionSet` | drawing questions and choices, scoring answers sent in any order, reading the result back |
| `MasteryScan` | mastery read page by page while sessions are saved |
| `Ranking` | the list and the caller's rank, read by separate statements |
| `LoginStreak` | the streak of logins beside games that also write `lastActiveDate` |
| `Responses` | numbers of a row as the server answers them and the client accepts them |

**Accounts and server**

| Module | What it is |
|---|---|
| `Accounts` | the users table under administration, self deletion, password change and locks, with serializable transactions |
| `AuthService` | one address: registration, verification, login, rotation, logout, reset, password change, suspension |
| `RateLimit` | the middleware over Durable Object counters with alarms and failing calls |
| `FixedWindow` | abstract: a window begins with a request, lasts `Window`, lets `Limit` through |
| `MemoryStore` | the in-memory counters with their eviction |
| `Api` | per route: middleware, the service's refusals, the answer, what the client makes of it |
| `Audit` | rows in and beside the transactions they describe |
| `AdminUsers` | the list of users paged by a cursor |
| `Retention` | the batch loops of the cleanup jobs, overlapping runs, exit codes |
| `CreateAdmin`, `Campaign`, `DeletionPerformance`, `Fixtures` | the command line tools of operations and staging |

**Frontend**

| Module | What it is |
|---|---|
| `AuthStore` | tabs, Web Lock, cookie jar, network and the auth routes |
| `GamePages`, `AdminPage`, `KeyedLoad`, `PagedLoad`, `AccountPages` | the pages: state, requests under way, answers, timers |
| `ToastStore`, `ThemeStore` | the two small stores |

**Composition.** `MCUsers`, `MCLive`, `MCPages` and `MCServer` put several
components into one state space, because starting a checker for each small one would cost more
than the checking. The variable `which` says which component a behaviour belongs to;
all start, only that one moves, the others rest in a fixed state. So a state of a run is a
state of one component, and a property `which = "x" => X!P` says `P` of component `x`
exactly. A property that names several components in this way is a conjunction of
their properties; the theorem about it proves every part.

**Mutants.** Operators introduced by a comment `Mutant:` are plausible bugs of the
definition that follows them. No specification uses them; `PROJECT.json` pairs each
property with one that breaks it. Conjuncts of a property about different components
have a mutant each beside the definition it would break.

### How the state corresponds to the code

*GameSession.* `sets` is the `GameQuestionSet` table of one user with the ids not yet
used, `played` the sessions with their answers in commit order, `weak` the `WeakElement`
rows by element, `stats` the `UserStats` row or `NoRow`. `pc[r]` is the next statement of
request `r`, `tx[r]` what it has read, and written but not committed. Each statement of
`submitGameSession` is one action: `ReadQuestionSet`, `CountMasteredBefore`,
`ConsumeQuestionSet` (the `deleteMany` whose count decides who may score, and the
inserts nobody else sees before the commit), the loop over the elements
(`UpsertMissedElement`, or `FindWeakElement` then `HitWeakElement`),
`CountMasteredAfter`, `ReadStats` and the branches on `UserStats` (`CreateStats` with
`skipDuplicates`, `RereadStats`, `ReplaceStaleWeek`, `IncrementStats`), and `Commit`. A
statement on a row another request has written waits (`Unblocked`); a cycle of waits has
a victim (`DeadlockVictim`); at any point the transaction may be lost (`Rollback`). An
UPDATE that has waited works on the committed row, as PostgreSQL's re-check does; a value
that JavaScript read before stays as it was. An element is a model value, an answer right
or wrong, a week `clock \div WeekLength`; the score is 100 for each right answer, as
`calculateQuestionScore` returns.

*Accounts.* `user` is the table; a password hash is a number never used twice. `Receive`
is the middleware, in a read of its own. A transaction takes its snapshot (`Begin`), checks
and writes (`Decide`) and commits (`Commit`) or fails (`FailSerialization`, retried
once). SERIALIZABLE is modelled by what PostgreSQL guarantees at least: a commit must
fail if the row it writes was written since the snapshot, or if some transaction that
committed since read what this one overwrites and overwrote what this one read (write
skew), where counting the usable administrators reads them all. `FailSerialization` may
refuse any commit, and nothing relies on longer cycles being refused. Other writers of a
user row are covered by that: they can only make a transaction fail.

*AuthService.* The row of the user, its refresh tokens and mailed links; each request
splits where the code awaits a hash, a comparison or a mail, and a transaction where
another can come between two statements. Row locks are held to the commit, and a
`deleteMany` does not see rows committed after it began.

*RateLimit.* `counter` is the row of each Durable Object, `alarm` its alarm, which may
fire late; a call counts in all buckets of its middleware at once and may fail before or
after it has counted.

*AuthStore.* One record per tab; a fetch is a message up and one down, which may be
lost or disowned by an abort while its `Set-Cookie` still arrives. Continuations that run as
microtasks without an event between them are one step.

*Pages.* A page is a record; each function that assigns its state is an operator
from records to records. An effect runs before the next event. The other tabs, the
server and the user are the environment. In `GamePages` a user's token changes only
with the user: only the administrators' page and retries refresh it. In `AccountPages` a
password change's logout and the navigation after it are one step, and the status
`unavailable` of the store is, for a form, the same as signed out.

## 3. Runs

| Run | Instance | Asks |
|---|---|---|
| `game` | `GameSession`: 2 requests, 2 sets of 2 questions on 2 elements, or on 1 asked twice, 2 weeks | Do overlapping submissions, jobs, rollbacks and deadlocks score a set once and keep totals, misses and list (`ScoredOnce`, `NoSetLost`, `TotalsMatchHistory`, `MissCountExact`, `MissIsListed`), as the ledger says (`LedgerSpec`)? |
| `users` | `Accounts`: 3 users, 2 of them administrators and 1 who changes the password, 2 requests; games with 1 request over 2 weeks, with 1 request and 2 questions on 1 element, and 2 requests with 3 sets on 1 element; and `QuestionSet`, `LoginStreak`, `MasteryScan`, `Ranking`, `Responses` | Does an administrator remain (`AdminRemains`), is whoever deletes one (`DeleterStays`), does a self deletion know the password (`SelfDeleteKnowsPassword`)? Do games in turn leave weekly score, mastered count and weak list as the history tells, and racing ones totals and misses (`HistoryKept`)? Are questions, results and streaks fair (`EarnedFairly`) and reads in pieces consistent (`ReadsAgree`)? |
| `auth` | 2 requests, 3 tokens, 2 links, lock after 2 failures | `OneSessionPerLogin`, `SessionsBelong`, `ResetLinkOnce`, `ChangeKnowsPassword` |
| `live` | 2 cleanup runs on 2 rows; 2 submissions in opposite lock order; 1 tab, 2 refreshes, 1 of them lost or failed | What ends: `RunsEnd`, `RequestsEnd`, `EveryCallAnswered`; and what a run reports: `SuccessLeavesNothing`, `CountsAddUp` |
| `server` | 2 calls of 2 buckets; and ten components more | `RouteIsCounted`, `RetryAfterSuffices`, `KeepsPromise` (`FixedWindow`), `ForgetsOnlyWhenFull`; is what is told (`ToldTruly`), reported (`ReportsAreTrue`) and done by commands (`CommandsTellTruth`) true? |
| `pages` | 2 tabs, 2 refreshes; and the pages of 2 people | `LocksKeepSession`, `CancelledNeverSignsIn`, and of the pages `PagesTyped`, `ShowsWhatWasAsked`, `NothingOfOthers`, `InOrder`, `SignsEnd` |
| `weekly`, `logout`, `login_stands`, `sync_failure`, `period`, `campaign` | smallest instance of each | a statement of the docs that the code violates, section 5 |

**Bounds.** Every unbounded counter has a bound named in the guards: `MaxClock`,
`MaxNow`, `MaxTime`, `MaxHash`, `MaxRows`, `MaxCount`, `MaxCommands`, `MaxCalls`,
`MaxSteps`, `MaxFaults` and its kin, `MaxOverlap` and `MaxWrites` (rows written beside an
open transaction, or beside a request for a ranking); `Changers` are the users who may
change their password.
Two actors are enough for the races listed in section 1: each is between two writers, or
a writer and a job. Three question sets allow two submissions at once after a first one
has left rows behind, so that a weak row can be deleted and come back (`users`); two
questions on two elements are the least that lets locks cross (`game`);
write skew needs one other row written while a transaction is open, hence
`MaxOverlap = 1`. In `users` one password change is enough to come between the comparison
and the commit of a self deletion, and one user who sends it, who is no administrator.
Of the three users of the rankings the second one asks (`Askers`), with ids on both sides.
Three tokens allow a rotation beside a login. The pages' two users and
two filters are the least with which an answer can belong to another. `MapSize = 2` with
three keys makes the map full and evict. In `server` `Window = 3` with `Second = 2` lets a
window end between two calls and within the second a `Retry-After` is rounded to. The
theorems of section 4 hold without bounds.

`MCUsers` gives the games one request in `turn` because three of its properties
fail with two (section 5): it shows that these are failures of concurrency and
of nothing else; `twice`, one request as well, asks the only element in both questions of
a set. `Lockable = {}` in the same run for the same reason. `Symmetry` exchanges what is
alike in two components by one permutation: as only one component moves in a behaviour,
each keeps its own symmetries, and TLC has fewer permutations to try.

**Deadlock.** In the composed runs a behaviour ends when its component has done all
the bounds allow, so the configurations say `CHECK_DEADLOCK FALSE`; `auth` checks it.
That nobody waits for ever is what `live` shows.

**Fairness.** It is assumed in `live` only, and of the program only, never of arrivals,
jobs, rollbacks or users. `GameSession`: strong fairness of each request's next statement,
because it is blocked and unblocked by others, and PostgreSQL's lock queues are first
come, first served; weak fairness of `DeadlockVictim`, the detector that runs after
`deadlock_timeout` in every wait. `Retention`: weak fairness of each run's next step; a run
is a loop of awaits with nothing to wait for but the database. `AuthStore`: weak
fairness of the steps of a refresh and of a call under way, which are microtasks, or
fetches that end, or fail by their timeout. The violated properties are invariants and
action properties, whose counterexamples need no fairness.

## 4. Theorems

All theorems hold for any number of users, requests, tabs, sets, elements, rows and
tokens, under the named assumptions of the modules (finite sets, positive lengths, markers
such as `NoRow` that are no row). TLC evaluates these assumptions in the runs.

`GameSessionProofs`
* `TypeCorrect`; `QuestionSetScoredOnce`, `QuestionSetNotLost`; `ImplementsLedger`:
  every step is a ledger step or a stutter; `WeeklyBounded`: the weekly score never
  exceeds the lifetime score.
* `TotalsAreSums`, `MissesAreCounted`, `MissesAreListed`: totals and misses are the
  sums over the saved sessions, and a miss is listed in the step that saves it.
* `WeeklyIsHistory`, `MasteredIsExact`, `TwoHitsAreCleared`, `MasteredLeavesList`: for a
  user who sends one request at a time, the weekly score is the sum over the sessions of
  the current week, `masteredCount` is the number of mastered elements, no weak row keeps
  two hits, and no mastered element is on the list.

None of these is inductive. `IInv` adds what a request has in hand at each statement
(`Working`), mutual exclusion of the row locks (`Locks`), and `Pending`: the statistics row a
request has written but not committed is the committed row plus its own session.
`Pending` survives other requests' steps because nobody can commit a statistics row
while another holds one. `MissesAreCounted` needs the same of weak rows (`PendingWeak`).
`StatementShape` and `RequestShape` reduce the statements to three shapes (finish, move
on, write the row). Sums over sequences are folds of the community modules, unfolded by
`SetTheorems`: the library's induction theorems take an operator as a parameter, which no
installed prover can instantiate, so induction over a finite set's size is carried out
there once with sets (the set of sizes for which the statement holds), and the rest
cites its lemmas.

The last four theorems assume `Alone` (no two requests; the jobs, a login and a deletion
from the weak list still run between any two statements), because each of the
properties is false with two requests (sections 5 and 6); `WeeklyIsHistory` also assumes
`JobLag = 0`, a reset job that runs at its scheduled time. `Timely` says that sessions
are saved in the order of their `playedAt` and none after a request's `now`; `Turn` what
the only request has read, which is still what is committed. `WeeklyInv` says of each
statement which week's sum the row is about to hold, `MasteredInv` that the counts before and
after are those of the committed history without and with the session in hand, and
`HitsInv` that `consecutiveHit` counts the right sessions since the last miss, or since
the row was added, so that the row and the rule of the latest two sessions agree.

`UserProofs` (the components of `MCUsers`)
* `HistoriesAreKept`: `HistoryKept`, from the theorems above through instances; for the
  games that race for one element, or ask it twice, also `MissCountExact`, by the lemma
  `MissesNext`.
* `GamesAreEarnedFairly`: `EarnedFairly`. The questions ask every element as often as any
  other, up to one, and offer the right choice once among distinct others; the result is
  that of the answers in whatever order they are sent, with its longest run; read back it
  is the same; and a streak is no longer than its days earn.
* `ReadsOfGamesAgree`: `ReadsAgree`. A scan of masteries by pages gives each element the
  status of the history when no session is saved meanwhile; whatever is saved, it calls
  mastered only what was answered right at some moment since it began, not mastered only
  what was not mastered at one, and nothing unlearned that was played before. The ranks of
  a list are those of its scores, and the caller's rank is off the one in the list by at most
  the rows written between the statements, if the caller's own is not among them;
  every answer about a row of counters is one the client accepts, with the same rate.

Each part has an invariant of its own. `QuizInv` says which elements are drawn, that the
drawn and the remaining ones are the candidates, and how the questions built so far go round
the drawn ones; that the longest run is right is an induction over the answers inside
one step. `StreakInv` counts the days that earned (`Earning`) both for the row and for
the copy a login has read. `ScanInv` says of each element which outcomes of which
sessions a scan has seen, and that sessions saved meanwhile only push the rest further
back, so that a page may repeat a session but skips none that was there at the start;
`ScanMoments` names the moments at which what was seen was so.
`RankInv` ties the list and the rank to the rows as long as nothing was written beside
the request, and then to the rows not written (`ListNear`, `MineNear`): the users ahead
in the list and the users counted above the caller are the same but for written rows. `RepliesPart` bounds the numbers of a row.
The lemmas they rest on are about the k-th of a finite set of numbers, putting two sets one
behind the other, inserting into and cutting sequences without repetition, quotients and
remainders, and runs of right answers. The modules are written for this: a filtered
sequence is the list of the k-th place that fits, a ranking the list of the users with
i - 1 others before them, and a fold over the answers a function of their number. What the
theorems assume of the constants is `InstancesAssumption`, the assumptions of the
modules: weak lists without repetition, at least as many candidates as choices,
positive sizes.

`AccountsProofs`
* `AccountsTyped`; `SelfDeletion`, from `Fresh` (a row not touched since the
  snapshot is still the row of the snapshot) and `Checked` (what a transaction about to
  commit has decided); `RoleChanges`, the same way (a role changes only on an active account).
* `LastAdministrator`, `Deleter`: if nobody can be locked (`Lockable = {}`) and an
  administrator is usable at the start, one always remains, and whoever deletes still is
  one. `Guarded`: a removal about to commit, whose row is untouched, leaves another
  administrator unless a removal that counted has committed since; then the two read and
  overwrote each other's rows, and the commit fails. The hypothesis on locks is needed
  (section 5, *locked*).

`AuthServiceProofs`
* type correctness, no session after a suspension or of another account, one session for a
  login, one password for a reset link, and a password change that knows the hash it
  replaces; from which rows a request holds locked and what it read of them at each
  statement.

`PagesProofs` (the browser: `AuthStore` and the pages of `MCPages`)
* `StoreTypedAlways`; `NeverLoggedOutByAnotherTab`: with the Web Lock the jar holds a live
  token whenever no refresh is under way, and the one under way holds the lock and the
  token it sent; `CancelledRefreshes`: a refresh carries the generation it began with, and
  each login, logout or page load has moved on from it.
* `PagesStayTyped`, `PagesShowWhatWasAsked`, `PagesKeepNothingOfOthers`, `PagesInOrder`,
  `PagesSignsEnd`: the five properties of the pages, for any users, filters, sessions, sets
  and bounds.

The five follow from one invariant, `PagesInv`, with a part for each page. A page shows
the right thing because of what is known of calls that are not answered yet, so each part
says this of a call: with which key, session or number it was sent, and that it is either
aborted or still the one the page waits for (`KeyedControl`, `PagedControl`, and the call's
relation to what the effect saw last, `KeyedSeenOnly`, `PagedAsked`). Of an answer that is
on its way it says what the server guaranteed when it was made, in terms that survive
games saved meanwhile (`PagedAnswered`: the page falls, leaves out nothing above its last
row and ends at its cursor); `PagedFit` says the same of the rows shown, and appending an
answer that begins below the cursor keeps it. For a game, `GameTries` bounds the submissions
counted by the commands spent, and `OwnKept` ties a result kept to the session its user
saved. `PagesInv` was model-checked before it was proved.

`RetentionProofs`
* `Typed`; `Thorough`: success leaves nothing due; `ReportsAddUp`: what overlapping
  runs report adds up to no more than what was deleted, and to exactly it while none has
  failed. The invariant accounts for every batch between its deletion and its count.

`ServerProofs` (`MCServer`: rate limiting and the other components together)
* `Typed`, `Counting`, `Waiting`, and `Refinement`: the Durable Object with its late
  or repeated alarm implements `FixedWindow` for each key. The mapping forgets a row whose
  window has ended; the invariant says that an alarm only ever removes such rows.
* `PagesAreToldTruly`: `ToldTruly` for every chain of middleware and every client.
* `WhatIsReportedHappened`: a success row of the audit log has its change and a change its
  row (`Trail`), the campaign's decision was earned by stages of its own (`Release`), the
  measured deletion reports the rows that are left (`Measure`), the paged list shows every
  user who was there throughout once (`List`), and what `Retention`'s theorems say (`Cleanup`).
* `CountersKept`: the map of counters forgets a window only when it is full of live ones,
  and stays within its size.
* `CommandsTold`: a rehearsal replaces its fixtures as a whole, `create-admin`'s exit code
  is true, and `SelfDeletion` for users who can be locked.

Proofs already given for a module are used through instances
(`LockFacts == INSTANCE AccountsProofs WITH ...`), whose assumptions are proved from those
of `MCServer`.

**Model-checked only.** `RunsEnd`, `RequestsEnd`, `EveryCallAnswered`: liveness under
fairness is outside the prover's reach. Every
invariant and every action property of the passing runs is the statement of a theorem.

## 5. Where the code departs from its documentation

Each has a run whose counterexample shows it; `PROJECT.json` quotes the lines.

* `weekly`: a submission whose `now` lies before the week boundary replaces the new
  week's score, since the update asks only whether the weeks differ
  (`game.service.ts:681`).
* `logout`: a rotation that commits beside the deletion of all tokens leaves its new
  token behind (`auth.service.ts:612`).
* `login_stands`: the refresh of the page load, aborted by a login while its body is
  read, clears the login (`auth.svelte.ts:344`).
* `sync_failure`: the reload after a change fails while access is being checked, and the page
  stays on checking without the retry the plan promises (`admin/+page.svelte:570`).
* `period`: switching the ranking away and back leaves the other period's list shown
  (`ranking/+page.svelte:60`).
* `campaign`: the access token may expire while the campaign waits for rate limits, and
  the game stage fails as if the release were at fault
  (`stagingReleaseCandidateCampaign.ts:434`).

## 6. Observations, and what is not modelled

Seen while modelling, each without a run of its own; those with a named definition can be
checked by naming it in a configuration.

* *Mastered count*: of two concurrent submissions on one element neither sees the other's
  session, and the difference is lost from `masteredCount` (`game.service.ts:922`);
  `MasteredCountExact` fails with two requests.
* *Hits*: two right submissions both read `consecutiveHit` 0 and both increment, and the row
  stays with 2 (`game.service.ts:554`); `TwoHitsClear` fails with two requests.
* *Modes*: normal games clear weak elements too, the docs name weak games only
  (`OnlyWeakGamesClear`).
* *Locked*: a failed login locks the remaining administrator between the count and the
  commit of a suspension, and no usable administrator is left (`AdminRemains` with
  `Lockable` not empty). With a request already admitted the suspended administrator may
  then suspend the locked one without counting.
* *Mastered twice*: a session saved between two pages of the scan shifts them by one, and
  an element is taken as mastered by one session read twice (`MasteredTwice`,
  `element-mastery.service.ts:88`; `docs/04_api.md:254`).
* *Logout*: a call sent before a logout and refused with 401 after it begins a refresh; the
  cookie is still there until the server has handled the logout, and the tab is signed in
  again (`LogoutStands`).
* *Scores*: the time and streak bonuses of `docs/01_features.md:80-83` are not in the
  code, and wrong choices are always the first candidates by id (`docs/01_features.md:88`).
* *Streak*: a game saved before the login of a day keeps the streak from growing
  (`auth.service.ts:448`).
* *Failure counter*: it is written as an absolute value read before the comparison, so
  concurrent failures count once (`auth.service.ts:350`); and a mail that fails deletes the
  user's newer link (`:562`). A registration of an unverified address replaces its password
  even if the address is verified in between.
* *Audit*: `actorRole` is the role the request began with, not the one at the time
  (`docs/plans/audit-log/plan.md:144`).
* *Staging*: the campaign's evidence calls an account present without having seen it
  (`m2-staging-release-candidate-campaign/plan.md:468`); an end-to-end fixture whose identity
  somebody else has taken can be neither prepared nor removed.
* *Auth store*: a reload during the refresh of a page load, or a lost answer to one,
  logs out; a retry click may stay on `initializing`; a second 401 may clear a newer login;
  a call may be sent again as the user who logged in meanwhile.
* *Pages*: theme tabs may disagree for good when two write at once (`TabsAgree`); the
  signs `isListLoading` and `isPageLoading` of the administrators' page may stay set, and a
  conflict after a refresh leaves it on checking; two deletions at once leave the weak page
  with a sign; a game sent again, or a weak element deleted again, after a lost answer is
  told 409 or 404 although it was done; the list of users shows a weekly score
  without looking at its week.

Not modelled: drawing and wording, form validation of strings and dates, configuration
and wiring evaluated once at start, the seed data and the filter over them, the cron
expressions, the read-only inspections of production, the cases of the staging rate limit
evidence outside `AUTH_IP`, and the formatting of reports. None keeps state whose order
matters.

## 7. What could come next

The plan of this project is done: every component whose state has an order that matters is
modelled, and what its runs check as an invariant or action property is proved. Two
things are left to whoever extends it: the cases of the staging rate limit evidence
outside `AUTH_IP`, which would be a module beside `Campaign`, and a property for the one
hazard without one, `forgotPassword` deleting a newer reset token when its mail fails
(`auth.service.ts:562`).
