# The site crawler in TLA+

This directory holds a model of the production site crawler, the instances of it
that TLC checks, and theorems about it that TLAPS checks. Paths such as
`worker/worker.ts` are below `src/src/` and `docs/ARCHITECTURE.md` is below
`src/`, as they appear in `PROJECT.json`, which maps each definition to the lines
it models.

## 1. The system

A *run* crawls one site from a seed URL. Its state is in PostgreSQL, so that a run
survives the process that works on it. One Node.js process creates or resumes the
run, starts `concurrency` asynchronous workers, waits for all of them and writes
the run's final status.

| Component | Source | State it keeps | Operations | What makes it correct |
|---|---|---|---|---|
| Frontier | `frontier/` | `crawl_urls`: status, attempts, redirects, next attempt, depth of each URL | enqueue, claim, six outcomes, self-redirect requeue, recover, three counts | a row is held by one worker; a settled row stays settled; nothing claimable is forgotten |
| Admission | `enqueueUrl`, `db/pool.ts` | `crawl_runs.urls_enqueued` | one transaction of several statements | the counter is the number of rows; bounded overshoot; every call returns |
| Worker | `worker/worker.ts`, `edgeTarget.ts`, `outcomeMarkRetry.ts`, `SafetyLimits.ts`, `ResponseClassifier.ts`, `classifyProcessingError.ts`, `RetryPolicy.ts` | its claimed task, consecutive failures; shared flags `shutdownRequested`, `limitReached`, `run.totalBytes` | loop: flags, rate limiter, claim, fetch, links, edges, outcome, bytes; or three counts and a poll | no link is lost; attempts are bounded; it stops when told, and only when nothing is left |
| Worker pool, finalization | `worker/WorkerPool.ts`, `CrawlRunService.finalizeRun` | signal handlers, heartbeat timer | run the workers, judge, write the status | a run reported complete is complete |
| Run lifecycle | `run/` | `crawl_runs.status`, limits, `total_bytes`, `updated_at` | create, resume, take over, recover | one process at a time; completed runs are final |
| Edges | `content/EdgeRepository.ts` | `url_edges` | upsert | an edge for each link of each done page |
| Content and storage | `content/`, `storage/` | files, `contents` | store, extract | file and row agree |
| Rate limiter | `worker/RateLimiter.ts`, `retryAfter.ts` | end of the common pause | wait, lengthen | a pause is never shortened, and every wait ends |
| Fetch client | `fetch/` | none | one request with a timer | every request ends, whatever the headers do |
| URLs | `url/` | none | normalize, scope, hash | one row per page |
| Command line, configuration, status, log, migrations | `cli/`, `config/`, `status/`, `log/`, `src/migrations/` | none of their own | | |

The components interact in three ways. Workers share the tables: what one enqueues
another claims, and what one holds in progress keeps the others polling. Workers
share the memory of the process: two flags and a byte counter, read before a claim
and raised after a failure to admit. And each statement, fetch and timer is an
`await`, where every other worker may run.

What is hard here: decisions taken on several queries of different times (leaving
the loop, the verdict of a run); values read before an `await` and used after it
(flags, attempts, the byte counter); writes that nothing fences (`UPDATE ... WHERE
id = $1`); a page whose links, edges, outcome and bytes are separate statements;
statements that fail, or whose answer is lost and that are then repeated; a process
that dies between any two of them; two lock waits inside admission; several processes
that tell by the age of a row whether another one lives; timers that overlap, fire
early or are cleared too soon; two clocks; a file and a row that describes it. `PROJECT.json`
lists these hazards at their lines with the properties that cover them.

## 2. Modules

| Module | What it is |
|---|---|
| `Frontier` | the tables, one operator per repository method |
| `Pool` | the workers, the pool and the life of a run over several sessions; EXTENDS `Frontier` |
| `WorkQueue` | what the frontier promises to the workers that share it |
| `PoolProofs` | theorems about `Pool`: types, ownership of rows, the end of a run |
| `PoolDiscoveryProofs` | links, retries and drops; EXTENDS `PoolProofs` |
| `PoolLimitProofs` | budgets, bytes, settled rows, the work queue; EXTENDS `PoolDiscoveryProofs` |
| `MCPool` | the sites and symmetry of the instances of `Pool` |
| `AdmissionSpec` | what `enqueueUrl` promises |
| `Admission` | `enqueueUrl` statement by statement |
| `AdmissionProofs` | theorems about `Admission`, refinement included |
| `MCAdmission` | its instance |
| `Lease` | what the row of a run promises to the processes that work on it |
| `Limits` | the four limits: options, environment, and what counts as an increase |
| `Lifecycle` | several processes on one run, in time; EXTENDS `Limits` |
| `LifecycleProofs` | theorems about `Lifecycle` |
| `MCLifecycle` | its instance |
| `Fetching` | the worker loop in time: waits, pauses, request timers, retries |
| `FetchingProofs` | theorems about `Fetching` |
| `MCFetching` | its instance |
| `UrlRules` | resolution, normalization and scope of URLs |
| `UrlRulesProofs` | theorems about keys, for all URLs |
| `ContentStore` | one page from its link to its file; EXTENDS `UrlRules` |
| `ContentStoreProofs` | theorems about `ContentStore`; EXTENDS `UrlRulesProofs` |
| `MCContentStore` | its instance |

Definitions whose name begins with `Bug` are not part of any specification: each is
a plausible mistake in the code of the definition that follows it, kept to show
that the properties notice it.

The modules divide the program by what their properties need. `Pool` has every
statement of a session and no time; `Fetching` has the same loop with its timers and
none of the failures; `Lifecycle` has several sessions at once and a frontier of one
page; `ContentStore` has the disk and one page. Where one relies on another it says so:
`Pool` on `Admission` for the atomicity of `enqueueUrl`, and on `Lifecycle` for one
process at a time (`OneOwner`); `ContentStore` on `Pool` for one worker on a row
(`ClaimExclusive`).

### Frontier and Pool

An action of `Pool` is what a worker does from one `await` to the next, the
statement it waits for included. `pc[w]` names where worker `w` waits:

| `pc` | In the code |
|---|---|
| `top` | head of the loop: `Stop` or `Proceed` (flags and `SafetyLimits.shouldStop`) |
| `claim`, `lock` | `claimNextUrl`: `LockRow` is the SELECT, `CommitClaim` the UPDATE and COMMIT, `FindNone` the null answer |
| `countInProgress`, `countFutureRetryable`, `countQueued` | the three counts, in the order of the code; the last decides (`DoCountQueued`) |
| `fetch` | `processTask`: `FetchDirect` (settled by one mark), `FetchPage`, `FetchRedirect`, `FetchThrows` |
| `links`, `redirect`, `edge` | `resolveEdgeTarget` and `applyEdgeDecision` (`Resolve`), then `recordEdge` (`RecordCandidate`), link by link |
| `mark`, `bytes` | the outcome with its bounded retry, then `addBytes` |
| `remark` | the outcome the catch block writes; its last failure ends the worker |
| `exited`, `crashed` | left the loop, or threw out of it |

The variables are the tables (`urls`, `enqueued`, `maxUrls`, `edges`, `runStatus`,
`totalBytes`), the memory of the process (`task`, `out`, `todo`, `cand`, `tries`,
`busy`, `shutdown`, `limit`, `memBytes`), the clock as far as it matters (`next` of
a row, `expired`), and `phase`, which follows the process from creation (`seeding`)
or resume (`recovering`) over `live`, `finalizing` and `fallback` to `down`.

Each statement answers `ok`, `failed` (no effect) or `lost` (it had its effect, the
answer did not arrive). `Crash` may happen in any phase of a process and loses
everything but the tables.

What is abstracted:

- A site is data: `Links`, `Location`, `Answers`, `OutOfScope`. `Links[u]` is what
  the handler of `u` yields, after normalization; the sources of a link in a page
  (`a.href`, `img.src`, ...) are one source, and a link listed twice counts once. A
  handler that throws yields a page without links in the code
  (`HandlerContentProcessor.ts:63`); that case is a site whose page has none.
- Fetching and storing a page is one step; every page counts one byte.
- A statement fails for a reason the code calls retryable: the two constraint
  errors of `classifyProcessingError` do not arise in these statements. A bug of
  the processing (`TypeError`) and a storage error are answers of their own.
- `max_urls` may change at a resume; the other limits are constants. `max_urls`
  unlimited is a value that no instance reaches.
- Links of a page are walked in any order, which includes the order of the code.
- `enqueueUrl` is atomic in `Pool`, with the slack that `Admission` justifies.
- One process works on a run at a time.

`WorkQueue` says what the frontier promises the workers, in two variables: the state of
each URL (absent, ready, waiting, taken, settled) and what each worker has in hand. What
is taken once is taken by nobody else until the worker that has it settles it or gives
it back, now or for later; what a dead worker had becomes ready at the next start, when
no worker has anything, and not before. A worker may drop what it has only once it is
settled; failures allow it two things more: to drop a URL unsettled (the worker ends
with its row in progress, run `crashed`) and to change its mind about one it had settled
and still has in hand (run `reopened`). `ImplementsQueue` is the refinement. A worker has
a URL in hand from the commit of its claim to its last write; statements, counts, links,
edges and retries of outcomes are gone. Where answers are lost it is false, for the
reason run `lost_ack` shows.

### Admission

`Gate`, `Insert`, `Bump`, `Commit` and `Lookup` are the statements of
`enqueueUrl`; `Abort` rolls back anywhere. PostgreSQL's part is modelled from how
the code relies on it: the gate reads the committed counter without a lock, an
insertion waits for another transaction's entry of the same URL, the increment waits
for the lock of the run's row. `AdmissionSpec` has one step per answer, and
`ImplementsContract` is the refinement, with `call <- arg`.

### Lifecycle and Limits

A process is in one of the phases `idle`, `marking` (it has read the run and not yet
updated it), `seeding`, `recovering`, `live`, `finalizing` and `fallback`; `Owns(p)`
says that it is in one of the last five, where it may write to the frontier or end the
run. `Read` is `resumeRun` up to its decision, `MarkRunning` the conditional update with
`Matches` as its WHERE clause, `Recover` the reclaiming of rows, `Heartbeat` the
interval timer. `age` is `now() - updated_at`, and every statement that sets
`updated_at` sets it back to 0. `cut[p]` is `now() - staleBefore`: it grows while the
process is on its way to the update, and differs by up to `Skew` from the age that was
asked for, because `staleBefore` is made by another clock.

The clock does not pass a timer that is up: a process takes the step of a phase
without heartbeat within `Delay`, and heartbeats in time, of which some may fail as long
as `MaxLate` is not exceeded. With `Suspends` a process may be held up for any time and
becomes `tardy`. `LifecycleAssumption` says what "comfortably above" in
`docs/ARCHITECTURE.md:351` has to mean: `StaleAfter >= Interval + MaxLate + 3 * Delay +
Skew`. The three delays are the recovery, `finalizeRun` and the update of the process
that takes over (or the fallback), in none of which a heartbeat runs.

`Lease` says what all this amounts to, in three variables: the status, who holds the
run, and who of them has missed a time. A run is taken while it is stopped, or when all
that hold it are overdue; it is ended by one that holds it, late or not; a process that
does not learn that it holds the run does not hold it. `ImplementsLease` is the
refinement: `holders` are the processes that own the run, `overdue` the tardy ones. The
heartbeats, ages, readings and limits are gone, and so is every reason for which a
process may believe what is no longer so. It is proved for suspended processes and lost answers
too, where `OneOwner` does not hold; the run has neither.

`Limits` has the parsers of `cli/crawl.ts` and `config/env.ts` on arguments that are a
number or one of a few words, with the empty string as the number 0 that JavaScript
makes of it. A value from the environment reaches a run without being parsed
as an option would be, because Commander does not parse defaults. Fractions are left
out.

### Fetching

Where a worker waits: `delay`, `paused` and `poll` are its own timers, `headers` is
`fetchImpl` with the abort timer, `body` is `response.json()` without one, `claim` and
`mark` are statements. `pause` is what is left of `pausedUntilMs`, `due[u]` of
`next_attempt_at`, and so on: times count down, so that the model is finite.
`SetTimeout` fires after one unit when the delay is out of its range. `Decide` fixes
an outcome with its delay at the answer; `Mark` writes it, possibly much later, for
another clock to compare. `Restart` is a crash and a resume: rows keep their times, the
pause is gone, and so is a 429 that was heard and not yet written. `quiet`, `asked`,
`lost` and `begun` are history variables of the properties: `asked` is set where a
Retry-After is heard and not where it is written, and `lost` names the URLs whose
Retry-After died in between with the process that heard it.

### ContentStore and UrlRules

The row of one page (`row`), the place of its worker (`pc`), the files on disk and the
row in `contents`. `OpenFile` and `WriteFile` are the two halves of `writeFile`, which
truncates before it writes; `SaveFails`, `InsertFails`, `MarkFails` and `AddBytesFails`
are the failures that lead through the catch block to another attempt; `Crash` may come
between any two steps, and recovery is part of it. A page may answer another type or
body each time, so that it may have files at several paths. `served` (the answers the site
has given) and `last` (the latest of them) are history variables: no action reads them,
and the properties need them to say what the disk should hold.

`UrlRules` works on parsed URLs: scheme, host, port (0 when not written), path, the
number of slashes after it, parameters, fragment. `Normalize` follows the code step by
step (scheme, fragment, slashes, sorted parameters); the sorted parameters are some
arrangement of them (a bijection of their places) in which none comes before its
predecessor by `Before`, the comparison of the code, and those that compare equal stay
in their order, since the sort is stable. A name or value is a place in the order of
`localeCompare` and a spelling: different texts may compare equal, as two encodings of an
accented letter do. `SamePage` says what one page is, without order or steps, and
`OneRowPerPage` compares the two.

## 3. Runs

| Run | Instance | Shows |
|---|---|---|
| `pool_outcomes` | 2 workers, 5 URLs, room for 3, `max_bytes` 2, every answer that is not an exception, signals; no faults | the safety properties in ordinary operation, and the limits reached by all workers together |
| `pool_faults` | 2 workers, 2 URLs, 3 failing statements, crashes, runtime limit, 2 sessions | the same under failure, restart and resume; the frontier is a work queue |
| `pool_liveness` | 2 workers, 2 URLs, 2 failing statements, signals, runtime limit | the pool ends |
| `admission` | 3 callers, 4 URLs, room for 1 | counter, overshoot, refinement, and every call returns |
| `lifecycle` | 2 processes, 4 command lines, failing statements and heartbeats, crashes, clocks that differ by 1 | one owner, a lease; only the dead are taken over, and they are in the end |
| `fetching` | 2 workers, 2 URLs, pauses of 0, 1, 2 and 3, timers of at most 2, restarts, signals | pauses, Retry-After and shutdown |
| `content_store` | 1 page, 9 addresses, 3 types, 2 bodies, 3 attempts, 2 redirects, crashes | one row for one page; done means stored |
| `drained`, `reopened`, `lost_ack`, `crashed`, `content_described` | the smallest instance with the case (the last: that of `content_store`) | disagreements with the documents, section 5 |

The properties, each with the question it answers:

- `ClaimExclusive`: do two workers ever hold one row, between the row lock of the
  claim and the last write of its outcome?
- `InProgressOwned`: is a row ever in progress without a worker, in a live pool?
  Such a row would keep all others polling.
- `DiscoveryComplete`: does a done page have an edge for every link, and is every
  edge without a skip reason an admitted row, whatever failed in between?
- `NoQueuedLeft`: can a run be reported complete with rows queued or in progress?
- `RetryAwaited`: can all workers leave of their own accord while a retry is still
  in the future?
- `AttemptBudget`: do attempts and redirects stay in their bounds, although they
  are decided on the row as it was claimed, and recovery intervenes? (The site of
  `pool_faults` has no redirect; for redirects under failure the theorem answers.)
- `ImplementsQueue`: is the frontier a queue in which what a worker has is its own until
  it gives it back? Its writes name a row and neither its status nor an owner; a second
  session recovers rows, and outcomes are written more than once.
- `BytesMatchDone`: is each done page counted once?
- `BytesCountedOnce`: is a page ever counted twice, or counted and then not done, when its
  worker fails or dies between the outcome and the counter, and it is fetched again? (A
  crash in between leaves it uncounted, so that `BytesMatchDone` asks for none.)
- `SettledIsFinal`, `CompleteIsFinal`: do settled rows and completed runs stay so?
  (`CompleteIsFinal` is asked of one process at a time in `Pool`, and of processes that
  judge on an old reading of the run in `Lifecycle`.)
- `ByteOvershoot`, `DropsReported`: how far is `max_bytes` passed, and is a dropped
  link always reported as `limit_reached`?
- `PoolEnds`, `StopEnds`, `CallsReturn`: does it end?
- `CounterMatchesRows`, `Overshoot`, `ImplementsContract`: is admission what the
  rest assumes?
- `OneOwner`, `PageExclusive`: do two processes ever work on one run, or on one page,
  although recovery takes every row in progress from whoever has it?
- `ImplementsLease`: is the row, which names no holder, a lease all the same? Each
  process acts on what it read before, the clocks differ, and the last resort overwrites.
- `TakeoverOfDead`: is a run ever taken over from a process that keeps its timers?
- `ResumeRaises`: is a run that stopped at a limit resumed only with more room, with
  unlimited, zero, empty and absent arguments on either side? It speaks of a run
  that did not move between the reading and the update: the update asks for the status
  alone, and a run that was resumed with larger limits and stopped again in between is
  taken on the old judgement.
- `CrashedResumable`: is a run whose process died taken over in the end, though
  attempts that are refused go on all the time?
- `PauseOvershoot`: how many requests may a worker begin in a pause? One, if it had left
  its wait when the 429 came; the pause is not re-read between the wait and the
  request.
- `RetryAfterHonoured`: is a URL requested before the Retry-After last heard for it is
  over, through slow marks, two clocks and restarts? Only if the process that heard it
  died before it had written it: the row is reclaimed as `queued` without a
  `next_attempt_at` and requested at once. The property names this exception (`lost`), and
  is false without it. A write of the 429 that fails every time has the same effect, the
  catch block writing a backoff instead; statements do not fail in `Fetching`. The
  documents promise nothing of either case ("respect `Retry-After`",
  `docs/ARCHITECTURE.md:262`).
- `WaitEnds`: does every wait end, however often others lengthen the pause? It does
  because an answer takes at least a unit of time to arrive and the workers that could
  lengthen the pause are themselves in it.
- `ShutdownEnds`: does a signal end the pool though it is not looked at inside a wait?
- `OneRowPerPage`: do two spellings of a page have one key, and two pages two? Two pages
  always have two. Two spellings have one if `localeCompare` tells the parameters apart
  (`ToldApart`); a page found with different parameters that compare equal in two orders
  has two keys and is fetched twice, and without the condition the property is false.
- `FetchedIsKey`: does a row stay the row of the URL it fetches, over redirects to
  itself?
- `DoneStored`: is a done page whole on disk, and in `contents`?
- `TrueIfUnchanged`: does `contents` describe the file, if the site always answered
  the same? (`RowDescribesFile`, without that condition, is false: section 5.)

**Bounds.** `MaxFaults` bounds the statements that fail, `MaxSessions` the
processes of `Pool`. Two workers are enough for the races on a row, which have two
parties, and reach `max_bytes` with one page in flight; three callers show the overshoot
of admission. Two failing statements reach each `MarkAttempts` and `MaxInfra` used with
them, three also a failure after a retry. Two sessions contain a crash, a recovery and a
second end. In the code `MAX_CONSECUTIVE_INFRA_FAILURES` is 5, `withOutcomeMarkRetry`
tries 3 times, `max_attempts` is 5 and `MAX_REDIRECTS` is 10; the instances use 1 or 2 of
each (`content_store`: 3 attempts and 2 redirects), so that both sides of every
comparison are reached. `SYMMETRY` (permutations of workers) is used by the larger safety
runs only.

`Lifecycle` and `Fetching` need no bound on steps: ages stop at `AgeCap`, beyond every
value they are compared with, and other times count down. Two names of processes are used
again and again, so that any number of processes may try one after another and two at a
time; a race for the update has two parties. `StaleAfter` is the smallest value the
assumption allows, so that every slack is used up in some behaviour. In `fetching` one
Retry-After is longer than `LongestTimer`, two overlap, and `Jitter = 100` spans the
backoff from 0 to twice its length. The nine addresses of `content_store` include one
page with each scheme and its default port, the other scheme's port, slashes, repeated
parameters in two orders, parameters that compare equal, a fragment, another host, another
path and a scheme that is refused; `OneRowPerPage` compares the key with 720 URLs before parsing, those with two parameters
that compare equal, in either order, among them.

`CHECK_DEADLOCK FALSE` is in the configurations of `Fetching`, whose workers end, and
of `ContentStore`, whose page does: nothing follows. The others stutter at their end or
never end.

**Fairness.** `FairSpec` of `Pool` gives every worker and the pool weak fairness:
whatever a worker awaits settles, as the event loop, the connection and its timers
provide. A retry comes due, because the clock advances. Strong fairness of
`FetchSettles` says that a URL is not answered 429 for ever; the code retries a 429
without consuming an attempt, so without it no run need end. `Crash`, `Shutdown`,
`Expire` and `Resume` are never owed. `FairSpec` of `Admission` gives the two lock waits
strong fairness, since PostgreSQL serves the waiters of a lock in the order of their
arrival. `FairSpec` of `Lifecycle` lets time go on, takes a process from its
reading to its update, and says that somebody keeps trying to resume and is not met by a
failing statement every time: nothing in the code resumes a run by itself. `FairSpec` of
`Fetching` gives weak fairness to time, to what a worker does without the site, and to
the arrival of a body that has begun to arrive; the code has no timer for the body, so
without it `ShutdownEnds` is false. Of headers nothing is assumed: the abort timer covers
them.

`TypeOK` is checked in one run per component.

## 4. Theorems

Proved for every number of workers and URLs, every site and every value of the
limits, and for every number of processes and all times, from the
assumptions the modules name (`UrlsAssumption`, `PoolAssumption`, `AdmissionAssumption`,
`NoLimitAssumption`, `LifecycleAssumption`, `FetchingAssumption`, `ContentStoreAssumption`:
finite sets, positive limits, the threshold of staleness) and those named here:

- `AdmissionProofs`: `Invariance`, `TypeTheorem`, `CounterTheorem`, `OvershootTheorem`,
  `ContractTheorem`.
- `LifecycleProofs`: `Invariance`, `TypeTheorem`, `TakeoverTheorem` and
  `ResumeRaisesTheorem` and `LeaseTheorem` without further assumption; `OneOwnerTheorem`,
  `PageExclusiveTheorem` and `CompleteIsFinalTheorem` under `Prompt`: no process is
  suspended and no answer is lost. A suspended process does write on after a takeover,
  and a lost answer to `finish` makes the fallback overwrite a final status, so that both
  are needed.
- `FetchingProofs`: `Invariance`, `TypeTheorem`, `OvershootTheorem`,
  `RetryAfterTheorem`.
- `PoolProofs`: `TypeTheorem` without further assumption; `InductiveInvariant`,
  `ExclusionTheorem`, `OwnershipTheorem`, `NoQueuedLeftTheorem` and
  `CompleteIsFinalTheorem` under `~LostAcks`. With lost answers `ClaimExclusive` is
  false (run `lost_ack`), so the assumption is needed.
- `PoolDiscoveryProofs`: `DiscoveryTheorem`, `RetryTheorem` and `DropTheorem`, without
  further assumption: answers may be lost.
- `PoolLimitProofs`: `AttemptBudgetTheorem`, `ReopenTheorem`, `CountedOnceTheorem`,
  `ByteOvershootTheorem` and `QueueTheorem` under `~LostAcks`, over any failures, crashes and sessions;
  `SettledTheorem` also under `MaxFaults = 0` (no statement fails) and
  `BytesMatchTheorem` also under `MaxFaults = 0` and `~Crashes`. A failing `addBytes`
  reopens a done page (run `reopened`), and a crash before it leaves the page uncounted,
  so that both are needed; `ReopenTheorem` says that with failures that is the one way.
- `UrlRulesProofs`: `OneKeyPerPageTheorem` and `KeyIsStableTheorem`, for all parsed URLs.
- `ContentStoreProofs`: `TypeTheorem`, `DoneStoredTheorem`, `TrueIfUnchangedTheorem`,
  `OneRowPerPageTheorem` and `FetchedIsKeyTheorem`, without further assumption, for any
  addresses, answers and limits.

**Admission.** The counter alone is not inductive. `GateBound` counts the callers
past the gate: the counter and those callers together stay below the limit plus the
number of callers. `RowsPrivate` says that the URL of an uncommitted row is neither
committed nor in another transaction, which keeps the counter equal to the number of
rows. `LimitTrue` says that a caller at the lookup that does not find its URL is
right to answer that the frontier is full, which the refinement needs.

**Pool.** `IInv` is `TypeOK /\ Owned /\ Session /\ Drained`.

- `Owned`: the status of a row goes with the place of the worker that holds it
  (`HeldStatus`: claimable while it is locked, in progress from the claim on, done
  while its bytes are added, and either of these in the catch block), held rows are
  distinct, and a row in progress has a holder. Each part needs the
  others: a worker may lock only a claimable row, a claimable row has no other holder
  because held rows are not claimable, and a write moves the row of its own worker
  because no other worker holds it.
- `Session`: what the workers are in each phase (`Resting`), that no row exists
  before the seed (`Unseeded`), and that the stored status is `running` from the
  start of a session to its last write (`RunningInSession`). It says that `Finalize`,
  `Crash` and `Resume` never meet a half-finished pool with a completed status.
- `Drained`: why a completed run has nothing left. When every worker has left and no
  stop flag is up, nothing is queued (`LeftDrained`): the last to leave did so on
  `countQueued`, its last query, and by then nobody else could queue a row. Nothing is
  in progress either, by `InProgressOwned`: the workers that left hold nothing. So the
  order of the three queries matters, and the last one is the one that counts; the
  first two protect retries (`RetryAwaited`) and the other workers' rows.
  `JudgedDrained` carries the fact over `finalizeRun` to the stored status. A retry
  that is due is not covered: that is the disagreement of run `drained`.

The proofs of `PoolProofs` have a typing lemma for each kind of step, one lemma (`OwnStep`) that
collects what a worker's step does to the rows of other workers, one for the ways a
worker may leave (`WorkerExit`), and one for each of the process's own steps.

*Links, retries, drops.* These three need no ownership, which is why lost answers do not
matter to them. `WalkInv` relates what a worker has still to do (`todo`) to the table: the
links of its page that are not in `todo` have an edge (`WalkedLinks`), it is about to
write `done` only when nothing is left to do, and what it is about to record is
`Justified`, by an admitted row or by the reason it gives. It is preserved because edges
and rows never disappear (`Grows`) and because no step but a worker's own outcome makes a
row done or redirected (`NewlyWalked`). `Awaited` says that a retry in the future has a
worker that has not left and will not on what it has counted so far (`Waits`): the one
that wrote the retry comes back to the loop itself, and `countFutureRetryable` sees the
row as long as it is in the future. `DropsFlagged` carries a dropped link from the flag
it raises, before its edge is written, to the verdict and to the stored status of the
first session.

*Budgets.* `CountsKnown` says that the counts a worker took with its claim are still
those of its row, which needs `Owned`: nobody else writes to it. `Decided` keeps a
decision within the budget until it is written; recovery changes neither count.
`WorkerWrites` collects what a worker's step does to the rows: it admits an absent one,
claims the one it has locked, or writes the outcome of the one it holds.

*Bytes.* A worker *owes* a page that it has written as done and not counted. `BytesCovered`
says that what is counted and what is owed are at most what is done; a step moves one
page from owed to counted, or from done to another status while it is owed (the catch
block), so that a page fetched again is never counted before (`Moved` lists these
cases). For `max_bytes`, `RoomForPast` counts the workers past the check of
`shouldStop`: total and those together stay below the limit plus the number of
workers; it needs `MemoryExact`, that the counter in memory, which the check reads, is
that of the row.

*The queue.* Each step of a worker or of the process is a step of `WorkQueue` or none
(`QueueMove`, `QueueStep`), by lemmas named for what the step is there (`QueueTake`,
`QueuePut`, ...). Most follow from `Owned`: a worker that writes an outcome has a row that
is in progress, or done in the catch block. Two facts are added to `IInv`. `Dated`: a row
that is locked or in progress is due, so that a claim takes what is ready, and recovery
makes ready what was taken rather than waiting; nobody puts a row off but by its outcome
(`PutOff`). `CaughtInProgress`: where no statement fails, the catch block finds its row in
progress, so that nobody changes its mind. That `Recover` finds no URL in hand is
`Resting`.

**Lifecycle.** `IInv` is `Types /\ Timely /\ Patient /\ Raising`. `Timely` bounds the
age of the row while a process that keeps its timers owns the run: age plus what is left
of its timer is at most `Reach`, which adds up along the phases: one `Delay` after
the update, then an `Interval` and the time of failed heartbeats, then a `Delay` for
`finalizeRun` and one for the fallback. `Patient` says that a process on its way to a
takeover asks for more than `StaleAfter - Skew`. The assumption puts one above the other,
so `Matches` is false while such an owner lives: that is `TakeoverTheorem`, in which
`WinnerMarks` shows that no other step wins a run. `Raising` keeps the decision of
`Read` to the update, for `ResumeRaisesTheorem`. `Sole` adds, under `Prompt`, that an
owner's run is `running` and that it is the only one, from which the other three follow:
the update from a status other than `running` finds no owner, and from `running` only a
dead one's run.

*The lease.* Each action of a process is a step of `Lease` or none (`LeaseMove`,
`EveryMove`). Two of them need more than their own guards. An update that takes a
running run needs `TakenLate`, the heart of `TakeoverTheorem`: those that hold it are
late. And the abstract `overdue` is a part of `holders` only because a process that owns
nothing is never tardy, which `Leased` adds to `IInv`.

**Fetching.** `IInv` is `Types /\ Held /\ Budget /\ Paused /\ Owed`. `Paused`: the
pause is the longest that was asked for, and a worker past its wait has begun no request
in it; it needs the loop of `wait`, which leaves only when no pause is left. `Owed`: what
is left of a Retry-After that was heard is left of the time a worker is about to write
(`Planned`), or of the row's time up to `Skew` (`Written`), until the row is claimed; or
its hearer died (`lost`). It needs `Held`, that a row in progress has one worker, so that
no other outcome takes its place. `RetryAfterTheorem` has the exception of the property: it
does not say that a Retry-After survives a crash between the answer and its mark.

**ContentStore.** `StoreInv` adds to the properties what a worker between two steps has
done so far (`InHand`): the answer it holds is the last one served, from `insert` on it is
whole on disk under the path of its type, and at `mark` there is a contents row.
`ContentServed` says that this row is that of one of the answers, whichever attempt
inserted it; with one answer only it is that of the last, and `DoneStored` makes the file
agree. Both are preserved because the key of the row, and so the path, never changes. A
worker that lets go of its row, by any outcome, failure or crash, has one lemma
(`SettleInv`). That the URL of a row keeps its key over redirects is carried by
`RowIsUrl`: it is a URL the rules of keys speak of.

**UrlRules.** `OneKeyPerPageTheorem` says of any two URLs that with one key they name one
page, and that, if they name one page and its parameters are told apart, they have one
key. It does not say that every page has one key: `localeCompare` is a preorder on texts,
and the order of parameters that compare equal survives into the key.
`KeyIsStableTheorem` needs no such condition. Every sequence of parameters can be put in
order (`AllSortable`), so that the choice in `SortedParams` is never arbitrary; two
sequences in order with the same parameters, told apart, are equal (`OrderedUnique`), so
that the order in which a page repeats them does not matter; and a sequence in order is
left as it is (`SortedAlready`), which is where stability counts. These are statements
about all lengths, and would be inductions. Here the first takes the least length that
cannot be sorted (`LeastNat`, from the well-foundedness of `<`), and finds a shorter
one: the last parameter (`LastParam`) is put last. The second takes two sequences in
order and a place where one is smaller than the other: all the places up to it would be
matched with places before it, one too few (`OrderedOnce`, by `PigeonHole`). The third
takes the least place that a sort of what is in order would move (`OrderKept`). The rest is
field by field (`NormalizeFields`), the ports being the case that needs care: a port
443 that http has written is dropped when the scheme becomes https, and 80 when it is
parsed, before.

**Left to TLC.** Liveness under fairness (`PoolEnds`, `StopEnds`, `CallsReturn`,
`CrashedResumable`, `WaitEnds`, `ShutdownEnds`) is out of reach of the provers used, as is
`ENABLED`. Every invariant, action property and refinement of the passing runs is
proved; the properties of section 5 are false.

## 5. Where the code and its documents disagree

Each has a run that finds the violation; quotations are from `docs/ARCHITECTURE.md`.

1. `drained`. "repeat until frontier drained AND no work in flight" (line 26). A retry
   that comes due after the claim that found nothing and before
   `countFutureRetryable` is in none of the three counts. If the others have left,
   the run is reported `completed`, which is terminal, with an unsettled URL.
2. `reopened`. "`done` URLs are never reprocessed" (line 351). `addBytes` runs after
   `markSucceeded`; if it throws, the catch block writes `retryable_failed` over
   `done`.
3. `lost_ack`. "each URL processed at most once" (line 35). An outcome that was
   committed and is repeated for want of an answer may meet the row in another
   worker's hands.
4. `crashed`. "Infra failure finalizes as `failed`" (line 376). A worker that can write
   no outcome leaves its row in progress; the other workers poll for ever and the run
   is never finalized. `PoolEnds` therefore excepts a crashed worker, and `StopEnds`
   shows that a signal or a limit still ends the pool.
5. `content_described`. "sha256 of bytes: change detection + dedup signal" (line 178, of
   `content_hash`). The row of `contents` is inserted with ON CONFLICT DO NOTHING, the
   file is overwritten. If a later step of the page fails after the insertion and the
   next attempt gets another body, the row describes bytes that are gone.
   `TrueIfUnchanged` shows that the change of the page is the only cause: no failure or
   crash in the middle of a file leads there by itself.

`SettledIsFinal` and `ClaimExclusive` hold without the fault in question
(`pool_outcomes`, `pool_faults`).

## 6. Not modelled, and the plan

Not modelled: parsing of documents, decoding of bodies and headers, percent encoding
of URLs, status report and log (pure functions or I/O without state that others depend
on); command-line options other than the limits; fractions of limits; the connection
pool; the `subdomain_allowlist` policy, whose constructor throws; `recoverStaleInProgress`
and `updateStatus`, which have no caller; the share locks of foreign keys, because of
which SKIP LOCKED may pass over a row whose page is recording an edge; the migrations,
but for the keys the code relies on.

Hazards that `PROJECT.json` lists without a property have the reason in their note: the
documents promise nothing (the depth of a URL with several paths, links dropped at
`max_urls` after a resume), or the case is by design.

Next: the share locks of foreign keys inside `Frontier`'s `Locked`.
