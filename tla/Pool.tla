-------------------------------- MODULE Pool --------------------------------
(***************************************************************************)
(* One crawl run from its creation to its end, over several sessions of    *)
(* one process: the CLI creates or resumes the run, a pool of workers      *)
(* shares the frontier, and the pool finalizes the run.  The workers are   *)
(* asynchronous loops of one Node.js process: between two awaits a worker  *)
(* runs alone, and every await of a statement, a fetch or a timer lets the *)
(* others run.  So an action is what happens from one await to the next,   *)
(* the statement it waits for included.                                    *)
(*                                                                         *)
(* A statement answers "ok", "failed" (it had no effect) or "lost" (it had *)
(* its effect, and the connection broke before the answer).  A crash of    *)
(* the process loses everything but the tables.                            *)
(*                                                                         *)
(* Simplifications                                                         *)
(*  - the site is fixed: Answers, Links and Location of each URL;          *)
(*  - fetching a page and storing its content is one step;                 *)
(*  - every stored page counts one byte;                                   *)
(*  - the pauses of the rate limiter, of backoff and of polling are the    *)
(*    arbitrary time between two steps;                                    *)
(*  - the process is alone on the run: two processes on one run are the    *)
(*    subject of the takeover rules of RunRepository.markRunning.          *)
(***************************************************************************)
EXTENDS Frontier

CONSTANTS
    Workers,        \* the workers of the pool: `concurrency` of them
    Seed,           \* the normalized seed URL
    Links,          \* Links[u]: what a page's handler discovers in u
    Location,       \* Location[u]: where a redirect of u leads
    Answers,        \* Answers[u]: the kinds of answer a fetch of u may get
    OutOfScope,     \* the URLs outside the run's scope policy
    InitMaxUrls,    \* max_urls given at creation
    NewMaxUrls,     \* values of max_urls an explicit override may give
    MaxDepth,       \* max_depth
    MaxBytes,       \* max_bytes, 0 when it is not set
    RuntimeLimit,   \* is max_runtime_seconds set?
    MaxAttempts,    \* crawl_urls.max_attempts
    MaxRedirects,   \* MAX_REDIRECTS
    MaxInfra,       \* MAX_CONSECUTIVE_INFRA_FAILURES
    MarkAttempts,   \* attempts of withOutcomeMarkRetry
    Signals,        \* may SIGINT or SIGTERM arrive?
    Crashes,        \* may the process die?
    LostAcks,       \* may a statement's answer be lost?
    MaxFaults,      \* bound: statements that do not answer "ok"
    MaxSessions     \* bound: processes that work on the run

\* What a fetch, with the content processing that follows it, comes to.
AnswerKind == {"page", "unsupported", "not_found", "forbidden", "transient",
               "rate_limited", "bad_location", "redirect", "storage_error",
               "processing_bug"}

ASSUME PoolAssumption ==
    /\ IsFiniteSet(Workers) /\ Workers # {}
    /\ Seed \in Urls \ OutOfScope
    /\ Links \in [Urls -> SUBSET Urls]
    /\ Location \in [Urls -> Urls]
    /\ Answers \in [Urls -> SUBSET AnswerKind]
    /\ OutOfScope \subseteq Urls
    /\ InitMaxUrls \in Nat \ {0} /\ NewMaxUrls \subseteq Nat \ {0}
    /\ MaxDepth \in Nat /\ MaxBytes \in Nat
    /\ MaxAttempts \in Nat \ {0} /\ MaxRedirects \in Nat
    /\ MaxInfra \in Nat \ {0} /\ MarkAttempts \in Nat \ {0}
    /\ MaxFaults \in Nat /\ MaxSessions \in Nat
    /\ {RuntimeLimit, Signals, Crashes, LostAcks} \subseteq BOOLEAN

VARIABLES
    pc,         \* where each worker waits
    task,       \* the row each worker claimed, as it was then
    out,        \* the outcome it is about to write
    todo,       \* the links of its page it has still to enqueue
    cand,       \* the edge it is about to record
    tries,      \* failed attempts of the statement it retries
    busy,       \* has one of the three counts been positive?
    shutdown,   \* control.shutdownRequested
    limit,      \* control.limitReached
    expired,    \* has the session outlived max_runtime_seconds?
    memBytes,   \* run.totalBytes in memory
    phase,      \* what the process is doing
    verdict,    \* the final status finalizeRun chose
    runStatus,  \* crawl_runs.status
    totalBytes, \* crawl_runs.total_bytes
    faults,     \* statements that did not answer "ok" (bounded by MaxFaults)
    sessions    \* processes that have worked on the run

worker == <<pc, task, out, todo, cand, tries, busy>>
control == <<shutdown, limit, expired, memBytes>>
run == <<phase, verdict, runStatus, totalBytes, sessions>>
vars == <<durable, worker, control, run, faults>>

-----------------------------------------------------------------------------
(* Types.                                                                  *)

\* A worker at one of these holds a claimed row.
Holding == {"fetch", "links", "redirect", "edge", "mark", "bytes", "remark"}

PC == Holding \cup {"idle", "top", "claim", "lock", "countInProgress",
                    "countFutureRetryable", "countQueued", "exited", "crashed"}

CrawlUrlTask == [url : Urls \cup {NoUrl}, attempts : Nat, redirects : Nat]
NoTask == [url |-> NoUrl, attempts |-> 0, redirects |-> 0]

EdgeCandidate == [to : Urls \cup {NoUrl}, source : Sources, skip : SkipReason]
NoCandidate == [to |-> NoUrl, source |-> "link", skip |-> "none"]

Completed == {"completed", "completed_with_failures"}
FinalStatus == Completed \cup {"paused", "limit_reached", "failed"}

Phase == {"none", "seeding", "recovering", "live", "finalizing", "fallback",
          "down"}

TypeOK ==
    /\ FrontierTypeOK
    /\ pc \in [Workers -> PC]
    /\ task \in [Workers -> CrawlUrlTask]
    /\ \A w \in Workers : pc[w] \in Holding \cup {"lock"} => task[w].url \in Urls
    /\ out \in [Workers -> Outcomes \cup {"none"}]
    /\ \A w \in Workers : pc[w] \in {"mark", "remark"} => out[w] \in Outcomes
    /\ todo \in [Workers -> SUBSET Urls]
    /\ cand \in [Workers -> EdgeCandidate]
    /\ \A w \in Workers : pc[w] = "edge" => cand[w].to \in Urls
    /\ tries \in [Workers -> Nat]
    /\ busy \in [Workers -> BOOLEAN]
    /\ {shutdown, limit, expired} \subseteq BOOLEAN
    /\ memBytes \in Nat
    /\ phase \in Phase
    /\ verdict \in FinalStatus \cup {"none"}
    /\ runStatus \in FinalStatus \cup {"none", "running"}
    /\ totalBytes \in Nat
    /\ faults \in Nat
    /\ sessions \in Nat

Init ==
    /\ FrontierInit
    /\ maxUrls = InitMaxUrls
    /\ pc = [w \in Workers |-> "idle"]
    /\ task = [w \in Workers |-> NoTask]
    /\ out = [w \in Workers |-> "none"]
    /\ todo = [w \in Workers |-> {}]
    /\ cand = [w \in Workers |-> NoCandidate]
    /\ tries = [w \in Workers |-> 0]
    /\ busy = [w \in Workers |-> FALSE]
    /\ shutdown = FALSE /\ limit = FALSE /\ expired = FALSE
    /\ memBytes = 0
    /\ phase = "none" /\ verdict = "none" /\ runStatus = "none"
    /\ totalBytes = 0 /\ faults = 0 /\ sessions = 0

-----------------------------------------------------------------------------
(* Statements and their answers.                                           *)

Reply == {"ok", "failed", "lost"}

Answered(r) ==
    /\ r = "lost" => LostAcks
    /\ r # "ok" => faults < MaxFaults
    /\ faults' = IF r = "ok" THEN faults ELSE faults + 1

\* The value of x after a statement that makes it new.
After(r, x, new) == IF r = "failed" THEN x ELSE new

\* Bug: the claim does not skip locked rows.
BugNoSkipLocked(w) == {}

\* The rows other workers hold a row lock on, inside claimNextUrl.
Locked(w) == {task[v].url : v \in {v \in Workers \ {w} : pc[v] = "lock"}}

Goto(w, label) == pc' = [pc EXCEPT ![w] = label]

\* runInfraOperation: a statement of the core loop that did not answer "ok" is
\* tried again from `label`, and the MaxInfra-th failure in a row ends the
\* worker.
RetryInfra(w, label) ==
    IF tries[w] + 1 >= MaxInfra
    THEN Goto(w, "crashed") /\ tries' = [tries EXCEPT ![w] = 0]
    ELSE Goto(w, label) /\ tries' = [tries EXCEPT ![w] = @ + 1]

PassInfra(w, label) == Goto(w, label) /\ tries' = [tries EXCEPT ![w] = 0]

\* BackoffRetryPolicy.decide, on the row as the worker claimed it.
RetryDecision(t) ==
    IF t.attempts + 1 >= MaxAttempts THEN "permanent_failed"
    ELSE "retryable_failed"

\* The catch block of the loop: processTask threw, the error is retryable.
Catch(w) ==
    /\ Goto(w, "remark")
    /\ out' = [out EXCEPT ![w] = RetryDecision(task[w])]
    /\ todo' = [todo EXCEPT ![w] = {}]
    /\ cand' = [cand EXCEPT ![w] = NoCandidate]
    /\ tries' = [tries EXCEPT ![w] = 0]

\* The worker is through with its row, and goes to `label`.
Release(w, label) ==
    /\ Goto(w, label)
    /\ task' = [task EXCEPT ![w] = NoTask]
    /\ out' = [out EXCEPT ![w] = "none"]
    /\ tries' = [tries EXCEPT ![w] = 0]

-----------------------------------------------------------------------------
(* The head of the loop: flags, limits, claim.                             *)

\* Bug: stops one byte late.
BugShouldStopLate == expired \/ (MaxBytes > 0 /\ memBytes > MaxBytes)

\* SafetyLimits.shouldStop.
ShouldStop == expired \/ (MaxBytes > 0 /\ memBytes >= MaxBytes)

\* The worker sees a stop flag, or raises one.
Stop(w) ==
    /\ pc[w] = "top"
    /\ shutdown \/ limit \/ ShouldStop
    /\ Goto(w, "exited")
    /\ limit' = (limit \/ (~shutdown /\ ShouldStop))
    /\ UNCHANGED <<durable, task, out, todo, cand, tries, busy, shutdown,
                   expired, memBytes, run, faults>>

\* The worker goes on to wait for the rate limiter and to claim; nothing looks
\* at the flags again before the claim.
Proceed(w) ==
    /\ pc[w] = "top"
    /\ ~shutdown /\ ~limit /\ ~ShouldStop
    /\ Goto(w, "claim")
    /\ UNCHANGED <<durable, task, out, todo, cand, tries, busy, control, run,
                   faults>>

\* SELECT ... FOR UPDATE SKIP LOCKED finds a row and locks it.
LockRow(w) ==
    /\ pc[w] = "claim"
    /\ \E u \in ClaimNext(Locked(w)) :
           task' = [task EXCEPT ![w] = [NoTask EXCEPT !.url = u]]
    /\ Goto(w, "lock")
    /\ UNCHANGED <<durable, out, todo, cand, tries, busy, control, run, faults>>

\* It finds none: claimNextUrl returns null.
FindNone(w) ==
    /\ pc[w] = "claim"
    /\ ClaimNext(Locked(w)) = {}
    /\ PassInfra(w, "countInProgress")
    /\ UNCHANGED <<durable, task, out, todo, cand, busy, control, run, faults>>

ClaimFails(w) ==
    /\ pc[w] = "claim"
    /\ Answered("failed")
    /\ RetryInfra(w, "claim")
    /\ UNCHANGED <<durable, task, out, todo, cand, busy, control, run>>

\* UPDATE ... SET status = 'in_progress', and COMMIT.
CommitClaim(w, r) ==
    /\ pc[w] = "lock"
    /\ Answered(r)
    /\ LET u == task[w].url IN
       /\ urls' = After(r, urls, ClaimUrl(u))
       /\ IF r = "ok"
          THEN /\ PassInfra(w, "fetch")
               /\ task' = [task EXCEPT ![w] =
                      [url |-> u, attempts |-> urls[u].attempts,
                       redirects |-> urls[u].redirects]]
          ELSE /\ RetryInfra(w, "claim")
               /\ task' = [task EXCEPT ![w] = NoTask]
    /\ UNCHANGED <<enqueued, maxUrls, edges, out, todo, cand, busy, control, run>>

-----------------------------------------------------------------------------
(* Nothing to claim: three counts, each a statement of its own.            *)

Counted(w, label, n, next) ==
    /\ pc[w] = label
    /\ \/ /\ Answered("ok")
          /\ busy' = [busy EXCEPT ![w] = (label # "countInProgress" /\ @) \/ n > 0]
          /\ PassInfra(w, next)
       \/ /\ Answered("failed")
          /\ RetryInfra(w, label)
          /\ UNCHANGED busy
    /\ UNCHANGED <<durable, task, out, todo, cand, control, run>>

DoCountInProgress(w) ==
    Counted(w, "countInProgress", CountInProgress, "countFutureRetryable")

\* Bug: retries that are not due yet do not count.
BugFutureNotCounted(w) ==
    Counted(w, "countFutureRetryable", 0, "countQueued")

DoCountFutureRetryable(w) ==
    Counted(w, "countFutureRetryable", CountFutureRetryable, "countQueued")

\* Bug: the poll goes back to the claim and not to the head of the loop.
BugPollSkipsFlags(w) ==
    Counted(w, "countQueued", CountQueued,
            IF busy[w] \/ CountQueued > 0 THEN "claim" ELSE "exited")

\* The last count decides: sleep and poll again, or leave the loop.
DoCountQueued(w) ==
    Counted(w, "countQueued", CountQueued,
            IF busy[w] \/ CountQueued > 0 THEN "top" ELSE "exited")

-----------------------------------------------------------------------------
(* processTask: fetch, classify, and either mark the row or walk its links. *)

\* Bug: a 429 answer is written as a status that no row has.
BugNoDefer(t) ==
    [not_found    |-> "permanent_failed",
     forbidden    |-> "blocked",
     unsupported  |-> "skipped_unsupported",
     bad_location |-> "permanent_failed",
     transient    |-> RetryDecision(t),
     rate_limited |-> "rate_limited"]

\* Answers that are settled by one mark.
DirectOutcome(t) ==
    [not_found    |-> "permanent_failed",
     forbidden    |-> "blocked",
     unsupported  |-> "skipped_unsupported",
     bad_location |-> "permanent_failed",
     transient    |-> RetryDecision(t),
     rate_limited |-> "defer"]

\* Bug: an early return leaves the row of a rate-limited fetch in progress.
BugDeferUnmarked(w, a) ==
    /\ pc[w] = "fetch"
    /\ a \in Answers[task[w].url] \cap DOMAIN DirectOutcome(task[w])
    /\ IF a = "rate_limited" THEN Release(w, "top")
       ELSE /\ out' = [out EXCEPT ![w] = DirectOutcome(task[w])[a]]
            /\ Goto(w, "mark")
            /\ UNCHANGED <<task, tries>>
    /\ UNCHANGED <<durable, todo, cand, busy, control, run, faults>>

FetchDirect(w, a) ==
    /\ pc[w] = "fetch"
    /\ a \in Answers[task[w].url] \cap DOMAIN DirectOutcome(task[w])
    /\ out' = [out EXCEPT ![w] = DirectOutcome(task[w])[a]]
    /\ Goto(w, "mark")
    /\ UNCHANGED <<durable, task, todo, cand, tries, busy, control, run, faults>>

\* 200 with a body a handler takes: the content is stored, and its links are
\* next.
FetchPage(w) ==
    /\ pc[w] = "fetch"
    /\ "page" \in Answers[task[w].url]
    /\ todo' = [todo EXCEPT ![w] = Links[task[w].url]]
    /\ IF Links[task[w].url] = {}
       THEN Goto(w, "mark") /\ out' = [out EXCEPT ![w] = "done"]
       ELSE Goto(w, "links") /\ UNCHANGED out
    /\ UNCHANGED <<durable, task, cand, tries, busy, control, run, faults>>

\* Storing the content throws.
FetchThrows(w, a) ==
    /\ pc[w] = "fetch"
    /\ a \in Answers[task[w].url] \cap {"storage_error", "processing_bug"}
    /\ Goto(w, "remark")
    /\ out' = [out EXCEPT ![w] = IF a = "storage_error"
                                 THEN RetryDecision(task[w])
                                 ELSE "permanent_failed"]
    /\ UNCHANGED <<durable, task, todo, cand, tries, busy, control, run, faults>>

\* handleRedirect, up to its first statement.
FetchRedirect(w) ==
    /\ pc[w] = "fetch"
    /\ "redirect" \in Answers[task[w].url]
    /\ IF task[w].redirects >= MaxRedirects
       THEN Goto(w, "mark") /\ out' = [out EXCEPT ![w] = "permanent_failed"]
       ELSE IF Location[task[w].url] = task[w].url
       THEN Goto(w, "mark") /\ out' = [out EXCEPT ![w] = "requeue"]
       ELSE Goto(w, "redirect") /\ UNCHANGED out
    /\ UNCHANGED <<durable, task, todo, cand, tries, busy, control, run, faults>>

-----------------------------------------------------------------------------
(* Edges: decide on a target, admit it, record the edge.                   *)

\* resolveEdgeTarget: what it may decide on a target at depth d.
Slack == Cardinality(Workers) - 1

SkipReasons(to, d) ==
    IF to \in OutOfScope THEN {"scope"}
    ELSE IF d > MaxDepth THEN {"depth"}
    ELSE {IF answer = "limit" THEN "limit" ELSE "none" :
              answer \in EnqueueAnswers(to, Slack)}

\* Bug: a full frontier does not raise the limit flag.
BugSilentDrop(w, to, source, d, redirects) ==
    \E skip \in SkipReasons(to, d) :
        /\ IF skip = "none" THEN EnqueueUrl(to, d, redirects)
                            ELSE UNCHANGED <<urls, enqueued>>
        /\ cand' = [cand EXCEPT ![w] = [to |-> to, source |-> source, skip |-> skip]]
        /\ Goto(w, "edge")
        /\ UNCHANGED <<maxUrls, edges, task, out, todo, tries, busy, control, run, faults>>

\* The enqueue answered, or was not needed: the worker learns the decision,
\* raises the limit flag (applyEdgeDecision) and turns to the edge.
Resolve(w, to, source, d, redirects) ==
    \E skip \in SkipReasons(to, d) :
        /\ IF skip = "none" THEN EnqueueUrl(to, d, redirects)
                            ELSE UNCHANGED <<urls, enqueued>>
        /\ limit' = (limit \/ skip = "limit")
        /\ cand' = [cand EXCEPT ![w] = [to |-> to, source |-> source, skip |-> skip]]
        /\ Goto(w, "edge")
        /\ UNCHANGED <<maxUrls, edges, task, out, todo, tries, busy, shutdown,
                       expired, memBytes, run, faults>>

\* Bug: an enqueue that failed is passed over, as if the page had no such link.
BugEnqueueErrorIgnored(w, to, d, redirects, r) ==
    /\ r = "failed"
    /\ Answered(r)
    /\ todo' = [todo EXCEPT ![w] = @ \ {to}]
    /\ IF todo[w] \subseteq {to}
       THEN Goto(w, "mark") /\ out' = [out EXCEPT ![w] = "done"]
       ELSE UNCHANGED <<pc, out>>
    /\ UNCHANGED <<durable, task, cand, tries, busy, control, run>>

\* The enqueue failed, or its answer was lost: processTask throws.
ResolveThrows(w, to, d, redirects, r) ==
    /\ r # "ok" /\ Answered(r)
    /\ \E skip \in SkipReasons(to, d) \cap {"none", "limit"} :
           IF r = "lost" /\ skip = "none" THEN EnqueueUrl(to, d, redirects)
                                          ELSE UNCHANGED <<urls, enqueued>>
    /\ Catch(w)
    /\ UNCHANGED <<maxUrls, edges, task, busy, control, run>>

LinkDepth(w) == urls[task[w].url].depth + 1

ResolveLink(w) ==
    /\ pc[w] = "links"
    /\ \E l \in todo[w] : Resolve(w, l, "link", LinkDepth(w), 0)

ResolveLinkThrows(w, r) ==
    /\ pc[w] = "links"
    /\ \E l \in todo[w] : ResolveThrows(w, l, LinkDepth(w), 0, r)

ResolveRedirect(w) ==
    /\ pc[w] = "redirect"
    /\ Resolve(w, Location[task[w].url], "redirect", urls[task[w].url].depth,
               task[w].redirects + 1)

ResolveRedirectThrows(w, r) ==
    /\ pc[w] = "redirect"
    /\ ResolveThrows(w, Location[task[w].url], urls[task[w].url].depth,
                     task[w].redirects + 1, r)

\* Bug: the loop over the links ends at the first one the frontier has no room for.
BugBreakAtLimit(w, r) ==
    /\ pc[w] = "edge"
    /\ Answered(r)
    /\ edges' = After(r, edges, RecordEdge(task[w].url, cand[w].to,
                                           cand[w].source, cand[w].skip))
    /\ IF r # "ok" THEN Catch(w)
       ELSE LET left == IF cand[w].skip = "limit" THEN {} ELSE todo[w] \ {cand[w].to} IN
            /\ todo' = [todo EXCEPT ![w] = left]
            /\ cand' = [cand EXCEPT ![w] = NoCandidate]
            /\ IF left # {} THEN Goto(w, "links") /\ UNCHANGED out
               ELSE /\ Goto(w, "mark")
                    /\ out' = [out EXCEPT ![w] = IF cand[w].source = "link"
                                                 THEN "done" ELSE "redirected"]
            /\ UNCHANGED tries
    /\ UNCHANGED <<urls, enqueued, maxUrls, task, busy, control, run>>

\* recordEdge; after the last edge of the page (or the redirect's own) the
\* worker writes the outcome.
RecordCandidate(w, r) ==
    /\ pc[w] = "edge"
    /\ Answered(r)
    /\ edges' = After(r, edges, RecordEdge(task[w].url, cand[w].to,
                                           cand[w].source, cand[w].skip))
    /\ IF r # "ok" THEN Catch(w)
       ELSE LET left == todo[w] \ {cand[w].to} IN
            /\ todo' = [todo EXCEPT ![w] = left]
            /\ cand' = [cand EXCEPT ![w] = NoCandidate]
            /\ IF left # {} THEN Goto(w, "links") /\ UNCHANGED out
               ELSE /\ Goto(w, "mark")
                    /\ out' = [out EXCEPT ![w] = IF cand[w].source = "link"
                                                 THEN "done" ELSE "redirected"]
            /\ UNCHANGED tries
    /\ UNCHANGED <<urls, enqueued, maxUrls, task, busy, control, run>>

-----------------------------------------------------------------------------
(* Outcomes and bytes.                                                     *)

\* Bug: the bytes are counted before the page is written as done.
BugBytesFirst(w, r) ==
    /\ pc[w] = "mark"
    /\ task[w].url \notin Locked(w)
    /\ Answered(r)
    /\ urls' = After(r, urls, MarkOutcome(task[w].url, out[w]))
    /\ totalBytes' = IF out[w] = "done" THEN totalBytes + 1 ELSE totalBytes
    /\ IF r = "ok" THEN Release(w, "top") /\ UNCHANGED <<todo, cand>>
       ELSE Catch(w) /\ UNCHANGED task
    /\ UNCHANGED <<enqueued, maxUrls, edges, busy, control, phase, verdict,
                   runStatus, sessions>>

\* withOutcomeMarkRetry around the outcome of processTask.
Mark(w, r) ==
    /\ pc[w] = "mark"
    /\ task[w].url \notin Locked(w)
    /\ Answered(r)
    /\ urls' = After(r, urls, MarkOutcome(task[w].url, out[w]))
    /\ IF r = "ok"
       THEN IF out[w] = "done"
            THEN /\ Goto(w, "bytes")
                 /\ out' = [out EXCEPT ![w] = "none"]
                 /\ tries' = [tries EXCEPT ![w] = 0]
                 /\ UNCHANGED <<task, todo, cand>>
            ELSE Release(w, "top") /\ UNCHANGED <<todo, cand>>
       ELSE IF tries[w] + 1 < MarkAttempts
       THEN /\ tries' = [tries EXCEPT ![w] = @ + 1]
            /\ UNCHANGED <<pc, task, out, todo, cand>>
       ELSE Catch(w) /\ UNCHANGED task
    /\ UNCHANGED <<enqueued, maxUrls, edges, busy, control, run>>

\* Bug: the bytes are added in memory only.
BugBytesInMemory(w, r) ==
    /\ pc[w] = "bytes"
    /\ Answered(r)
    /\ memBytes' = memBytes + 1
    /\ Release(w, "top")
    /\ UNCHANGED <<durable, todo, cand, busy, shutdown, limit, expired, run>>

\* addBytes, after markSucceeded and outside its retry.
AddBytes(w, r) ==
    /\ pc[w] = "bytes"
    /\ Answered(r)
    /\ totalBytes' = After(r, totalBytes, totalBytes + 1)
    /\ IF r = "ok"
       THEN /\ memBytes' = memBytes + 1
            /\ Release(w, "top")
            /\ UNCHANGED <<todo, cand>>
       ELSE Catch(w) /\ UNCHANGED <<task, memBytes>>
    /\ UNCHANGED <<durable, busy, shutdown, limit, expired, phase, verdict,
                   runStatus, sessions>>

\* The outcome the catch block writes; its last failure ends the worker, and
\* leaves the row as it is.
Remark(w, r) ==
    /\ pc[w] = "remark"
    /\ task[w].url \notin Locked(w)
    /\ Answered(r)
    /\ urls' = After(r, urls, MarkOutcome(task[w].url, out[w]))
    /\ IF r = "ok" THEN Release(w, "top")
       ELSE IF tries[w] + 1 < MarkAttempts
       THEN tries' = [tries EXCEPT ![w] = @ + 1] /\ UNCHANGED <<pc, task, out>>
       ELSE Release(w, "crashed")
    /\ UNCHANGED <<enqueued, maxUrls, edges, todo, cand, busy, control, run>>

-----------------------------------------------------------------------------
(* The life of a run.                                                      *)

\* A pool starts: every worker at the head of its loop, flags and clock reset,
\* the byte counter as the run's row has it.
StartPool ==
    /\ phase' = "live"
    /\ pc' = [w \in Workers |-> "top"]
    /\ shutdown' = FALSE /\ limit' = FALSE /\ expired' = FALSE
    /\ memBytes' = totalBytes
    /\ UNCHANGED <<task, out, todo, cand, tries, busy>>

\* createRun inserts the run's row ...
CreateRun ==
    /\ phase = "none"
    /\ phase' = "seeding"
    /\ runStatus' = "running"
    /\ sessions' = 1
    /\ UNCHANGED <<durable, worker, control, verdict, totalBytes, faults>>

\* ... and then enqueues the seed; if that throws, the process exits.
EnqueueSeed(r) ==
    /\ phase = "seeding"
    /\ Answered(r)
    /\ IF r = "failed" THEN UNCHANGED <<urls, enqueued>>
                       ELSE EnqueueUrl(Seed, 0, 0)
    /\ IF r = "ok" THEN StartPool
       ELSE phase' = "down" /\ UNCHANGED <<worker, control>>
    /\ UNCHANGED <<maxUrls, edges, verdict, runStatus, totalBytes, sessions>>

\* A signal before the last worker is done; the flags are read once, then, and
\* a later signal changes nothing.
WorkersDone == \A w \in Workers : pc[w] \in {"exited", "crashed"}

Shutdown ==
    /\ Signals /\ phase = "live" /\ ~WorkersDone /\ ~shutdown
    /\ shutdown' = TRUE
    /\ UNCHANGED <<durable, worker, limit, expired, memBytes, run, faults>>

Expire ==
    /\ RuntimeLimit /\ phase = "live" /\ ~WorkersDone /\ ~expired
    /\ expired' = TRUE
    /\ UNCHANGED <<durable, worker, shutdown, limit, memBytes, run, faults>>

\* Bug: a run whose workers crashed is judged by its outcomes.
BugVerdictNoInfra ==
    IF shutdown THEN "paused"
    ELSE IF limit THEN "limit_reached"
    ELSE IF WithStatus("permanent_failed") \cup WithStatus("blocked") # {}
    THEN "completed_with_failures"
    ELSE "completed"

\* finalizeRun: precedence of the stop reasons over the outcomes.
Verdict ==
    IF shutdown THEN "paused"
    ELSE IF limit THEN "limit_reached"
    ELSE IF \E w \in Workers : pc[w] = "crashed" THEN "failed"
    ELSE IF WithStatus("permanent_failed") \cup WithStatus("blocked") # {}
    THEN "completed_with_failures"
    ELSE "completed"

\* All workers are done (allSettled); finalizeRun reads the status counts.
Finalize(r) ==
    /\ phase = "live" /\ WorkersDone
    /\ r # "lost" /\ Answered(r)
    /\ IF r = "ok" THEN phase' = "finalizing" /\ verdict' = Verdict
                   ELSE phase' = "fallback" /\ verdict' = "failed"
    /\ UNCHANGED <<durable, worker, control, runStatus, totalBytes, sessions>>

\* finish or pause; if finalizeRun throws, finish('failed') is the last resort.
FinishRun(r) ==
    /\ phase = "finalizing"
    /\ Answered(r)
    /\ runStatus' = After(r, runStatus, verdict)
    /\ IF r = "ok" THEN phase' = "down" /\ UNCHANGED verdict
                   ELSE phase' = "fallback" /\ verdict' = "failed"
    /\ UNCHANGED <<durable, worker, control, totalBytes, sessions>>

Fallback(r) ==
    /\ phase = "fallback"
    /\ Answered(r)
    /\ runStatus' = After(r, runStatus, "failed")
    /\ phase' = "down"
    /\ UNCHANGED <<durable, worker, control, verdict, totalBytes, sessions>>

\* What dies with the process.
Forget ==
    /\ pc' = [w \in Workers |-> "idle"]
    /\ task' = [w \in Workers |-> NoTask]
    /\ out' = [w \in Workers |-> "none"]
    /\ todo' = [w \in Workers |-> {}]
    /\ cand' = [w \in Workers |-> NoCandidate]
    /\ tries' = [w \in Workers |-> 0]
    /\ busy' = [w \in Workers |-> FALSE]

\* kill -9, a second signal, or the machine: open transactions roll back.
Crash ==
    /\ Crashes
    /\ phase \notin {"none", "down"}
    /\ phase' = "down"
    /\ Forget
    /\ UNCHANGED <<durable, control, verdict, runStatus, totalBytes, sessions,
                   faults>>

\* Bug: a run that completed with failures may be resumed to retry them.
BugResumeFailures(m) ==
    \/ runStatus \in {"paused", "failed", "running", "completed_with_failures"}
    \/ runStatus = "limit_reached" /\ (m > maxUrls \/ RuntimeLimit)

\* resumeRun accepts the run: paused, failed, stale running, or limit_reached
\* with an increased limit (an explicit max_runtime_seconds counts as one).
Resumable(m) ==
    \/ runStatus \in {"paused", "failed", "running"}
    \/ runStatus = "limit_reached" /\ (m > maxUrls \/ RuntimeLimit)

\* markRunning: the conditional update that takes the run over.
Resume(m) ==
    /\ phase = "down" /\ sessions < MaxSessions
    /\ Resumable(m)
    /\ maxUrls' = m
    /\ runStatus' = "running"
    /\ phase' = "recovering" /\ verdict' = "none"
    /\ sessions' = sessions + 1
    /\ Forget
    /\ UNCHANGED <<urls, enqueued, edges, control, totalBytes, faults>>

\* Bug: the pool starts without reclaiming the rows of the dead session.
BugNoRecovery(r) ==
    /\ phase = "recovering"
    /\ Answered(r)
    /\ StartPool
    /\ UNCHANGED <<durable, verdict, runStatus, totalBytes, sessions>>

\* recoverAllInProgress, before the pool starts.
Recover(r) ==
    /\ phase = "recovering"
    /\ Answered(r)
    /\ urls' = After(r, urls, RecoverAllInProgress)
    /\ IF r = "ok" THEN StartPool
       ELSE phase' = "down" /\ UNCHANGED <<worker, control>>
    /\ UNCHANGED <<enqueued, maxUrls, edges, verdict, runStatus, totalBytes,
                   sessions>>

TimePasses == \E u \in Urls : ComeDue(u) /\ UNCHANGED <<worker, control, run, faults>>

\* The process has ended; nobody need resume the run.
Ended == phase = "down" /\ UNCHANGED vars

-----------------------------------------------------------------------------
WorkerStep(w) ==
    \/ Stop(w) \/ Proceed(w) \/ LockRow(w) \/ FindNone(w) \/ ClaimFails(w)
    \/ \E r \in Reply : CommitClaim(w, r)
    \/ DoCountInProgress(w) \/ DoCountFutureRetryable(w) \/ DoCountQueued(w)
    \/ \E a \in AnswerKind : FetchDirect(w, a)
    \/ FetchPage(w) \/ FetchRedirect(w)
    \/ \E a \in AnswerKind : FetchThrows(w, a)
    \/ ResolveLink(w) \/ ResolveRedirect(w)
    \/ \E r \in Reply : ResolveLinkThrows(w, r)
    \/ \E r \in Reply : ResolveRedirectThrows(w, r)
    \/ \E r \in Reply : RecordCandidate(w, r)
    \/ \E r \in Reply : Mark(w, r)
    \/ \E r \in Reply : AddBytes(w, r)
    \/ \E r \in Reply : Remark(w, r)

PoolStep ==
    \/ CreateRun
    \/ \E r \in Reply : EnqueueSeed(r) \/ Finalize(r) \/ FinishRun(r) \/ Fallback(r)
    \/ \E r \in Reply : Recover(r)

Next ==
    \/ \E w \in Workers : WorkerStep(w)
    \/ PoolStep
    \/ Shutdown \/ Expire \/ Crash
    \/ \E m \in NewMaxUrls \cup {maxUrls} : Resume(m)
    \/ TimePasses
    \/ Ended

Spec == Init /\ [][Next]_vars

\* An answer other than 429.
FetchSettles(w) ==
    \/ FetchPage(w) \/ FetchRedirect(w)
    \/ \E a \in AnswerKind \ {"rate_limited"} : FetchDirect(w, a)
    \/ \E a \in AnswerKind : FetchThrows(w, a)

\* What the event loop, the clock and the site are trusted to do: every promise
\* a worker or the pool awaits settles, so each takes its next step (WF); a
\* retry comes due (WF); a URL is not rate limited for ever (SF).  No crash, no
\* signal and no resume is ever owed.
Fairness ==
    /\ \A w \in Workers : WF_vars(WorkerStep(w)) /\ SF_vars(FetchSettles(w))
    /\ WF_vars(PoolStep)
    /\ \A u \in Urls :
           WF_vars(ComeDue(u) /\ UNCHANGED <<worker, control, run, faults>>)

FairSpec == Spec /\ Fairness

-----------------------------------------------------------------------------
(* Safety.                                                                 *)

\* No two workers hold the same row at once, from the row lock of the claim to
\* the last write of its outcome.  FOR UPDATE SKIP LOCKED alone does not give
\* this: the outcome writes are not fenced by an owner or a status.  It is a
\* claim about statements that never lose an answer.
HoldsRow(w) == pc[w] \in Holding \cup {"lock"}
ClaimExclusive ==
    \A w, v \in Workers :
        w # v /\ HoldsRow(w) /\ HoldsRow(v) => task[w].url # task[v].url

\* While the pool is live and no worker has crashed, a row is in_progress only
\* if a worker holds it.  The polling loop waits for in_progress rows, so an
\* orphan would keep every other worker waiting for ever.
InProgressOwned ==
    phase = "live" /\ (\A w \in Workers : pc[w] # "crashed") =>
        \A u \in WithStatus("in_progress") :
            \E w \in Workers : pc[w] \in Holding /\ task[w].url = u

\* A page is done only when each of its links has its edge, and an edge without
\* a skip reason leads to an admitted row; a redirected URL has the edge to its
\* target.  So no link is lost between the page and the frontier, whatever
\* fails or dies in between.
EdgeSound(from, to, source) ==
    LET skip == edges[<<from, to, source>>] IN
    /\ skip # "unrecorded"
    /\ skip = "none" => Present(to)
    /\ skip = "scope" => to \in OutOfScope
DiscoveryComplete ==
    /\ \A u \in WithStatus("done") : \A l \in Links[u] : EdgeSound(u, l, "link")
    /\ \A u \in WithStatus("redirected") : EdgeSound(u, Location[u], "redirect")

\* A run that is reported complete leaves no URL queued or in progress, although
\* each worker decides to leave on three counts taken at different times and
\* finalizeRun looks at no such count.
NoQueuedLeft ==
    runStatus \in Completed =>
        WithStatus("queued") \cup WithStatus("in_progress") = {}

\* The first session of a run is not reported complete if it dropped a link for
\* want of room: the drop sets a flag in memory that outlives every worker.
DropsReported ==
    sessions = 1 /\ runStatus \in Completed =>
        \A e \in EdgeKey : edges[e] # "limit"

\* The retries that are counted stay below max_attempts and self-redirects and
\* redirect chains within MAX_REDIRECTS, although both decisions are taken on
\* the row as it was when it was claimed.
AttemptBudget ==
    \A u \in Urls : urls[u].attempts < MaxAttempts /\ urls[u].redirects <= MaxRedirects

\* max_bytes is a best-effort limit checked before the claim: the run passes it
\* by less than one page for each worker.
ByteOvershoot == MaxBytes > 0 => totalBytes < MaxBytes + Cardinality(Workers)

\* The byte counter of the run counts each page that is done once, except while
\* a worker is between the two statements.
BytesMatchDone ==
    totalBytes = Cardinality(WithStatus("done"))
                 - Cardinality({w \in Workers : pc[w] = "bytes"})

\* No page is counted twice, nor one that is not done, although the catch block
\* may reopen a page after it was written as done.
BytesCountedOnce == totalBytes <= Cardinality(WithStatus("done"))

\* The pool does not give up on a retry that is still in the future: when the
\* last worker has left of its own accord, no row waits for a time to come.
\* (CompletedMeansDrained says more than this, and does not hold.)
RetryAwaited ==
    /\ phase = "live" /\ ~shutdown /\ ~limit
    /\ \A w \in Workers : pc[w] = "exited"
    => \A u \in WithStatus("retryable_failed") : urls[u].next = "due"

\* Everything admitted is settled when the run is reported complete: the run
\* goes on "until frontier drained AND no work in flight".
CompletedMeansDrained ==
    runStatus \in Completed => \A u \in Urls : Present(u) => urls[u].status \in Settled

-----------------------------------------------------------------------------
(* Action properties.                                                      *)

\* A URL that is settled stays settled: "`done` URLs are never reprocessed",
\* and no late write of another worker reopens a row.
SettledIsFinal ==
    [][\A u \in Urls : urls[u].status \in Settled => (urls[u].status)' = urls[u].status]_vars

\* A run that is reported complete is never reported otherwise, and never
\* runs again.
CompleteIsFinal ==
    [][(runStatus \in Completed) => (runStatus' = runStatus)]_vars

-----------------------------------------------------------------------------
(* Refinement.                                                             *)

\* What the queue knows of a row and of a worker.
ItemState(row) ==
    CASE row.status = "absent" -> "absent"
      [] row.status = "in_progress" -> "taken"
      [] row.status \in Settled -> "settled"
      [] row.status \in Claimable -> IF row.next = "due" THEN "ready" ELSE "waiting"
InHand(w) == IF pc[w] \in Holding THEN task[w].url ELSE NoUrl

\* The frontier is a queue whose items are in the hands of one worker at a time,
\* although its statements name a row by its id and no owner.  It is a claim
\* about statements that never lose an answer.
Queue == INSTANCE WorkQueue
    WITH Items <- Urls, NoItem <- NoUrl, Faults <- MaxFaults > 0,
         state <- [u \in Urls |-> ItemState(urls[u])],
         hand <- [w \in Workers |-> InHand(w)]
ImplementsQueue == Queue!Spec

-----------------------------------------------------------------------------
(* Liveness, under FairSpec.                                               *)

\* A started pool ends, unless one of its workers has crashed.
PoolEnds == phase = "live" ~> (phase = "down" \/ \E w \in Workers : pc[w] = "crashed")

\* A signal, a limit or the end of the runtime budget ends the pool, whatever
\* the site answers and whatever has failed.
StopEnds == phase = "live" /\ (shutdown \/ limit \/ expired) ~> phase = "down"

\* A pool one of whose workers crashed ends, so that the run can be reported
\* failed: "Infra failure finalizes as `failed`".
CrashEnds == (\E w \in Workers : pc[w] = "crashed") ~> phase = "down"

=============================================================================
