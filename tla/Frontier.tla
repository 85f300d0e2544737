------------------------------ MODULE Frontier ------------------------------
(***************************************************************************)
(* The durable crawl state: the frontier table `crawl_urls`, the admission *)
(* counter of the run's row in `crawl_runs` and the edge table `url_edges`,*)
(* with one operator per method of FrontierRepository and EdgeRepository.  *)
(* Every method is one SQL statement or one transaction; an operator is    *)
(* the value of the table after it.  The modules that use this one decide  *)
(* when a statement runs and whether its answer reaches the caller.        *)
(*                                                                         *)
(* Simplifications                                                         *)
(*  - a row is named by its normalized URL (unique per run);               *)
(*  - next_attempt_at is "due" or "future": the clock is abstracted to the *)
(*    step that turns one into the other;                                  *)
(*  - created_at is the row's position in admission order;                 *)
(*  - the columns nothing decides on (error text, HTTP status, content     *)
(*    type, timestamps) are left out;                                      *)
(*  - enqueueUrl is atomic here, with the slack that Admission.tla shows.  *)
(***************************************************************************)
EXTENDS Integers, FiniteSets

CONSTANTS
    Urls,       \* normalized URLs the crawl can meet
    NoUrl       \* not a URL: the value of a reference that is not set

ASSUME UrlsAssumption == IsFiniteSet(Urls) /\ NoUrl \notin Urls

VARIABLES
    urls,       \* crawl_urls: the row of each URL, "absent" before admission
    enqueued,   \* crawl_runs.urls_enqueued
    maxUrls,    \* crawl_runs.max_urls
    edges       \* url_edges: skip_reason of each (from, discovered, source)

durable == <<urls, enqueued, maxUrls, edges>>

-----------------------------------------------------------------------------
(* Rows and their statuses.                                                *)

\* The statuses that end a URL's processing.
Settled == {"done", "permanent_failed", "blocked", "skipped_unsupported",
            "redirected"}

Claimable == {"queued", "retryable_failed"}

CrawlUrlStatus == Settled \cup Claimable \cup {"in_progress"}

Row == [status    : CrawlUrlStatus \cup {"absent"},
        attempts  : Nat,
        redirects : Nat,
        next      : {"due", "future"},
        depth     : Nat,
        created   : Nat]

AbsentRow == [status |-> "absent", attempts |-> 0, redirects |-> 0,
              next |-> "due", depth |-> 0, created |-> 0]

Sources == {"link", "redirect"}
EdgeKey == Urls \X Urls \X Sources
\* skip_reason NULL is "none"; "unrecorded" says that there is no edge row.
SkipReason == {"none", "scope", "depth", "limit"}

FrontierTypeOK ==
    /\ urls \in [Urls -> Row]
    /\ enqueued \in Nat
    /\ maxUrls \in Nat
    /\ edges \in [EdgeKey -> SkipReason \cup {"unrecorded"}]

FrontierInit ==
    /\ urls = [u \in Urls |-> AbsentRow]
    /\ enqueued = 0
    /\ edges = [e \in EdgeKey |-> "unrecorded"]

Present(u) == urls[u].status # "absent"
WithStatus(s) == {u \in Urls : urls[u].status = s}

-----------------------------------------------------------------------------
(* Admission.  enqueueUrl is one transaction, but its gate reads the counter *)
(* without a lock: of N concurrent callers, N - 1 may pass a gate that the *)
(* N-th has closed.  Admission.tla shows that the transaction keeps the    *)
(* contract stated here, with slack N - 1.                                 *)

EnqueueAnswers(u, slack) ==
    IF Present(u) THEN {"existing"}
    ELSE (IF enqueued < maxUrls + slack THEN {"inserted"} ELSE {})
         \cup (IF enqueued >= maxUrls THEN {"limit"} ELSE {})

NewRow(d, redirects) ==
    [status |-> "queued", attempts |-> 0, redirects |-> redirects,
     next |-> "due", depth |-> d, created |-> enqueued + 1]

\* Bug: ON CONFLICT DO UPDATE queues a known URL again.
BugRequeueKnown(u, d, redirects) ==
    /\ urls' = [urls EXCEPT ![u] = NewRow(d, redirects)]
    /\ enqueued' = IF Present(u) THEN enqueued ELSE enqueued + 1

\* enqueueUrl when it does not answer "limit".
EnqueueUrl(u, d, redirects) ==
    IF Present(u) THEN UNCHANGED <<urls, enqueued>>
    ELSE /\ urls' = [urls EXCEPT ![u] = NewRow(d, redirects)]
         /\ enqueued' = enqueued + 1

-----------------------------------------------------------------------------
(* Claiming.                                                               *)

\* Bug: a retry does not wait for its time.
BugEligible(u) == urls[u].status \in Claimable

\* The WHERE clause of claimNextUrl.
Eligible(u) == urls[u].status \in Claimable /\ urls[u].next = "due"

\* The rows SELECT ... ORDER BY created_at LIMIT 1 FOR UPDATE SKIP LOCKED may
\* return while other transactions hold the rows of `locked`.
ClaimNext(locked) ==
    {u \in Urls \ locked :
        /\ Eligible(u)
        /\ \A v \in Urls \ locked :
               Eligible(v) => urls[u].created <= urls[v].created}

ClaimUrl(u) == [urls EXCEPT ![u].status = "in_progress"]

-----------------------------------------------------------------------------
(* Outcomes.  Each is UPDATE ... WHERE id = $1: nothing checks the status   *)
(* or the owner of the row that it overwrites.                             *)

MarkSettled(u, s) == [urls EXCEPT ![u].status = s]

Retried(row, consumesAttempt) ==
    [row EXCEPT !.status = "retryable_failed",
                !.attempts = IF consumesAttempt THEN @ + 1 ELSE @,
                !.next = "future"]
MarkRetryableFailure(u, consumesAttempt) ==
    [urls EXCEPT ![u] = Retried(@, consumesAttempt)]

Requeued(row) ==
    [row EXCEPT !.status = "queued", !.redirects = @ + 1, !.next = "due"]
RequeueForRedirect(u) == [urls EXCEPT ![u] = Requeued(@)]

\* The outcome a worker writes, named by the status it leaves behind, except
\* "defer" (a retry that consumes no attempt) and "requeue" (a self-redirect).
Outcomes == Settled \cup {"retryable_failed", "defer", "requeue"}

MarkOutcome(u, o) ==
    IF o \in Settled THEN MarkSettled(u, o)
    ELSE IF o = "requeue" THEN RequeueForRedirect(u)
    ELSE MarkRetryableFailure(u, o = "retryable_failed")

\* Bug: being interrupted counts as an attempt.
BugRecoveryCounts ==
    [u \in Urls |-> IF urls[u].status = "in_progress"
                    THEN [urls[u] EXCEPT !.status = "queued", !.attempts = @ + 1]
                    ELSE urls[u]]

RecoverAllInProgress ==
    [u \in Urls |-> IF urls[u].status = "in_progress"
                    THEN [urls[u] EXCEPT !.status = "queued"] ELSE urls[u]]

-----------------------------------------------------------------------------
(* The three queries a worker asks before it gives up, and the clock.      *)

CountInProgress == Cardinality(WithStatus("in_progress"))
CountQueued == Cardinality(WithStatus("queued"))
CountFutureRetryable ==
    Cardinality({u \in WithStatus("retryable_failed") : urls[u].next = "future"})

\* now() passes the next_attempt_at of u.
ComeDue(u) ==
    /\ urls[u].next = "future"
    /\ urls' = [urls EXCEPT ![u].next = "due"]
    /\ UNCHANGED <<enqueued, maxUrls, edges>>

-----------------------------------------------------------------------------
(* Edges: an upsert on (from, discovered, source), so that the reason of   *)
(* the latest visit stands.                                                *)
RecordEdge(from, to, source, skip) ==
    [edges EXCEPT ![<<from, to, source>>] = skip]

=============================================================================
