--------------------------- MODULE PoolLimitProofs ---------------------------
(***************************************************************************)
(* Proofs about Pool on what it counts: attempts and redirects stay within *)
(* their budgets, the byte counter counts each page once and passes        *)
(* max_bytes by less than a page for each worker, and a settled row is     *)
(* reopened by the catch block alone; and that it implements a work queue. *)
(* They build on the ownership of rows and so assume that no statement     *)
(* loses its answer.                                                       *)
(***************************************************************************)
EXTENDS PoolDiscoveryProofs

-----------------------------------------------------------------------------
(* The rows a step of a worker writes.                                     *)

\* A worker admits a row, claims the row it has locked, or writes the outcome of
\* the row it holds.
Admits(w) ==
    \E to \in Urls, d \in Nat, n \in Nat :
        /\ urls[to].status = "absent"
        /\ pc[w] \in {"links", "redirect"}
        /\ n = 0 \/ (pc[w] = "redirect" /\ n = task[w].redirects + 1)
        /\ urls' = [urls EXCEPT ![to] = NewRow(d, n)]
Claims(w) == pc[w] = "lock" /\ urls' = ClaimUrl(task[w].url)
Marks(w) == pc[w] \in {"mark", "remark"} /\ urls' = MarkOutcome(task[w].url, out[w])

LEMMA WorkerWrites ==
    ASSUME TypeOK, NEW w \in Workers, WorkerStep(w)
    PROVE  urls' = urls \/ Admits(w) \/ Claims(w) \/ Marks(w)
<1>1. ASSUME NEW to \in Urls, NEW d \in Nat, NEW n \in Nat,
             n = 0 \/ (pc[w] = "redirect" /\ n = task[w].redirects + 1),
             pc[w] \in {"links", "redirect"},
             EnqueueUrl(to, d, n)
      PROVE  urls' = urls \/ Admits(w)
    BY <1>1 DEF EnqueueUrl, Present, Admits
<1>2. pc[w] \in {"links", "redirect"} =>
          /\ task[w].redirects + 1 \in Nat
          /\ urls[task[w].url].depth \in Nat /\ LinkDepth(w) \in Nat
          /\ Location[task[w].url] \in Urls /\ todo[w] \subseteq Urls
    BY PoolAssumption DEF TypeOK, FrontierTypeOK, Row, CrawlUrlTask, LinkDepth, Holding
<1>3. CASE ResolveLink(w) \/ \E r \in Reply : ResolveLinkThrows(w, r)
    <2>1. \E to \in todo[w] :
              EnqueueUrl(to, LinkDepth(w), 0) \/ UNCHANGED <<urls, enqueued>>
        BY <1>3 DEF ResolveLink, ResolveLinkThrows, Resolve, ResolveThrows
    <2>2. pc[w] = "links"
        BY <1>3 DEF ResolveLink, ResolveLinkThrows
    <2>3. QED  BY <1>1, <1>2, <2>1, <2>2
<1>4. CASE ResolveRedirect(w) \/ \E r \in Reply : ResolveRedirectThrows(w, r)
    <2>1. \/ EnqueueUrl(Location[task[w].url], urls[task[w].url].depth, task[w].redirects + 1)
          \/ UNCHANGED <<urls, enqueued>>
        BY <1>4 DEF ResolveRedirect, ResolveRedirectThrows, Resolve, ResolveThrows
    <2>2. pc[w] = "redirect"
        BY <1>4 DEF ResolveRedirect, ResolveRedirectThrows
    <2>3. QED  BY <1>1, <1>2, <2>1, <2>2
<1>5. ASSUME NEW r \in Reply, CommitClaim(w, r) PROVE urls' = urls \/ Claims(w)
    BY <1>5 DEF CommitClaim, After, Claims
<1>6. ASSUME NEW r \in Reply, Mark(w, r) \/ Remark(w, r) PROVE urls' = urls \/ Marks(w)
    BY <1>6 DEF Mark, Remark, After, Marks
<1>7. CASE \/ Stop(w) \/ Proceed(w) \/ LockRow(w) \/ FindNone(w) \/ ClaimFails(w)
           \/ DoCountInProgress(w) \/ DoCountFutureRetryable(w) \/ DoCountQueued(w)
           \/ FetchPage(w) \/ FetchRedirect(w)
           \/ \E a \in AnswerKind : FetchDirect(w, a) \/ FetchThrows(w, a)
           \/ \E r \in Reply : RecordCandidate(w, r) \/ AddBytes(w, r)
    BY <1>7 DEF Stop, Proceed, LockRow, FindNone, ClaimFails, Counted, DoCountInProgress,
       DoCountFutureRetryable, DoCountQueued, FetchDirect, FetchPage, FetchRedirect,
       FetchThrows, RecordCandidate, AddBytes, durable
<1>8. QED  BY <1>3, <1>4, <1>5, <1>6, <1>7 DEF WorkerStep

\* What an outcome does to the counts of its row, and to the other rows: nothing.
LEMMA MarkCounts ==
    ASSUME urls \in [Urls -> Row], NEW u \in Urls, NEW o \in Outcomes
    PROVE  /\ \A v \in Urls \ {u} : MarkOutcome(u, o)[v] = urls[v]
           /\ MarkOutcome(u, o)[u].attempts =
                  IF o = "retryable_failed" THEN urls[u].attempts + 1 ELSE urls[u].attempts
           /\ MarkOutcome(u, o)[u].redirects =
                  IF o = "requeue" THEN urls[u].redirects + 1 ELSE urls[u].redirects
<1>1. CASE o \in Settled
    <2>1. o \notin {"retryable_failed", "requeue"}
        BY <1>1 DEF Settled
    <2>2. MarkOutcome(u, o) = [urls EXCEPT ![u].status = o]
        BY <1>1 DEF MarkOutcome, MarkSettled
    <2>3. QED  BY <2>1, <2>2 DEF Row
<1>2. CASE o = "requeue"
    <2>1. MarkOutcome(u, o) = [urls EXCEPT ![u] = Requeued(urls[u])]
        BY <1>2 DEF MarkOutcome, RequeueForRedirect, Settled
    <2>2. /\ Requeued(urls[u]).attempts = urls[u].attempts
          /\ Requeued(urls[u]).redirects = urls[u].redirects + 1
        BY DEF Requeued, Row
    <2>3. QED  BY <1>2, <2>1, <2>2
<1>3. CASE o \in {"retryable_failed", "defer"}
    <2> DEFINE b == (o = "retryable_failed")
    <2>1. MarkOutcome(u, o) = [urls EXCEPT ![u] = Retried(urls[u], b)]
        BY <1>3 DEF MarkOutcome, MarkRetryableFailure, Settled
    <2>2. /\ Retried(urls[u], b).attempts =
                 IF b THEN urls[u].attempts + 1 ELSE urls[u].attempts
          /\ Retried(urls[u], b).redirects = urls[u].redirects
        BY DEF Retried, Row
    <2>3. QED  BY <1>3, <2>1, <2>2
<1>4. QED  BY <1>1, <1>2, <1>3 DEF Outcomes

\* The row a worker holds is written by that worker only.
LEMMA HeldRowKept ==
    ASSUME TypeOK, Owned, NEW w \in Workers, WorkerStep(w),
           NEW v \in Workers \ {w}, pc[v] \in Holding
    PROVE  /\ UNCHANGED <<pc[v], task[v], out[v]>>
           /\ task[v].url \in Urls
           /\ urls'[task[v].url] = urls[task[v].url]
<1>1. UNCHANGED <<pc[v], task[v], out[v]>> /\ task[v].url \in Urls
    BY WorkerAlone DEF OthersRest, TypeOK
<1>2. urls[task[v].url].status # "absent"
    BY DEF Owned, HeldStatus, HeldAs, Holding
<1>3. urls \in [Urls -> Row]
    BY DEF TypeOK, FrontierTypeOK
<1>4. CASE Admits(w)
    BY <1>1, <1>2, <1>3, <1>4 DEF Admits
<1>5. CASE Claims(w) \/ Marks(w)
    <2>1. HoldsRow(w) /\ HoldsRow(v) /\ task[w].url \in Urls
        BY <1>5 DEF Claims, Marks, HoldsRow, Holding, TypeOK
    <2>2. task[w].url # task[v].url
        BY <2>1 DEF Owned, ClaimExclusive
    <2>3. Marks(w) => out[w] \in Outcomes
        BY DEF Marks, TypeOK
    <2>4. QED
        BY <1>1, <1>3, <1>5, <2>1, <2>2, <2>3, MarkCounts DEF Claims, Marks, ClaimUrl
<1>6. QED  BY <1>1, <1>4, <1>5, WorkerWrites

-----------------------------------------------------------------------------
(* Attempts and redirects.                                                 *)

\* The counts a worker decides on are still those of its row: nobody else writes
\* to the row meanwhile.
CountsKnown(w) ==
    pc[w] \in Holding =>
        /\ task[w].attempts = urls[task[w].url].attempts
        /\ task[w].redirects = urls[task[w].url].redirects

\* A retry or a redirect that has been decided on has room in its budget.
Decided(w) ==
    /\ pc[w] \in {"mark", "remark"} /\ out[w] = "retryable_failed" =>
           task[w].attempts + 1 < MaxAttempts
    /\ pc[w] \in {"mark", "remark"} /\ out[w] = "requeue" =>
           task[w].redirects + 1 <= MaxRedirects
    /\ pc[w] = "redirect" => task[w].redirects + 1 <= MaxRedirects

\* The inductive invariant.
BudgetInv ==
    /\ AttemptBudget
    /\ \A w \in Workers : CountsKnown(w) /\ Decided(w)

LEMMA RetryWithin ==
    ASSUME NEW t, RetryDecision(t) = "retryable_failed", t.attempts \in Nat
    PROVE  t.attempts + 1 < MaxAttempts
BY PoolAssumption DEF RetryDecision

\* The counts and the decision of the worker that steps: it takes the counts from
\* the row it claims, and keeps them as long as it holds the row.
LEMMA OwnCounted ==
    ASSUME ~LostAcks, TypeOK, Owned, BudgetInv, NEW w \in Workers, WorkerStep(w),
           pc'[w] \in Holding
    PROVE  /\ pc[w] = "lock" \/ task'[w] = task[w]
           /\ CountsKnown(w)'
<1>1. CASE pc[w] = "lock"
    <2>1. PICK r \in Reply : CommitClaim(w, r)
        BY <1>1 DEF WorkerStep, Stop, Proceed, LockRow, FindNone, ClaimFails, Counted,
           DoCountInProgress, DoCountFutureRetryable, DoCountQueued, FetchDirect, FetchPage,
           FetchRedirect, FetchThrows, ResolveLink, ResolveRedirect, ResolveLinkThrows,
           ResolveRedirectThrows, RecordCandidate, Mark, AddBytes, Remark
    <2>2. r = "ok"
        BY <2>1 DEF CommitClaim, RetryInfra, Goto, TypeOK, Holding
    <2>3. /\ task'[w].url = task[w].url /\ urls' = ClaimUrl(task[w].url)
          /\ task'[w].attempts = urls[task[w].url].attempts
          /\ task'[w].redirects = urls[task[w].url].redirects
        BY <2>1, <2>2 DEF CommitClaim, After, TypeOK
    <2>4. task[w].url \in Urls /\ urls \in [Urls -> Row]
        BY <1>1 DEF TypeOK, FrontierTypeOK
    <2>5. QED  BY <1>1, <2>3, <2>4 DEF CountsKnown, ClaimUrl, Row
<1>2. CASE pc[w] # "lock"
    <2>1. pc[w] \in Holding /\ task'[w] = task[w]
        BY <1>2 DEF WorkerStep, Stop, Proceed, LockRow, FindNone, ClaimFails, CommitClaim,
           Counted, DoCountInProgress, DoCountFutureRetryable, DoCountQueued, FetchDirect,
           FetchPage, FetchRedirect, FetchThrows, ResolveLink, ResolveRedirect,
           ResolveLinkThrows, ResolveRedirectThrows, RecordCandidate, Mark, AddBytes,
           Remark, Resolve, ResolveThrows, Catch, Release, PassInfra, RetryInfra, Goto,
           TypeOK, Holding
    <2>2. /\ task[w].url \in Urls /\ urls \in [Urls -> Row]
          /\ urls[task[w].url].status # "absent" /\ CountsKnown(w)
        BY <2>1 DEF TypeOK, FrontierTypeOK, Owned, HeldStatus, HeldAs, Holding, BudgetInv
    <2>3. CASE urls' = urls \/ Admits(w)
        BY <2>1, <2>2, <2>3 DEF Admits, CountsKnown
    <2>4. CASE Marks(w) /\ urls' # urls
        <3>1. PICK r \in Reply : Mark(w, r) \/ Remark(w, r)
            BY <2>4 DEF Marks, WorkerStep, Stop, Proceed, LockRow, FindNone, ClaimFails,
               CommitClaim, Counted, DoCountInProgress, DoCountFutureRetryable,
               DoCountQueued, FetchDirect, FetchPage, FetchRedirect, FetchThrows,
               ResolveLink, ResolveRedirect, ResolveLinkThrows, ResolveRedirectThrows,
               RecordCandidate, AddBytes
        <3>2. r = "ok"
            BY <2>4, <3>1, NoLostAck DEF Mark, Remark, After
        <3>3. out[w] = "done"
            BY <3>1, <3>2 DEF Mark, Remark, Release, Goto, TypeOK, Holding
        <3>4. QED
            BY <2>1, <2>2, <2>4, <3>3, MarkCounts DEF Marks, CountsKnown, Outcomes, Settled
    <2>5. QED  BY <1>2, <2>1, <2>3, <2>4, WorkerWrites DEF Claims
<1>3. QED  BY <1>1, <1>2

\* What the worker has decided on when it comes to write or to follow a redirect.
LEMMA OwnDecided ==
    ASSUME ~LostAcks, TypeOK, Owned, BudgetInv, NEW w \in Workers, WorkerStep(w)
    PROVE  Decided(w)'
<1>1. pc[w] \in Holding => task[w].attempts \in Nat /\ task[w].redirects \in Nat
    BY DEF TypeOK, CrawlUrlTask
<1>2. CASE \/ FetchPage(w) \/ FetchRedirect(w)
           \/ \E a \in AnswerKind : FetchDirect(w, a) \/ FetchThrows(w, a)
    <2>1. pc[w] = "fetch" /\ task' = task /\ pc[w] \in Holding
        BY <1>2 DEF FetchPage, FetchRedirect, FetchDirect, FetchThrows, Holding
    <2>2. CASE FetchPage(w)
        BY <2>2 DEF FetchPage, Goto, TypeOK, Decided
    <2>3. CASE FetchRedirect(w)
        <3>1. /\ pc'[w] \in {"mark", "redirect"}
              /\ pc'[w] = "mark" => out'[w] \in {"permanent_failed", "requeue"}
            BY <2>3 DEF FetchRedirect, Goto, TypeOK
        <3>2. pc'[w] = "redirect" \/ (pc'[w] = "mark" /\ out'[w] = "requeue") =>
                  ~(task[w].redirects >= MaxRedirects)
            BY <2>3 DEF FetchRedirect, Goto, TypeOK
        <3>3. QED  BY <1>1, <2>1, <3>1, <3>2, PoolAssumption DEF Decided
    <2>4. ASSUME NEW a \in AnswerKind, FetchDirect(w, a) PROVE Decided(w)'
        <3>1. /\ pc'[w] = "mark" /\ a \in DOMAIN DirectOutcome(task[w])
              /\ out'[w] = DirectOutcome(task[w])[a]
            BY <2>4 DEF FetchDirect, Goto, TypeOK
        <3>2. out'[w] # "requeue" /\ (out'[w] = "retryable_failed" => out'[w] = RetryDecision(task[w]))
            BY <3>1, DecisionType DEF DirectOutcome
        <3>3. QED  BY <1>1, <2>1, <3>1, <3>2, RetryWithin DEF Decided
    <2>5. ASSUME NEW a \in AnswerKind, FetchThrows(w, a) PROVE Decided(w)'
        <3>1. /\ pc'[w] = "remark"
              /\ out'[w] \in {RetryDecision(task[w]), "permanent_failed"}
            BY <2>5 DEF FetchThrows, Goto, TypeOK
        <3>2. QED  BY <1>1, <2>1, <3>1, RetryWithin, DecisionType DEF Decided
    <2>6. QED  BY <1>2, <2>2, <2>3, <2>4, <2>5
<1>3. CASE Catch(w) /\ pc[w] \in Holding /\ task' = task
    <2>1. pc'[w] = "remark" /\ out'[w] = RetryDecision(task[w])
        BY <1>3 DEF Catch, Goto, TypeOK
    <2>2. QED  BY <1>1, <1>3, <2>1, RetryWithin, DecisionType DEF Decided
<1>4. CASE UNCHANGED <<pc, task, out>>
    BY <1>4 DEF BudgetInv, Decided
<1>5. CASE /\ ~(\/ FetchPage(w) \/ FetchRedirect(w)
                \/ \E a \in AnswerKind : FetchDirect(w, a) \/ FetchThrows(w, a))
           /\ ~(Catch(w) /\ pc[w] \in Holding /\ task' = task)
           /\ ~UNCHANGED <<pc, task, out>>
    <2>1. /\ pc'[w] \notin {"remark", "redirect"}
          /\ pc'[w] = "mark" => out'[w] \in {"done", "redirected"}
        BY <1>5 DEF WorkerStep, Stop, Proceed, LockRow, FindNone, ClaimFails, CommitClaim,
           Counted, DoCountInProgress, DoCountFutureRetryable, DoCountQueued,
           ResolveLink, ResolveRedirect, ResolveLinkThrows, ResolveRedirectThrows,
           RecordCandidate, Mark, AddBytes, Remark, Resolve, ResolveThrows, Release,
           PassInfra, RetryInfra, Goto, TypeOK, Holding
    <2>2. QED  BY <2>1 DEF Decided
<1>6. QED  BY <1>2, <1>3, <1>4, <1>5

\* No row passes its budget.
LEMMA BudgetKept ==
    ASSUME TypeOK, BudgetInv, NEW w \in Workers, WorkerStep(w)
    PROVE  AttemptBudget'
<1>1. \A u \in Urls : /\ urls[u].attempts \in Nat /\ urls[u].redirects \in Nat
                      /\ urls[u].attempts < MaxAttempts /\ urls[u].redirects <= MaxRedirects
    BY DEF TypeOK, FrontierTypeOK, Row, BudgetInv, AttemptBudget
<1>2. urls \in [Urls -> Row]
    BY DEF TypeOK, FrontierTypeOK
<1>3. pc[w] \in Holding \cup {"lock"} => task[w].url \in Urls
    BY DEF TypeOK
<1>4. MaxAttempts \in Nat \ {0} /\ MaxRedirects \in Nat
    BY PoolAssumption
<1>5. CASE urls' = urls
    BY <1>1, <1>5 DEF AttemptBudget
<1>6. CASE Admits(w)
    <2>1. PICK to \in Urls, d \in Nat, n \in Nat :
              /\ n = 0 \/ (pc[w] = "redirect" /\ n = task[w].redirects + 1)
              /\ urls' = [urls EXCEPT ![to] = NewRow(d, n)]
        BY <1>6 DEF Admits
    <2>2. n <= MaxRedirects
        BY <1>4, <2>1 DEF BudgetInv, Decided
    <2>3. NewRow(d, n).attempts = 0 /\ NewRow(d, n).redirects = n
        BY DEF NewRow
    <2>4. QED  BY <1>1, <1>2, <1>4, <2>1, <2>2, <2>3 DEF AttemptBudget
<1>7. CASE Claims(w)
    BY <1>1, <1>2, <1>3, <1>7 DEF Claims, ClaimUrl, AttemptBudget, Row
<1>8. CASE Marks(w)
    <2> DEFINE u == task[w].url
    <2>1. u \in Urls /\ out[w] \in Outcomes /\ urls' = MarkOutcome(u, out[w])
        BY <1>3, <1>8 DEF Marks, Holding, TypeOK
    <2>2. /\ urls[u].attempts = task[w].attempts /\ urls[u].redirects = task[w].redirects
          /\ out[w] = "retryable_failed" => task[w].attempts + 1 < MaxAttempts
          /\ out[w] = "requeue" => task[w].redirects + 1 <= MaxRedirects
        BY <1>8 DEF Marks, Holding, BudgetInv, CountsKnown, Decided
    <2>3. urls'[u].attempts < MaxAttempts /\ urls'[u].redirects <= MaxRedirects
        BY <1>1, <1>2, <2>1, <2>2, MarkCounts
    <2>4. \A v \in Urls \ {u} : urls'[v] = urls[v]
        BY <1>2, <2>1, MarkCounts
    <2>5. QED  BY <1>1, <2>3, <2>4 DEF AttemptBudget
<1>9. QED  BY <1>5, <1>6, <1>7, <1>8, WorkerWrites

LEMMA BudgetWorker ==
    ASSUME ~LostAcks, TypeOK, Owned, BudgetInv, NEW w \in Workers, WorkerStep(w)
    PROVE  BudgetInv'
<1>1. AttemptBudget'
    BY BudgetKept
<1>2. CountsKnown(w)' /\ Decided(w)'
    BY OwnCounted, OwnDecided DEF CountsKnown
<1>3. ASSUME NEW v \in Workers \ {w} PROVE CountsKnown(v)' /\ Decided(v)'
    <2>1. UNCHANGED <<pc[v], task[v], out[v]>> /\ CountsKnown(v) /\ Decided(v)
        BY WorkerAlone DEF OthersRest, BudgetInv
    <2>2. Decided(v)'
        BY <2>1 DEF Decided
    <2>3. CountsKnown(v)'
        BY <2>1, HeldRowKept DEF CountsKnown
    <2>4. QED  BY <2>2, <2>3
<1>4. QED  BY <1>1, <1>2, <1>3 DEF BudgetInv

-----------------------------------------------------------------------------
(* The steps of the process around its workers.                            *)

ProcessStep ==
    \/ PoolStep \/ Shutdown \/ Expire \/ Crash \/ TimePasses
    \/ \E m \in NewMaxUrls \cup {maxUrls} : Resume(m)

\* They leave the workers where they are, or all of them at the start or the end
\* of a session, with the byte counter as it was.
LEMMA ProcessWorkers ==
    ASSUME ProcessStep
    PROVE  /\ totalBytes' = totalBytes
           /\ \/ UNCHANGED <<pc, task, out>>
              \/ \A w \in Workers : pc'[w] \in {"idle", "top"}
BY DEF ProcessStep, PoolStep, CreateRun, EnqueueSeed, Recover, Finalize, FinishRun, Fallback,
   Shutdown, Expire, Crash, TimePasses, Resume, Forget, StartPool, worker, run, control

\* They write to a row what no count and no settled row depends on.
LEMMA ProcessRows ==
    ASSUME TypeOK, ProcessStep, NEW u \in Urls
    PROVE  /\ \/ UNCHANGED <<urls[u].attempts, urls[u].redirects>>
              \/ urls[u].status = "absent" /\ urls'[u].attempts = 0 /\ urls'[u].redirects = 0
           /\ \/ urls'[u].status = urls[u].status
              \/ urls[u].status = "absent" /\ urls'[u].status = "queued"
              \/ urls[u].status = "in_progress" /\ urls'[u].status = "queued"
<1>1. urls \in [Urls -> Row]
    BY DEF TypeOK, FrontierTypeOK
<1>2. CASE urls' = urls
    BY <1>2
<1>3. CASE EnqueueUrl(Seed, 0, 0)
    BY <1>1, <1>3 DEF EnqueueUrl, NewRow, Present
<1>4. CASE urls' = RecoverAllInProgress
    BY <1>1, <1>4 DEF RecoverAllInProgress, Row
<1>5. CASE \E v \in Urls : ComeDue(v)
    BY <1>1, <1>5 DEF ComeDue, Row
<1>6. QED
    BY <1>2, <1>3, <1>4, <1>5 DEF ProcessStep, PoolStep, CreateRun, EnqueueSeed, Recover,
       After, Finalize, FinishRun, Fallback, Shutdown, Expire, Crash, TimePasses, Resume,
       durable

\* So the counts that a worker knows stay those of its row.
LEMMA BudgetProcess ==
    ASSUME TypeOK, Owned, BudgetInv, ProcessStep
    PROVE  BudgetInv'
<1>1. AttemptBudget'
    <2> SUFFICES ASSUME NEW u \in Urls
                 PROVE  urls'[u].attempts < MaxAttempts /\ urls'[u].redirects <= MaxRedirects
        BY DEF AttemptBudget
    <2>1. MaxAttempts \in Nat \ {0} /\ MaxRedirects \in Nat
        BY PoolAssumption
    <2>2. QED  BY <2>1, ProcessRows DEF BudgetInv, AttemptBudget
<1>2. ASSUME NEW w \in Workers PROVE CountsKnown(w)' /\ Decided(w)'
    <2>1. CASE pc'[w] \in {"idle", "top"}
        BY <2>1 DEF CountsKnown, Decided, Holding
    <2>2. CASE UNCHANGED <<pc, task, out>>
        <3>1. CountsKnown(w) /\ Decided(w)
            BY DEF BudgetInv
        <3>2. pc[w] \in Holding =>
                  task[w].url \in Urls /\ urls[task[w].url].status # "absent"
            BY DEF TypeOK, Owned, HeldStatus, HeldAs, Holding
        <3>3. CountsKnown(w)'
            BY <2>2, <3>1, <3>2, ProcessRows DEF CountsKnown
        <3>4. QED  BY <2>2, <3>1, <3>3 DEF Decided
    <2>3. QED  BY <2>1, <2>2, ProcessWorkers
<1>3. QED  BY <1>1, <1>2 DEF BudgetInv

LEMMA BudgetInit == Init => BudgetInv
<1> SUFFICES ASSUME Init PROVE BudgetInv
    OBVIOUS
<1>1. \A u \in Urls : urls[u].attempts = 0 /\ urls[u].redirects = 0
    BY DEF Init, FrontierInit, AbsentRow
<1>2. \A w \in Workers : pc[w] = "idle"
    BY DEF Init
<1>3. QED
    BY <1>1, <1>2, PoolAssumption DEF BudgetInv, AttemptBudget, CountsKnown, Decided, Holding

\* Counted retries stay below max_attempts and self-redirects within
\* MAX_REDIRECTS, for every site and pool, although the worker decides on the row
\* as it was when it was claimed: no other step changes these counts meanwhile.
THEOREM AttemptBudgetTheorem ==
    ASSUME ~LostAcks
    PROVE  Spec => []AttemptBudget
<1>1. Init => BudgetInv
    BY BudgetInit
<1>2. IInv /\ BudgetInv /\ [Next]_vars => BudgetInv'
    <2> SUFFICES ASSUME IInv, BudgetInv, [Next]_vars PROVE BudgetInv'
        OBVIOUS
    <2>1. TypeOK /\ Owned
        BY DEF IInv
    <2>2. CASE Ended \/ UNCHANGED vars
        BY <2>2 DEF Ended, vars, durable, worker, BudgetInv, AttemptBudget, CountsKnown,
           Decided
    <2>3. QED
        BY <2>1, <2>2, BudgetWorker, BudgetProcess DEF Next, ProcessStep
<1>3. BudgetInv => AttemptBudget
    BY DEF BudgetInv
<1>4. QED  BY <1>1, <1>2, <1>3, InductiveInvariant, PTL DEF Spec

-----------------------------------------------------------------------------
(* Settled rows.                                                           *)

\* The one way a settled row changes: its worker failed after it had written
\* `done`, and the catch block writes another outcome.
ReopenedByCatch(u) ==
    urls[u].status = "done" /\ \E w \in Workers : pc[w] = "remark" /\ task[w].url = u

LEMMA SettledKept ==
    ASSUME TypeOK, Owned, [Next]_vars, NEW u \in Urls, urls[u].status \in Settled
    PROVE  urls'[u].status = urls[u].status \/ ReopenedByCatch(u)
<1>1. urls \in [Urls -> Row] /\ urls[u].status \notin {"absent", "in_progress"} \cup Claimable
    BY DEF TypeOK, FrontierTypeOK, Settled, Claimable
<1>2. ASSUME NEW w \in Workers, WorkerStep(w)
      PROVE  urls'[u].status = urls[u].status \/ ReopenedByCatch(u)
    <2>1. CASE Admits(w)
        BY <1>1, <2>1 DEF Admits
    <2>2. CASE Claims(w)
        <3>1. task[w].url \in Urls /\ urls[task[w].url].status \in Claimable
            BY <2>2 DEF Claims, TypeOK, Owned, HeldStatus, HeldAs
        <3>2. QED  BY <1>1, <2>2, <3>1, ClaimStatus DEF Claims
    <2>3. CASE Marks(w)
        <3>1. /\ task[w].url \in Urls /\ out[w] \in Outcomes
              /\ pc[w] = "mark" => urls[task[w].url].status = "in_progress"
              /\ pc[w] = "remark" => urls[task[w].url].status \in {"in_progress", "done"}
            BY <2>3 DEF Marks, Holding, TypeOK, Owned, HeldStatus, HeldAs
        <3>2. CASE u = task[w].url
            BY <1>1, <2>3, <3>1, <3>2 DEF Marks, ReopenedByCatch
        <3>3. CASE u # task[w].url
            BY <1>1, <2>3, <3>1, <3>3, MarkCounts DEF Marks
        <3>4. QED  BY <3>2, <3>3
    <2>4. QED  BY <1>2, <2>1, <2>2, <2>3, WorkerWrites
<1>3. CASE ProcessStep
    BY <1>1, <1>3, ProcessRows
<1>4. CASE Ended \/ UNCHANGED vars
    BY <1>4 DEF Ended, vars, durable
<1>5. QED  BY <1>2, <1>3, <1>4 DEF Next, ProcessStep

\* Whatever fails and dies, a settled row stays as it is, except a done row that
\* the catch block of its own worker reopens.
THEOREM ReopenTheorem ==
    ASSUME ~LostAcks
    PROVE  Spec => [][\A u \in Urls : urls[u].status \in Settled =>
                          urls'[u].status = urls[u].status \/ ReopenedByCatch(u)]_vars
<1>1. IInv /\ [Next]_vars =>
          [\A u \in Urls : urls[u].status \in Settled =>
               urls'[u].status = urls[u].status \/ ReopenedByCatch(u)]_vars
    BY SettledKept DEF IInv
<1>2. QED  BY <1>1, InductiveInvariant, PTL DEF Spec

\* Without a failing statement, a worker comes to its catch block only from the
\* storage of the content, with its row in progress.
CaughtInProgress ==
    \A w \in Workers : pc[w] = "remark" => urls[task[w].url].status = "in_progress"

LEMMA CaughtStep ==
    ASSUME MaxFaults = 0, IInv, CaughtInProgress, [Next]_vars
    PROVE  CaughtInProgress'
<1>1. TypeOK /\ Owned /\ faults \in Nat
    BY DEF IInv, TypeOK
<1>2. ASSUME NEW r \in Reply, Answered(r) PROVE r = "ok"
    BY <1>1, <1>2 DEF Answered
<1>3. ASSUME NEW w \in Workers, WorkerStep(w) PROVE CaughtInProgress'
    <2>1. ASSUME NEW v \in Workers \ {w}, pc'[v] = "remark"
          PROVE  urls'[task'[v].url].status = "in_progress"
        <3>1. pc[v] = "remark"
            BY <1>1, <1>3, <2>1, WorkerAlone DEF OthersRest
        <3>2. UNCHANGED <<task[v], urls[task[v].url]>>
            BY <1>1, <1>3, <3>1, HeldRowKept DEF Holding
        <3>3. QED  BY <3>1, <3>2 DEF CaughtInProgress
    <2>2. ASSUME pc'[w] = "remark"
          PROVE  urls'[task'[w].url].status = "in_progress"
        <3>1. PICK a \in AnswerKind : FetchThrows(w, a)
            BY <1>1, <1>2, <1>3, <2>2 DEF WorkerStep, Stop, Proceed, LockRow, FindNone,
               ClaimFails, CommitClaim, Counted, DoCountInProgress, DoCountFutureRetryable,
               DoCountQueued, FetchDirect, FetchPage, FetchRedirect, ResolveLink,
               ResolveRedirect, ResolveLinkThrows, ResolveRedirectThrows, RecordCandidate,
               Mark, AddBytes, Remark, Resolve, ResolveThrows, Release, PassInfra,
               RetryInfra, Goto, TypeOK, Reply
        <3>2. pc[w] = "fetch" /\ urls' = urls /\ task' = task
            BY <3>1 DEF FetchThrows, durable
        <3>3. QED  BY <1>1, <3>2 DEF Owned, HeldStatus, HeldAs, Holding
    <2>3. QED  BY <2>1, <2>2 DEF CaughtInProgress
<1>4. CASE ProcessStep
    <2>1. SUFFICES ASSUME NEW w \in Workers, pc'[w] = "remark"
                   PROVE  urls'[task'[w].url].status = "in_progress"
        BY DEF CaughtInProgress
    <2>2. UNCHANGED <<pc, task, out>> /\ pc[w] = "remark" /\ task[w].url \in Urls
        BY <1>1, <1>4, <2>1, ProcessWorkers DEF TypeOK, Holding
    <2>3. urls[task[w].url].status = "in_progress"
        BY <2>2 DEF CaughtInProgress
    <2>4. phase = "live"
        BY <2>2 DEF IInv, Session, Resting
    <2>5. urls'[task[w].url].status = "in_progress"
        <3>1. urls' = urls \/ \E v \in Urls : ComeDue(v)
            BY <1>4, <2>4 DEF ProcessStep, PoolStep, CreateRun, EnqueueSeed, Recover,
               Finalize, FinishRun, Fallback, Shutdown, Expire, Crash, TimePasses, Resume,
               durable
        <3>2. QED
            BY <1>1, <2>2, <2>3, <3>1 DEF ComeDue, TypeOK, FrontierTypeOK, Row
    <2>6. QED  BY <2>2, <2>5
<1>5. CASE Ended \/ UNCHANGED vars
    BY <1>5 DEF Ended, vars, durable, worker, CaughtInProgress
<1>6. QED  BY <1>3, <1>4, <1>5 DEF Next, ProcessStep

LEMMA Caught ==
    ASSUME ~LostAcks, MaxFaults = 0
    PROVE  Spec => []CaughtInProgress
<1>1. Init => CaughtInProgress
    BY DEF Init, CaughtInProgress
<1>2. IInv /\ CaughtInProgress /\ [Next]_vars => CaughtInProgress'
    BY CaughtStep
<1>3. QED  BY <1>1, <1>2, InductiveInvariant, PTL DEF Spec

\* So a URL that is settled stays settled, as long as no statement fails; a crash
\* and a resume are no exception.
THEOREM SettledTheorem ==
    ASSUME ~LostAcks, MaxFaults = 0
    PROVE  Spec => SettledIsFinal
<1>1. CaughtInProgress => \A u \in Urls : ~ReopenedByCatch(u)
    BY DEF CaughtInProgress, ReopenedByCatch
<1>2. /\ CaughtInProgress
      /\ [\A u \in Urls : urls[u].status \in Settled =>
              urls'[u].status = urls[u].status \/ ReopenedByCatch(u)]_vars
      => [\A u \in Urls : urls[u].status \in Settled =>
              (urls[u].status)' = urls[u].status]_vars
    BY <1>1
<1>3. QED  BY <1>2, Caught, ReopenTheorem, PTL DEF SettledIsFinal

-----------------------------------------------------------------------------
(* The byte counter and the pages that are done.                           *)

Done == WithStatus("done")

\* A worker that has written `done` and not yet counted the page, or that has
\* failed to and is about to write another outcome.
Owes(w) == pc[w] \in {"bytes", "remark"} /\ urls[task[w].url].status = "done"
Owing == {w \in Workers : Owes(w)}

\* Each page is counted at most once: what is not counted yet is still owed.  A
\* page is left uncounted only by a failure or a crash.
BytesCovered == totalBytes + Cardinality(Owing) <= Cardinality(Done)
BytesExact ==
    MaxFaults = 0 /\ ~Crashes => totalBytes + Cardinality(Owing) = Cardinality(Done)

LEMMA Countable ==
    /\ IsFiniteSet(Owing) /\ IsFiniteSet(Done)
    /\ Cardinality(Owing) \in Nat /\ Cardinality(Done) \in Nat
<1>1. Owing \subseteq Workers /\ Done \subseteq Urls
    BY DEF Owing, Done, WithStatus
<1>2. IsFiniteSet(Owing) /\ IsFiniteSet(Done)
    BY <1>1, PoolAssumption, UrlsAssumption, FS_Subset
<1>3. QED  BY <1>2, FS_CardinalityType

\* One element more, one element less.
LEMMA AddOne ==
    ASSUME NEW S, NEW x, IsFiniteSet(S), x \notin S
    PROVE  Cardinality(S \cup {x}) = Cardinality(S) + 1
BY FS_AddElement

LEMMA DropOne ==
    ASSUME NEW S, NEW x \in S, IsFiniteSet(S)
    PROVE  Cardinality(S \ {x}) = Cardinality(S) - 1
BY FS_RemoveElement

\* The other workers owe what they owed.
LEMMA OthersOwe ==
    ASSUME TypeOK, Owned, NEW w \in Workers, WorkerStep(w), NEW v \in Workers \ {w}
    PROVE  Owes(v)' <=> Owes(v)
<1>1. UNCHANGED <<pc[v], task[v], out[v]>>
    BY WorkerAlone DEF OthersRest
<1>2. CASE pc[v] \in {"bytes", "remark"}
    <2>1. urls'[task[v].url] = urls[task[v].url]
        BY <1>2, HeldRowKept DEF Holding
    <2>2. QED  BY <1>1, <1>2, <2>1 DEF Owes
<1>3. CASE pc[v] \notin {"bytes", "remark"}
    BY <1>1, <1>3 DEF Owes
<1>4. QED  BY <1>2, <1>3

\* What a step of a worker does to what is done, what is owed and what is counted.
\* The last case needs a statement that fails for good.
Moved(w) ==
    \/ Done' = Done /\ totalBytes' = totalBytes /\ (Owes(w)' <=> Owes(w))
    \/ /\ \E u \in Urls \ Done : Done' = Done \cup {u}
       /\ totalBytes' = totalBytes /\ ~Owes(w) /\ Owes(w)'
    \/ Done' = Done /\ totalBytes' = totalBytes + 1 /\ Owes(w) /\ ~Owes(w)'
    \/ /\ \E u \in Done : Done' = Done \ {u}
       /\ totalBytes' = totalBytes /\ Owes(w) /\ ~Owes(w)'
    \/ /\ Done' = Done /\ totalBytes' = totalBytes /\ Owes(w) /\ ~Owes(w)'
       /\ faults < MaxFaults

LEMMA BytesMoves ==
    ASSUME ~LostAcks, TypeOK, Owned, WalkInv, NEW w \in Workers, WorkerStep(w)
    PROVE  Moved(w)
<1>1. urls \in [Urls -> Row]
    BY DEF TypeOK, FrontierTypeOK
<1>2. pc[w] \in Holding => task[w].url \in Urls
    BY DEF TypeOK
<1>3. ASSUME NEW r \in Reply, AddBytes(w, r) PROVE Moved(w)
    <2>1. Owes(w) /\ urls' = urls /\ r \in {"ok", "failed"}
        BY <1>3, NoLostAck DEF AddBytes, Owned, HeldStatus, HeldAs, Owes, durable
    <2>2. Done' = Done
        BY <2>1 DEF Done, WithStatus
    <2>3. CASE r = "ok"
        <3>1. totalBytes' = totalBytes + 1 /\ pc'[w] = "top"
            BY <1>3, <2>3 DEF AddBytes, After, Release, Goto, TypeOK
        <3>2. QED  BY <2>1, <2>2, <3>1 DEF Owes, Moved
    <2>4. CASE r = "failed"
        <3>1. totalBytes' = totalBytes /\ pc'[w] = "remark" /\ task' = task /\ pc[w] = "bytes"
            BY <1>3, <2>4 DEF AddBytes, After, Catch, Goto, TypeOK
        <3>2. Owes(w)'
            BY <2>1, <3>1 DEF Owes
        <3>3. QED  BY <2>1, <2>2, <3>1, <3>2 DEF Moved
    <2>5. QED  BY <2>1, <2>3, <2>4
<1>4. ASSUME NEW r \in Reply, Remark(w, r) PROVE Moved(w)
    <2>1. /\ pc[w] = "remark" /\ totalBytes' = totalBytes /\ r \in {"ok", "failed"}
          /\ task[w].url \in Urls /\ out[w] \in Outcomes /\ out[w] # "done"
        BY <1>2, <1>4, NoLostAck DEF Remark, run, Holding, TypeOK, WalkInv, Walked
    <2>2. CASE r = "ok"
        <3>1. pc'[w] = "top" /\ urls' = MarkOutcome(task[w].url, out[w])
            BY <1>4, <2>2 DEF Remark, After, Release, Goto, TypeOK
        <3>2. /\ urls'[task[w].url].status # "done"
              /\ \A v \in Urls \ {task[w].url} : urls'[v] = urls[v]
            BY <1>1, <2>1, <3>1, MarkWritten, MarkCounts DEF Settled
        <3>3. Done' = Done \ {task[w].url}
            BY <2>1, <3>2 DEF Done, WithStatus
        <3>4. ~Owes(w)'
            BY <3>1 DEF Owes
        <3>5. CASE Owes(w)
            <4>1. task[w].url \in Done
                BY <2>1, <3>5 DEF Owes, Done, WithStatus
            <4>2. QED  BY <2>1, <3>3, <3>4, <3>5, <4>1 DEF Moved
        <3>6. CASE ~Owes(w)
            <4>1. task[w].url \notin Done
                BY <2>1, <3>6 DEF Owes, Done, WithStatus
            <4>2. QED  BY <2>1, <3>3, <3>4, <3>6, <4>1 DEF Moved
        <3>7. QED  BY <3>5, <3>6
    <2>3. CASE r = "failed"
        <3>1. urls' = urls /\ faults < MaxFaults
            BY <1>4, <2>3 DEF Remark, After, Answered
        <3>2. Done' = Done
            BY <3>1 DEF Done, WithStatus
        <3>3. pc'[w] = "crashed" \/ UNCHANGED <<pc, task>>
            BY <1>4, <2>3 DEF Remark, Release, Goto, TypeOK
        <3>4. ~Owes(w)' \/ (Owes(w)' <=> Owes(w))
            BY <3>1, <3>3 DEF Owes
        <3>5. Owes(w) \in BOOLEAN
            BY DEF Owes
        <3>6. QED  BY <2>1, <3>1, <3>2, <3>4, <3>5 DEF Moved
    <2>4. QED  BY <2>1, <2>2, <2>3
<1>5. ASSUME NEW r \in Reply, Mark(w, r) PROVE Moved(w)
    <2>1. /\ pc[w] = "mark" /\ totalBytes' = totalBytes /\ r \in {"ok", "failed"}
          /\ task[w].url \in Urls /\ out[w] \in Outcomes /\ ~Owes(w)
          /\ urls[task[w].url].status = "in_progress"
        BY <1>2, <1>5, NoLostAck DEF Mark, run, Holding, TypeOK, Owes, Owned, HeldStatus,
           HeldAs
    <2>2. CASE r = "ok"
        <3>1. urls' = MarkOutcome(task[w].url, out[w])
            BY <1>5, <2>2 DEF Mark, After
        <3>2. /\ (urls'[task[w].url].status = "done") = (out[w] = "done")
              /\ \A v \in Urls \ {task[w].url} : urls'[v] = urls[v]
            BY <1>1, <2>1, <3>1, MarkWritten, MarkStatus, MarkCounts DEF Settled
        <3>3. CASE out[w] = "done"
            <4>1. pc'[w] = "bytes" /\ task' = task
                BY <1>5, <2>2, <3>3 DEF Mark, Goto, TypeOK
            <4>2. task[w].url \notin Done /\ Done' = Done \cup {task[w].url}
                BY <2>1, <3>2, <3>3 DEF Done, WithStatus
            <4>3. Owes(w)'
                BY <3>2, <3>3, <4>1 DEF Owes
            <4>4. QED  BY <2>1, <4>2, <4>3 DEF Moved
        <3>4. CASE out[w] # "done"
            <4>1. pc'[w] = "top"
                BY <1>5, <2>2, <3>4 DEF Mark, Release, Goto, TypeOK
            <4>2. Done' = Done
                BY <2>1, <3>2, <3>4 DEF Done, WithStatus
            <4>3. ~Owes(w)'
                BY <4>1 DEF Owes
            <4>4. QED  BY <2>1, <4>2, <4>3 DEF Moved
        <3>5. QED  BY <3>3, <3>4
    <2>3. CASE r = "failed"
        <3>1. urls' = urls /\ task' = task
            BY <1>5, <2>3 DEF Mark, After
        <3>2. Done' = Done /\ ~Owes(w)'
            BY <2>1, <3>1 DEF Done, WithStatus, Owes
        <3>3. QED  BY <2>1, <3>2 DEF Moved
    <2>4. QED  BY <2>1, <2>2, <2>3
<1>6. CASE ~\E r \in Reply : AddBytes(w, r) \/ Remark(w, r) \/ Mark(w, r)
    <2>1. totalBytes' = totalBytes /\ pc[w] \notin {"mark", "bytes", "remark"}
        BY <1>6 DEF WorkerStep, Stop, Proceed, LockRow, FindNone, ClaimFails, CommitClaim,
           Counted, DoCountInProgress, DoCountFutureRetryable, DoCountQueued, FetchDirect,
           FetchPage, FetchRedirect, FetchThrows, ResolveLink, ResolveRedirect,
           ResolveLinkThrows, ResolveRedirectThrows, RecordCandidate, Resolve,
           ResolveThrows, run
    <2>2. urls' = urls \/ Admits(w) \/ Claims(w)
        BY <2>1, WorkerWrites DEF Marks
    <2>3. Done' = Done
        <3>1. CASE Admits(w)
            BY <1>1, <3>1 DEF Admits, Done, WithStatus, NewRow
        <3>2. CASE Claims(w)
            <4>1. task[w].url \in Urls /\ urls[task[w].url].status # "done"
                BY <3>2 DEF Claims, TypeOK, Owned, HeldStatus, HeldAs, Claimable
            <4>2. QED  BY <1>1, <3>2, <4>1, ClaimStatus DEF Claims, Done, WithStatus
        <3>3. QED  BY <2>2, <3>1, <3>2 DEF Done, WithStatus
    <2>4. ~Owes(w)'
        <3>1. SUFFICES ASSUME pc'[w] \in {"bytes", "remark"}
                       PROVE  urls'[task'[w].url].status # "done"
            BY DEF Owes
        <3>2. pc[w] \in {"fetch", "links", "redirect", "edge"} /\ task' = task
            BY <1>6, <3>1 DEF WorkerStep, Stop, Proceed, LockRow, FindNone, ClaimFails,
               CommitClaim, Counted, DoCountInProgress, DoCountFutureRetryable,
               DoCountQueued, FetchDirect, FetchPage, FetchRedirect, FetchThrows,
               ResolveLink, ResolveRedirect, ResolveLinkThrows, ResolveRedirectThrows,
               RecordCandidate, Resolve, ResolveThrows, PassInfra, RetryInfra, Goto, TypeOK
        <3>3. task[w].url \in Urls /\ urls[task[w].url].status = "in_progress"
            BY <3>2 DEF TypeOK, Owned, HeldStatus, HeldAs, Holding
        <3>4. task[w].url \notin Done
            BY <3>3 DEF Done, WithStatus
        <3>5. QED  BY <2>3, <3>2, <3>3, <3>4 DEF Done, WithStatus
    <2>5. QED  BY <2>1, <2>3, <2>4 DEF Owes, Moved
<1>7. QED  BY <1>3, <1>4, <1>5, <1>6

LEMMA BytesWorker ==
    ASSUME ~LostAcks, TypeOK, Owned, WalkInv, BytesCovered, BytesExact,
           NEW w \in Workers, WorkerStep(w)
    PROVE  BytesCovered' /\ BytesExact'
<1>1. /\ IsFiniteSet(Owing) /\ IsFiniteSet(Done)
      /\ Cardinality(Owing) \in Nat /\ Cardinality(Done) \in Nat /\ totalBytes \in Nat
      /\ faults \in Nat
    BY Countable DEF TypeOK
<1>2. \A v \in Workers \ {w} : Owes(v)' <=> Owes(v)
    BY OthersOwe
<1>3. /\ Owes(w)' /\ Owes(w) => Owing' = Owing
      /\ ~Owes(w)' /\ ~Owes(w) => Owing' = Owing
      /\ Owes(w)' /\ ~Owes(w) => w \notin Owing /\ Owing' = Owing \cup {w}
      /\ ~Owes(w)' /\ Owes(w) => w \in Owing /\ Owing' = Owing \ {w}
    BY <1>2 DEF Owing
<1>4. CASE Done' = Done /\ totalBytes' = totalBytes /\ (Owes(w)' <=> Owes(w))
    BY <1>3, <1>4 DEF BytesCovered, BytesExact
<1>5. CASE /\ \E u \in Urls \ Done : Done' = Done \cup {u}
           /\ totalBytes' = totalBytes /\ ~Owes(w) /\ Owes(w)'
    <2>1. Cardinality(Owing') = Cardinality(Owing) + 1
        BY <1>1, <1>3, <1>5, AddOne
    <2>2. Cardinality(Done') = Cardinality(Done) + 1
        BY <1>1, <1>5, AddOne
    <2>3. QED  BY <1>1, <1>5, <2>1, <2>2 DEF BytesCovered, BytesExact
<1>6. CASE Done' = Done /\ totalBytes' = totalBytes + 1 /\ Owes(w) /\ ~Owes(w)'
    <2>1. Cardinality(Owing') = Cardinality(Owing) - 1
        BY <1>1, <1>3, <1>6, DropOne
    <2>2. QED  BY <1>1, <1>6, <2>1 DEF BytesCovered, BytesExact
<1>7. CASE /\ \E u \in Done : Done' = Done \ {u}
           /\ totalBytes' = totalBytes /\ Owes(w) /\ ~Owes(w)'
    <2>1. Cardinality(Owing') = Cardinality(Owing) - 1
        BY <1>1, <1>3, <1>7, DropOne
    <2>2. Cardinality(Done') = Cardinality(Done) - 1
        BY <1>1, <1>7, DropOne
    <2>3. QED  BY <1>1, <1>7, <2>1, <2>2 DEF BytesCovered, BytesExact
<1>8. CASE /\ Done' = Done /\ totalBytes' = totalBytes /\ Owes(w) /\ ~Owes(w)'
           /\ faults < MaxFaults
    <2>1. Cardinality(Owing') = Cardinality(Owing) - 1
        BY <1>1, <1>3, <1>8, DropOne
    <2>2. MaxFaults # 0
        BY <1>1, <1>8
    <2>3. QED  BY <1>1, <1>8, <2>1, <2>2 DEF BytesCovered, BytesExact
<1>9. QED  BY <1>4, <1>5, <1>6, <1>7, <1>8, BytesMoves DEF Moved

\* A crash leaves what was owed uncounted; the other steps around the workers find
\* nothing owed or leave it so.
LEMMA BytesProcess ==
    ASSUME IInv, BytesCovered, BytesExact, ProcessStep
    PROVE  BytesCovered' /\ BytesExact'
<1>1. TypeOK /\ Resting /\ totalBytes' = totalBytes /\ totalBytes \in Nat
    BY ProcessWorkers DEF IInv, Session, TypeOK
<1>2. Done' = Done
    BY <1>1, ProcessRows DEF Done, WithStatus
<1>3. CASE \A w \in Workers : ~Owes(w)'
    <2>1. Owing' = {}
        BY <1>3 DEF Owing
    <2>2. Cardinality(Owing') = 0
        BY <2>1, FS_EmptySet
    <2>3. BytesCovered'
        BY <1>1, <1>2, <2>2, Countable DEF BytesCovered
    <2>4. BytesExact'
        <3>1. CASE Crash
            BY <3>1 DEF Crash, BytesExact
        <3>2. CASE ~Crash
            <4>1. Owing = {}
                <5>1. CASE phase = "live"
                    <6>1. UNCHANGED <<pc, task>> \/ FALSE
                        BY <3>2, <5>1 DEF ProcessStep, PoolStep, CreateRun, EnqueueSeed,
                           Recover, Finalize, FinishRun, Fallback, Shutdown, Expire,
                           TimePasses, Resume, worker
                    <6>2. \A w \in Workers : Owes(w) => task[w].url \in Urls
                        BY <1>1 DEF Owes, TypeOK, Holding
                    <6>3. \A w \in Workers : Owes(w) => Owes(w)'
                        BY <1>2, <6>1, <6>2 DEF Owes, Done, WithStatus
                    <6>4. QED  BY <1>3, <6>3 DEF Owing
                <5>2. CASE phase # "live"
                    BY <1>1, <5>2 DEF Resting, Owing, Owes
                <5>3. QED  BY <5>1, <5>2
            <4>2. QED  BY <1>1, <1>2, <2>1, <4>1 DEF BytesExact
        <3>3. QED  BY <3>1, <3>2
    <2>5. QED  BY <2>3, <2>4
<1>4. CASE UNCHANGED <<pc, task>>
    <2>1. \A w \in Workers : pc[w] \in {"bytes", "remark"} => task[w].url \in Urls
        BY <1>1 DEF TypeOK, Holding
    <2>2. \A w \in Workers : Owes(w)' <=> Owes(w)
        BY <1>2, <1>4, <2>1 DEF Owes, Done, WithStatus
    <2>3. Owing' = Owing
        BY <2>2 DEF Owing
    <2>4. QED  BY <1>1, <1>2, <2>3 DEF BytesCovered, BytesExact
<1>5. QED
    <2>1. \A w \in Workers : pc'[w] \in {"idle", "top"} => ~Owes(w)'
        BY DEF Owes
    <2>2. QED  BY <1>3, <1>4, <2>1, ProcessWorkers

LEMMA BytesInit == Init => BytesCovered /\ BytesExact
<1> SUFFICES ASSUME Init PROVE BytesCovered /\ BytesExact
    OBVIOUS
<1>1. Owing = {} /\ Done = {} /\ totalBytes = 0
    BY DEF Init, FrontierInit, AbsentRow, Owing, Owes, Done, WithStatus
<1>2. QED  BY <1>1, FS_EmptySet DEF BytesCovered, BytesExact

LEMMA BytesInvariant ==
    ASSUME ~LostAcks
    PROVE  Spec => [](BytesCovered /\ BytesExact)
<1>1. Init => BytesCovered /\ BytesExact
    BY BytesInit
<1>2. IInv /\ DiscoveryInv /\ (BytesCovered /\ BytesExact) /\ [Next]_vars =>
          (BytesCovered /\ BytesExact)'
    <2> SUFFICES ASSUME IInv, DiscoveryInv, BytesCovered, BytesExact, [Next]_vars
                 PROVE  BytesCovered' /\ BytesExact'
        OBVIOUS
    <2>1. TypeOK /\ Owned /\ WalkInv
        BY DEF IInv, DiscoveryInv
    <2>2. CASE Ended \/ UNCHANGED vars
        BY <2>2 DEF Ended, vars, durable, worker, run, BytesCovered, BytesExact, Owing,
           Owes, Done, WithStatus
    <2>3. QED
        BY <2>1, <2>2, BytesWorker, BytesProcess DEF Next, ProcessStep
<1>3. QED  BY <1>1, <1>2, InductiveInvariant, DiscoveryInvariant, PTL DEF Spec

\* The byte counter never counts a page twice, nor a page that is not done,
\* although a page may be written as done and then fetched again.
THEOREM CountedOnceTheorem ==
    ASSUME ~LostAcks
    PROVE  Spec => []BytesCountedOnce
<1>1. BytesCovered /\ TypeOK => BytesCountedOnce
    BY Countable DEF BytesCovered, BytesCountedOnce, Done, TypeOK
<1>2. QED  BY <1>1, BytesInvariant, TypeTheorem, PTL

\* Without failures and crashes it counts every page that is done, except while a
\* worker is between the two statements.
THEOREM BytesMatchTheorem ==
    ASSUME ~LostAcks, MaxFaults = 0, ~Crashes
    PROVE  Spec => []BytesMatchDone
<1>1. IInv /\ CaughtInProgress /\ BytesExact => BytesMatchDone
    <2> SUFFICES ASSUME IInv, CaughtInProgress, BytesExact PROVE BytesMatchDone
        OBVIOUS
    <2>1. Owing = {w \in Workers : pc[w] = "bytes"}
        BY DEF Owing, Owes, CaughtInProgress, IInv, Owned, HeldStatus, HeldAs
    <2>2. totalBytes \in Nat
        BY DEF IInv, TypeOK
    <2>3. QED  BY <2>1, <2>2, Countable DEF BytesExact, BytesMatchDone, Done
<1>2. QED  BY <1>1, InductiveInvariant, Caught, BytesInvariant, PTL

-----------------------------------------------------------------------------
(* max_bytes.                                                              *)

\* The workers that have passed the limit check and not come back to it.
PastCheck(w) == pc[w] \in Holding \cup {"claim", "lock"}
Past == {w \in Workers : PastCheck(w)}

\* In a session the counter in memory is that of the run's row, and each worker
\* past the check adds one page at most.
MemoryExact == phase = "live" => memBytes = totalBytes
RoomForPast ==
    MaxBytes > 0 => totalBytes + Cardinality(Past) < MaxBytes + Cardinality(Workers)

LEMMA PastCount ==
    /\ IsFiniteSet(Past) /\ Cardinality(Past) \in Nat
    /\ Cardinality(Workers) \in Nat \ {0} /\ Cardinality(Past) <= Cardinality(Workers)
<1>1. IsFiniteSet(Workers) /\ Workers # {} /\ Past \subseteq Workers
    BY PoolAssumption DEF Past
<1>2. QED  BY <1>1, FS_Subset, FS_CardinalityType, FS_EmptySet

\* A worker passes the check below the limit, and counts a page on its way back.
LEMMA PastMoves ==
    ASSUME ~LostAcks, TypeOK, MemoryExact, phase = "live", NEW w \in Workers, WorkerStep(w)
    PROVE  /\ memBytes' = totalBytes'
           /\ \/ totalBytes' = totalBytes /\ (PastCheck(w)' => PastCheck(w))
              \/ totalBytes' = totalBytes /\ (MaxBytes > 0 => totalBytes < MaxBytes)
              \/ /\ totalBytes' = totalBytes + 1
                 /\ pc[w] \in Holding /\ pc'[w] = "top"
<1>1. memBytes = totalBytes /\ memBytes \in Nat /\ MaxBytes \in Nat
    BY PoolAssumption DEF MemoryExact, TypeOK
<1>2. ASSUME NEW r \in Reply, AddBytes(w, r)
      PROVE  /\ memBytes' = totalBytes'
             /\ \/ totalBytes' = totalBytes
                \/ totalBytes' = totalBytes + 1 /\ pc'[w] = "top"
             /\ pc[w] \in Holding
    <2>1. r \in {"ok", "failed"}
        BY <1>2, NoLostAck DEF AddBytes
    <2>2. QED
        BY <1>1, <1>2, <2>1 DEF AddBytes, After, Release, Goto, TypeOK, Holding
<1>3. CASE ~\E r \in Reply : AddBytes(w, r)
    <2>1. totalBytes' = totalBytes /\ memBytes' = memBytes
        BY <1>3 DEF WorkerStep, Stop, Proceed, LockRow, FindNone, ClaimFails, CommitClaim,
           Counted, DoCountInProgress, DoCountFutureRetryable, DoCountQueued, FetchDirect,
           FetchPage, FetchRedirect, FetchThrows, ResolveLink, ResolveRedirect,
           ResolveLinkThrows, ResolveRedirectThrows, RecordCandidate, Mark, Remark,
           Resolve, ResolveThrows, run, control
    <2>2. CASE Proceed(w)
        BY <1>1, <2>1, <2>2 DEF Proceed, ShouldStop
    <2>3. CASE ~Proceed(w)
        <3>1. PastCheck(w)' => PastCheck(w)
            BY <1>3, <2>3 DEF WorkerStep, Stop, LockRow, FindNone, ClaimFails, CommitClaim,
               Counted, DoCountInProgress, DoCountFutureRetryable, DoCountQueued,
               FetchDirect, FetchPage, FetchRedirect, FetchThrows, ResolveLink,
               ResolveRedirect, ResolveLinkThrows, ResolveRedirectThrows, RecordCandidate,
               Mark, Remark, Resolve, ResolveThrows, Catch, Release, PassInfra, RetryInfra,
               Goto, TypeOK, Holding, PastCheck
        <3>2. QED  BY <1>1, <2>1, <3>1
    <2>4. QED  BY <2>2, <2>3
<1>4. QED  BY <1>1, <1>2, <1>3 DEF PastCheck

LEMMA RoomWorker ==
    ASSUME ~LostAcks, TypeOK, Resting, MemoryExact, RoomForPast, NEW w \in Workers,
           WorkerStep(w)
    PROVE  MemoryExact' /\ RoomForPast'
<1>1. phase = "live" /\ phase' = phase /\ \A v \in Workers \ {w} : pc'[v] = pc[v]
    BY WorkerFrame
<1>2. /\ IsFiniteSet(Past) /\ IsFiniteSet(Past')
      /\ Cardinality(Past) \in Nat /\ Cardinality(Past') \in Nat
      /\ Cardinality(Workers) \in Nat /\ Cardinality(Past') <= Cardinality(Workers)
    <2>1. Past' \subseteq Workers /\ IsFiniteSet(Workers)
        BY PoolAssumption DEF Past, PastCheck
    <2>2. QED  BY <2>1, PastCount, FS_Subset, FS_CardinalityType
<1>3. totalBytes \in Nat /\ MaxBytes \in Nat /\ totalBytes' \in Nat /\ memBytes' \in Nat
    <2>1. TypeOK'
        BY TypeStep DEF Next
    <2>2. QED  BY <2>1, PoolAssumption DEF TypeOK
<1>4. MemoryExact'
    BY <1>1, <1>3, PastMoves DEF MemoryExact
<1>5. CASE totalBytes' = totalBytes /\ (PastCheck(w)' => PastCheck(w))
    <2>1. Past' \subseteq Past
        BY <1>1, <1>5 DEF Past, PastCheck
    <2>2. Cardinality(Past') <= Cardinality(Past)
        BY <1>2, <2>1, FS_Subset
    <2>3. QED  BY <1>2, <1>3, <1>4, <1>5, <2>2 DEF RoomForPast
<1>6. CASE totalBytes' = totalBytes /\ (MaxBytes > 0 => totalBytes < MaxBytes)
    BY <1>2, <1>3, <1>4, <1>6 DEF RoomForPast
<1>7. CASE totalBytes' = totalBytes + 1 /\ pc[w] \in Holding /\ pc'[w] = "top"
    <2>1. w \in Past /\ Past' = Past \ {w}
        BY <1>1, <1>7 DEF Past, PastCheck, Holding
    <2>2. Cardinality(Past') = Cardinality(Past) - 1
        BY <1>2, <2>1, DropOne
    <2>3. QED  BY <1>2, <1>3, <1>4, <1>7, <2>2 DEF RoomForPast
<1>8. QED  BY <1>1, <1>5, <1>6, <1>7, PastMoves

LEMMA RoomProcess ==
    ASSUME TypeOK, MemoryExact, RoomForPast, ProcessStep
    PROVE  MemoryExact' /\ RoomForPast'
<1>1. totalBytes' = totalBytes /\ totalBytes \in Nat /\ MaxBytes \in Nat
    BY ProcessWorkers, PoolAssumption DEF TypeOK
<1>2. MemoryExact'
    BY <1>1 DEF MemoryExact, ProcessStep, PoolStep, CreateRun, EnqueueSeed, Recover, Finalize,
       FinishRun, Fallback, Shutdown, Expire, Crash, TimePasses, Resume, StartPool, run,
       control
<1>3. Past' \in {Past, {}}
    <2>1. CASE UNCHANGED pc
        BY <2>1 DEF Past, PastCheck
    <2>2. CASE \A w \in Workers : pc'[w] \in {"idle", "top"}
        BY <2>2 DEF Past, PastCheck, Holding
    <2>3. QED  BY <2>1, <2>2, ProcessWorkers
<1>4. Cardinality(Past') <= Cardinality(Past) /\ Cardinality(Past') \in Nat
    BY <1>3, PastCount, FS_EmptySet
<1>5. QED  BY <1>1, <1>2, <1>4, PastCount DEF RoomForPast

\* max_bytes is passed by less than one page for each worker, for every limit and
\* every number of workers, over failures, crashes and resumed sessions.
THEOREM ByteOvershootTheorem ==
    ASSUME ~LostAcks
    PROVE  Spec => []ByteOvershoot
<1>1. Init => MemoryExact /\ RoomForPast
    <2> SUFFICES ASSUME Init PROVE MemoryExact /\ RoomForPast
        OBVIOUS
    <2>1. phase = "none" /\ totalBytes = 0 /\ Past = {} /\ MaxBytes \in Nat
        BY PoolAssumption DEF Init, Past, PastCheck, Holding
    <2>2. QED  BY <2>1, PastCount, FS_EmptySet DEF MemoryExact, RoomForPast
<1>2. IInv /\ (MemoryExact /\ RoomForPast) /\ [Next]_vars => (MemoryExact /\ RoomForPast)'
    <2> SUFFICES ASSUME IInv, MemoryExact, RoomForPast, [Next]_vars
                 PROVE  MemoryExact' /\ RoomForPast'
        OBVIOUS
    <2>1. TypeOK /\ Resting
        BY DEF IInv, Session
    <2>2. CASE Ended \/ UNCHANGED vars
        BY <2>2 DEF Ended, vars, worker, run, control, MemoryExact, RoomForPast, Past, PastCheck
    <2>3. QED
        BY <2>1, <2>2, RoomWorker, RoomProcess DEF Next, ProcessStep
<1>3. IInv /\ RoomForPast => ByteOvershoot
    BY PastCount, PoolAssumption DEF IInv, TypeOK, RoomForPast, ByteOvershoot
<1>4. QED  BY <1>1, <1>2, <1>3, InductiveInvariant, PTL DEF Spec

-----------------------------------------------------------------------------
(* The work queue.                                                         *)

States == [u \in Urls |-> ItemState(urls[u])]
Hands == [w \in Workers |-> InHand(w)]

\* A row is claimed when it is due, and nobody puts it off before its outcome.
Dated ==
    /\ \A u \in Urls : urls[u].status = "in_progress" => urls[u].next = "due"
    /\ \A w \in Workers : pc[w] = "lock" => urls[task[w].url].next = "due"
QueueInv == Dated /\ (MaxFaults = 0 => CaughtInProgress)

LEMMA ItemStates ==
    ASSUME NEW row \in Row
    PROVE  /\ ItemState(row) \in {"absent", "ready", "waiting", "taken", "settled"}
           /\ ItemState(row) = "absent" <=> row.status = "absent"
           /\ ItemState(row) = "taken" <=> row.status = "in_progress"
           /\ ItemState(row) = "settled" <=> row.status \in Settled
           /\ ItemState(row) = "ready" <=> row.status \in Claimable /\ row.next = "due"
           /\ ItemState(row) = "waiting" <=> row.status \in Claimable /\ row.next = "future"
<1>1. row.status \in Settled \cup {"queued", "retryable_failed", "in_progress", "absent"}
      /\ row.next \in {"due", "future"}
    BY DEF Row, CrawlUrlStatus, Claimable
<1>2. CASE row.status = "absent"
    BY <1>2 DEF ItemState, Settled, Claimable
<1>3. CASE row.status = "in_progress"
    BY <1>3 DEF ItemState, Settled, Claimable
<1>4. CASE row.status \in Settled
    <2>1. row.status \notin {"absent", "in_progress"} \cup Claimable
        BY <1>4 DEF Settled, Claimable
    <2>2. ItemState(row) = "settled"
        BY <1>4, <2>1 DEF ItemState
    <2>3. QED  BY <1>4, <2>1, <2>2
<1>5. CASE row.status \in Claimable
    <2>1. row.status \notin {"absent", "in_progress"} \cup Settled
        BY <1>5 DEF Settled, Claimable
    <2>2. ItemState(row) = IF row.next = "due" THEN "ready" ELSE "waiting"
        BY <1>5, <2>1 DEF ItemState
    <2>3. QED  BY <1>1, <1>5, <2>1, <2>2
<1>6. QED  BY <1>1, <1>2, <1>3, <1>4, <1>5 DEF Claimable

\* What an outcome makes of an item.
OutcomeState(o) ==
    IF o \in Settled THEN "settled" ELSE IF o = "requeue" THEN "ready" ELSE "waiting"

LEMMA MarkedItem ==
    ASSUME urls \in [Urls -> Row], NEW u \in Urls, NEW o \in Outcomes
    PROVE  /\ MarkOutcome(u, o) \in [Urls -> Row]
           /\ \A v \in Urls \ {u} : MarkOutcome(u, o)[v] = urls[v]
           /\ ItemState(MarkOutcome(u, o)[u]) = OutcomeState(o)
           /\ OutcomeState(o) \in {"ready", "waiting", "settled"}
<1>1. MarkOutcome(u, o) \in [Urls -> Row]
    BY MarkOutcomeType
<1>2. \A v \in Urls \ {u} : MarkOutcome(u, o)[v] = urls[v]
    BY MarkCounts
<1>3. CASE o \in Settled
    <2>1. MarkOutcome(u, o)[u].status = o
        BY <1>3 DEF MarkOutcome, MarkSettled, Row
    <2>2. QED  BY <1>1, <1>2, <1>3, <2>1, ItemStates DEF OutcomeState
<1>4. CASE o = "requeue"
    <2>1. MarkOutcome(u, o) = [urls EXCEPT ![u] = Requeued(urls[u])]
        BY <1>4 DEF MarkOutcome, RequeueForRedirect, Settled
    <2>2. Requeued(urls[u]).status = "queued" /\ Requeued(urls[u]).next = "due"
        BY DEF Requeued, Row
    <2>3. MarkOutcome(u, o)[u].status \in Claimable /\ MarkOutcome(u, o)[u].next = "due"
        BY <2>1, <2>2 DEF Claimable
    <2>4. QED  BY <1>1, <1>2, <1>4, <2>3, ItemStates DEF OutcomeState, Settled
<1>5. CASE o \in {"retryable_failed", "defer"}
    <2> DEFINE b == (o = "retryable_failed")
    <2>1. MarkOutcome(u, o) = [urls EXCEPT ![u] = Retried(urls[u], b)]
        BY <1>5 DEF MarkOutcome, MarkRetryableFailure, Settled
    <2>2. Retried(urls[u], b).status = "retryable_failed" /\ Retried(urls[u], b).next = "future"
        BY DEF Retried, Row
    <2>3. MarkOutcome(u, o)[u].status \in Claimable /\ MarkOutcome(u, o)[u].next = "future"
        BY <2>1, <2>2 DEF Claimable
    <2>4. QED  BY <1>1, <1>2, <1>5, <2>3, ItemStates DEF OutcomeState, Settled
<1>6. QED  BY <1>3, <1>4, <1>5 DEF Outcomes

\* One row changes.
LEMMA OneItem ==
    ASSUME NEW u \in Urls, \A v \in Urls \ {u} : urls'[v] = urls[v]
    PROVE  States' = [States EXCEPT ![u] = ItemState(urls'[u])]
<1>1. \A v \in Urls : States'[v] = [States EXCEPT ![u] = ItemState(urls'[u])][v]
    BY DEF States
<1>2. QED  BY <1>1 DEF States

\* One worker moves.
LEMMA OneHand ==
    ASSUME TypeOK, NEW w \in Workers, WorkerStep(w)
    PROVE  /\ Hands' = [Hands EXCEPT ![w] = InHand(w)']
           /\ Hands[w] = InHand(w)
           /\ InHand(w)' = InHand(w) => Hands' = Hands
<1>1. \A v \in Workers \ {w} : InHand(v)' = InHand(v)
    BY WorkerAlone DEF OthersRest, InHand
<1>2. \A v \in Workers : Hands'[v] = [Hands EXCEPT ![w] = InHand(w)'][v]
    BY <1>1 DEF Hands
<1>3. Hands' = [Hands EXCEPT ![w] = InHand(w)']
    BY <1>2 DEF Hands
<1>4. Hands[w] = InHand(w)
    BY DEF Hands
<1>5. InHand(w)' = InHand(w) => Hands' = Hands
    BY <1>2, <1>4 DEF Hands
<1>6. QED  BY <1>3, <1>4, <1>5

\* A worker puts off no row but its own, by an outcome.
LEMMA PutOff ==
    ASSUME TypeOK, Owned, NEW w \in Workers, WorkerStep(w), NEW u \in Urls,
           urls[u].next = "due"
    PROVE  \/ urls'[u].next = "due"
           \/ Marks(w) /\ u = task[w].url /\ urls'[u].status # "in_progress"
<1>1. urls \in [Urls -> Row]
    BY DEF TypeOK, FrontierTypeOK
<1>2. CASE urls' = urls
    BY <1>2
<1>3. CASE Admits(w)
    BY <1>1, <1>3 DEF Admits, NewRow
<1>4. CASE Claims(w)
    <2>1. task[w].url \in Urls /\ urls[task[w].url].status # "absent"
        BY <1>4 DEF Claims, TypeOK, Owned, HeldStatus, HeldAs, Claimable
    <2>2. /\ urls' = [urls EXCEPT ![task[w].url].status = "in_progress"]
        BY <1>4 DEF Claims, ClaimUrl
    <2>3. CASE u = task[w].url
        BY <1>1, <2>1, <2>2, <2>3 DEF Row
    <2>4. CASE u # task[w].url
        BY <1>1, <2>1, <2>2, <2>4
    <2>5. QED  BY <2>3, <2>4
<1>5. CASE Marks(w)
    <2>1. task[w].url \in Urls /\ out[w] \in Outcomes
        BY <1>5 DEF Marks, TypeOK, Holding
    <2>2. CASE u = task[w].url
        BY <1>1, <1>5, <2>1, <2>2, MarkStatus DEF Marks
    <2>3. CASE u # task[w].url
        BY <1>1, <1>5, <2>1, <2>3, MarkCounts DEF Marks
    <2>4. QED  BY <2>2, <2>3
<1>6. QED  BY <1>2, <1>3, <1>4, <1>5, WorkerWrites

\* What a worker's step puts in progress it had locked, and it locks what is due.
LEMMA Claimed ==
    ASSUME TypeOK, NEW w \in Workers, WorkerStep(w)
    PROVE  /\ \A u \in Urls : urls'[u].status = "in_progress" =>
                  urls[u].status = "in_progress" \/ (pc[w] = "lock" /\ u = task[w].url)
           /\ pc'[w] = "lock" =>
                  urls' = urls /\ task'[w].url \in Urls /\ urls[task'[w].url].next = "due"
<1>1. urls \in [Urls -> Row]
    BY DEF TypeOK, FrontierTypeOK
<1>2. ASSUME NEW u \in Urls, urls'[u].status = "in_progress",
             ~(pc[w] = "lock" /\ u = task[w].url)
      PROVE  urls[u].status = "in_progress"
    <2>1. CASE Admits(w)
        BY <1>1, <1>2, <2>1 DEF Admits, NewRow
    <2>2. CASE Claims(w)
        BY <1>1, <1>2, <2>2 DEF Claims, ClaimUrl
    <2>3. CASE Marks(w)
        <3>1. task[w].url \in Urls /\ out[w] \in Outcomes
            BY <2>3 DEF Marks, TypeOK, Holding
        <3>2. u # task[w].url
            BY <1>1, <1>2, <2>3, <3>1, MarkStatus DEF Marks
        <3>3. QED  BY <1>1, <1>2, <2>3, <3>1, <3>2, MarkCounts DEF Marks
    <2>4. QED  BY <1>2, <2>1, <2>2, <2>3, WorkerWrites
<1>3. ASSUME pc'[w] = "lock"
      PROVE  urls' = urls /\ task'[w].url \in Urls /\ urls[task'[w].url].next = "due"
    <2>1. LockRow(w)
        BY <1>3 DEF WorkerStep, Stop, Proceed, FindNone, ClaimFails, CommitClaim, Counted,
           DoCountInProgress, DoCountFutureRetryable, DoCountQueued, FetchDirect, FetchPage,
           FetchRedirect, FetchThrows, ResolveLink, ResolveRedirect, ResolveLinkThrows,
           ResolveRedirectThrows, RecordCandidate, Mark, AddBytes, Remark, Resolve,
           ResolveThrows, Catch, Release, PassInfra, RetryInfra, Goto, TypeOK
    <2>2. PICK u \in ClaimNext(Locked(w)) : task' = [task EXCEPT ![w] = [NoTask EXCEPT !.url = u]]
        BY <2>1 DEF LockRow
    <2>3. u \in Urls /\ urls[u].next = "due"
        BY DEF ClaimNext, Eligible
    <2>4. task'[w].url = u
        BY <2>2 DEF NoTask, TypeOK
    <2>5. QED  BY <2>1, <2>3, <2>4 DEF LockRow, durable
<1>4. QED  BY <1>2, <1>3

LEMMA DatedWorker ==
    ASSUME TypeOK, Owned, Dated, NEW w \in Workers, WorkerStep(w)
    PROVE  Dated'
<1>1. ASSUME NEW u \in Urls, urls'[u].status = "in_progress"
      PROVE  urls'[u].next = "due"
    <2>1. urls[u].next = "due"
        BY <1>1, Claimed DEF Dated
    <2>2. QED  BY <1>1, <2>1, PutOff
<1>2. ASSUME NEW v \in Workers, pc'[v] = "lock"
      PROVE  urls'[task'[v].url].next = "due"
    <2>1. CASE v = w
        BY <1>2, <2>1, Claimed
    <2>2. CASE v # w
        <3>1. /\ UNCHANGED <<pc[v], task[v]>> /\ pc[v] = "lock"
              /\ task[v].url \in Urls /\ urls[task[v].url].next = "due"
            BY <1>2, <2>2, WorkerAlone DEF OthersRest, TypeOK, Dated
        <3>2. ~(Marks(w) /\ task[v].url = task[w].url)
            BY <2>2, <3>1 DEF Marks, Owned, ClaimExclusive, HoldsRow, Holding
        <3>3. QED  BY <3>1, <3>2, PutOff
    <2>3. QED  BY <2>1, <2>2
<1>3. QED  BY <1>1, <1>2 DEF Dated

LEMMA DatedProcess ==
    ASSUME TypeOK, Dated, ProcessStep
    PROVE  Dated'
<1>1. urls \in [Urls -> Row]
    BY DEF TypeOK, FrontierTypeOK
<1>2. ASSUME NEW u \in Urls, urls[u].next = "due"
      PROVE  urls'[u].next = "due"
    <2>1. CASE urls' = urls
        BY <1>2, <2>1
    <2>2. CASE EnqueueUrl(Seed, 0, 0)
        BY <1>1, <1>2, <2>2 DEF EnqueueUrl, NewRow
    <2>3. CASE urls' = RecoverAllInProgress
        BY <1>1, <1>2, <2>3 DEF RecoverAllInProgress, Row
    <2>4. CASE \E v \in Urls : ComeDue(v)
        BY <1>1, <1>2, <2>4 DEF ComeDue, Row
    <2>5. QED
        BY <2>1, <2>2, <2>3, <2>4 DEF ProcessStep, PoolStep, CreateRun, EnqueueSeed, Recover,
           After, Finalize, FinishRun, Fallback, Shutdown, Expire, Crash, TimePasses, Resume,
           durable
<1>3. ASSUME NEW u \in Urls, urls'[u].status = "in_progress"
      PROVE  urls'[u].next = "due"
    BY <1>2, <1>3, ProcessRows DEF Dated
<1>4. ASSUME NEW w \in Workers, pc'[w] = "lock"
      PROVE  urls'[task'[w].url].next = "due"
    <2>1. UNCHANGED <<pc, task>>
        BY <1>4, ProcessWorkers
    <2>2. task[w].url \in Urls /\ urls[task[w].url].next = "due"
        BY <1>4, <2>1 DEF TypeOK, Dated
    <2>3. QED  BY <1>2, <2>1, <2>2
<1>5. QED  BY <1>3, <1>4 DEF Dated

LEMMA QueueInvariant ==
    ASSUME ~LostAcks
    PROVE  Spec => []QueueInv
<1>1. Init => QueueInv
    <2> SUFFICES ASSUME Init PROVE QueueInv
        OBVIOUS
    <2>1. /\ \A u \in Urls : urls[u].status = "absent"
          /\ \A w \in Workers : pc[w] = "idle"
        BY DEF Init, FrontierInit, AbsentRow
    <2>2. QED  BY <2>1 DEF QueueInv, Dated, CaughtInProgress
<1>2. IInv /\ QueueInv /\ [Next]_vars => QueueInv'
    <2> SUFFICES ASSUME IInv, QueueInv, [Next]_vars PROVE QueueInv'
        OBVIOUS
    <2>1. TypeOK /\ Owned /\ Dated
        BY DEF IInv, QueueInv
    <2>2. Dated'
        <3>1. CASE Ended \/ UNCHANGED vars
            BY <2>1, <3>1 DEF Ended, vars, durable, worker, Dated
        <3>2. QED  BY <2>1, <3>1, DatedWorker, DatedProcess DEF Next, ProcessStep
    <2>3. MaxFaults = 0 => CaughtInProgress'
        BY CaughtStep DEF QueueInv
    <2>4. QED  BY <2>2, <2>3 DEF QueueInv
<1>3. QED  BY <1>1, <1>2, InductiveInvariant, PTL DEF Spec

\* A step of the queue, said of States and Hands.
QueueMove ==
    \/ \E u \in Urls : /\ States[u] \in {"absent", "waiting"}
                       /\ States' = [States EXCEPT ![u] = "ready"]
                       /\ Hands' = Hands
    \/ \E w \in Workers, u \in Urls :
           /\ Hands[w] = NoUrl /\ States[u] = "ready"
           /\ States' = [States EXCEPT ![u] = "taken"]
           /\ Hands' = [Hands EXCEPT ![w] = u]
    \/ \E w \in Workers, s \in {"ready", "waiting", "settled"} :
           /\ Hands[w] # NoUrl
           /\ States[Hands[w]] = "taken" \/ (MaxFaults > 0 /\ States[Hands[w]] = "settled")
           /\ States' = [States EXCEPT ![Hands[w]] = s]
           /\ \/ Hands' = [Hands EXCEPT ![w] = NoUrl]
              \/ s = "settled" /\ Hands' = Hands
    \/ \E w \in Workers :
           /\ Hands[w] # NoUrl
           /\ States[Hands[w]] = "settled" \/ MaxFaults > 0
           /\ Hands' = [Hands EXCEPT ![w] = NoUrl]
           /\ States' = States
    \/ Crashes /\ Hands' = [w \in Workers |-> NoUrl] /\ States' = States
    \/ /\ \A w \in Workers : Hands[w] = NoUrl
       /\ States' = [u \in Urls |-> IF States[u] = "taken" THEN "ready" ELSE States[u]]
       /\ Hands' = Hands
    \/ States' = States /\ Hands' = Hands

\* A worker goes from place to place, and what it has in hand stays.
LEMMA QueueWalk ==
    ASSUME TypeOK, NEW w \in Workers, WorkerStep(w), urls' = urls,
           InHand(w)' = InHand(w)
    PROVE  QueueMove
<1>1. States' = States
    BY DEF States
<1>2. QED  BY <1>1, OneHand DEF QueueMove

\* It admits a row.
LEMMA QueueAdmit ==
    ASSUME TypeOK, NEW w \in Workers, WorkerStep(w), Admits(w), InHand(w)' = InHand(w)
    PROVE  QueueMove
<1>1. PICK to \in Urls, d \in Nat, n \in Nat :
          urls[to].status = "absent" /\ urls' = [urls EXCEPT ![to] = NewRow(d, n)]
    BY DEF Admits
<1>2. urls \in [Urls -> Row] /\ enqueued \in Nat
    BY DEF TypeOK, FrontierTypeOK
<1>3. urls'[to] = NewRow(d, n) /\ \A v \in Urls \ {to} : urls'[v] = urls[v]
    BY <1>1, <1>2
<1>4. NewRow(d, n).status = "queued" /\ NewRow(d, n).next = "due"
    BY DEF NewRow
<1>5. ItemState(NewRow(d, n)) = "ready"
    BY <1>4 DEF ItemState, Claimable, Settled
<1>6. States' = [States EXCEPT ![to] = "ready"]
    BY <1>3, <1>5, OneItem
<1>7. States[to] = "absent"
    BY <1>1, <1>2, ItemStates DEF States
<1>8. QED  BY <1>6, <1>7, OneHand DEF QueueMove

\* It takes what it has locked, which is due.
LEMMA QueueTake ==
    ASSUME TypeOK, Owned, Dated, ~LostAcks, NEW w \in Workers, WorkerStep(w),
           NEW r \in Reply, CommitClaim(w, r)
    PROVE  QueueMove
<1>1. pc[w] = "lock" /\ InHand(w) = NoUrl /\ task[w].url \in Urls
    BY DEF CommitClaim, TypeOK, InHand, Holding
<1>2. pc \in [Workers -> PC] /\ task \in [Workers -> CrawlUrlTask] /\ urls \in [Urls -> Row]
    BY DEF TypeOK, FrontierTypeOK
<1>3. CASE r = "ok"
    <2> DEFINE u == task[w].url
    <2>1. urls' = ClaimUrl(u) /\ pc'[w] = "fetch"
        BY <1>2, <1>3 DEF CommitClaim, After, PassInfra, Goto
    <2>2. task'[w].url = u
        BY <1>2, <1>3 DEF CommitClaim
    <2>3. InHand(w)' = u
        BY <2>1, <2>2 DEF InHand, Holding
    <2>4. Hands' = [Hands EXCEPT ![w] = u] /\ Hands[w] = NoUrl
        BY <1>1, <2>3, OneHand
    <2>5. urls[u].status \in Claimable /\ urls[u].next = "due" /\ urls[u] \in Row
        BY <1>1, <1>2 DEF Owned, HeldStatus, HeldAs, Dated
    <2>6. States[u] = "ready"
        BY <1>1, <2>5, ItemStates DEF States
    <2>7. urls'[u].status = "in_progress" /\ urls'[u] \in Row
        BY <1>1, <1>2, <2>1, ClaimStatus, ClaimUrlType
    <2>8. ItemState(urls'[u]) = "taken"
        BY <2>7, ItemStates
    <2>9. \A v \in Urls \ {u} : urls'[v] = urls[v]
        BY <1>2, <2>1 DEF ClaimUrl
    <2>10. States' = [States EXCEPT ![u] = "taken"]
        BY <1>1, <2>8, <2>9, OneItem
    <2>11. QED  BY <1>1, <2>4, <2>6, <2>10 DEF QueueMove
<1>4. CASE r = "failed"
    <2>1. urls' = urls
        BY <1>4 DEF CommitClaim, After
    <2>2. pc'[w] \in {"claim", "crashed"}
        BY <1>2, <1>4 DEF CommitClaim, RetryInfra, Goto
    <2>3. InHand(w)' = NoUrl
        BY <2>2 DEF InHand, Holding
    <2>4. QED  BY <1>1, <2>1, <2>3, QueueWalk
<1>5. QED  BY <1>3, <1>4, NoLostAck DEF CommitClaim

\* It gives back what it has, or settles it.
LEMMA QueuePut ==
    ASSUME TypeOK, Owned, QueueInv, ~LostAcks, NEW w \in Workers, WorkerStep(w),
           NEW r \in Reply, Mark(w, r) \/ Remark(w, r)
    PROVE  QueueMove
<1>1. /\ pc[w] \in {"mark", "remark"} /\ task[w].url \in Urls /\ out[w] \in Outcomes
      /\ InHand(w) = task[w].url
    BY DEF Mark, Remark, TypeOK, InHand, Holding
<1>2. /\ pc \in [Workers -> PC] /\ task \in [Workers -> CrawlUrlTask]
      /\ urls \in [Urls -> Row] /\ faults \in Nat
    BY DEF TypeOK, FrontierTypeOK
<1>3. MaxFaults \in Nat /\ task[w].url # NoUrl
    BY <1>1, PoolAssumption, UrlsAssumption
<1>4. CASE r = "ok"
    <2> DEFINE u == task[w].url
               s == OutcomeState(out[w])
    <2>1. urls' = MarkOutcome(u, out[w])
        BY <1>4 DEF Mark, Remark, After
    <2>2. /\ urls' \in [Urls -> Row] /\ \A v \in Urls \ {u} : urls'[v] = urls[v]
          /\ ItemState(urls'[u]) = s /\ s \in {"ready", "waiting", "settled"}
        BY <1>1, <1>2, <2>1, MarkedItem
    <2>3. States' = [States EXCEPT ![u] = s]
        BY <1>1, <2>2, OneItem
    <2>4. Hands[w] = u
        BY <1>1, OneHand
    <2>5. States[u] = "taken" \/ (MaxFaults > 0 /\ States[u] = "settled")
        <3>1. \/ urls[u].status = "in_progress"
              \/ urls[u].status = "done" /\ MaxFaults > 0
            BY <1>1, <1>3
               DEF Owned, HeldStatus, HeldAs, Holding, QueueInv, CaughtInProgress
        <3>2. "done" \in Settled
            BY DEF Settled
        <3>3. QED  BY <1>1, <1>2, <3>1, <3>2, ItemStates DEF States
    <2>6. Hands' = [Hands EXCEPT ![w] = NoUrl] \/ (s = "settled" /\ Hands' = Hands)
        <3>1. CASE pc[w] = "mark" /\ out[w] = "done"
            <4>1. pc'[w] = "bytes" /\ task' = task
                BY <1>2, <1>4, <3>1 DEF Mark, Remark, Goto
            <4>2. InHand(w)' = InHand(w)
                BY <1>1, <4>1 DEF InHand, Holding
            <4>3. s = "settled"
                BY <3>1 DEF OutcomeState, Settled
            <4>4. QED  BY <4>2, <4>3, OneHand
        <3>2. CASE ~(pc[w] = "mark" /\ out[w] = "done")
            <4>1. pc'[w] = "top"
                BY <1>2, <1>4, <3>2 DEF Mark, Remark, Release, Goto
            <4>2. InHand(w)' = NoUrl
                BY <4>1 DEF InHand, Holding
            <4>3. QED  BY <4>2, OneHand
        <3>3. QED  BY <3>1, <3>2
    <2>7. QED  BY <1>3, <2>2, <2>3, <2>4, <2>5, <2>6 DEF QueueMove
<1>5. CASE r = "failed"
    <2>1. urls' = urls
        BY <1>5 DEF Mark, Remark, After
    <2>2. CASE pc'[w] = "crashed"
        <3>1. InHand(w)' = NoUrl
            BY <2>2 DEF InHand, Holding
        <3>2. MaxFaults > 0
            BY <1>2, <1>3, <1>5 DEF Mark, Remark, Answered
        <3>3. Hands[w] # NoUrl /\ Hands' = [Hands EXCEPT ![w] = NoUrl] /\ States' = States
            BY <1>1, <1>3, <2>1, <3>1, OneHand DEF States
        <3>4. QED  BY <3>2, <3>3 DEF QueueMove
    <2>3. CASE pc'[w] # "crashed"
        <3>1. task' = task
            BY <1>2, <1>5, <2>3 DEF Mark, Remark, Release, Goto
        <3>2. pc'[w] \in {"mark", "remark"}
            BY <1>1, <1>2, <1>5, <2>3 DEF Mark, Remark, Catch, Release, Goto
        <3>3. InHand(w)' = InHand(w)
            BY <1>1, <3>1, <3>2 DEF InHand, Holding
        <3>4. QED  BY <2>1, <3>3, QueueWalk
    <2>4. QED  BY <2>2, <2>3
<1>6. QED  BY <1>4, <1>5, NoLostAck DEF Mark, Remark

\* It drops what it has settled, once the bytes are counted.
LEMMA QueueDrop ==
    ASSUME TypeOK, Owned, ~LostAcks, NEW w \in Workers, WorkerStep(w),
           NEW r \in Reply, AddBytes(w, r)
    PROVE  QueueMove
<1>1. /\ pc[w] = "bytes" /\ task[w].url \in Urls /\ InHand(w) = task[w].url
      /\ urls' = urls
    BY DEF AddBytes, TypeOK, InHand, Holding, durable
<1>2. /\ pc \in [Workers -> PC] /\ urls \in [Urls -> Row]
      /\ task[w].url # NoUrl
    BY <1>1, UrlsAssumption DEF TypeOK, FrontierTypeOK
<1>3. CASE r = "ok"
    <2>1. pc'[w] = "top"
        BY <1>2, <1>3 DEF AddBytes, Release, Goto
    <2>2. InHand(w)' = NoUrl
        BY <2>1 DEF InHand, Holding
    <2>3. Hands[w] = task[w].url /\ Hands' = [Hands EXCEPT ![w] = NoUrl] /\ States' = States
        BY <1>1, <2>2, OneHand DEF States
    <2>4. urls[task[w].url].status = "done" /\ "done" \in Settled
        BY <1>1 DEF Owned, HeldStatus, HeldAs, Settled
    <2>5. States[task[w].url] = "settled"
        BY <1>1, <1>2, <2>4, ItemStates DEF States
    <2>6. QED  BY <1>2, <2>3, <2>5 DEF QueueMove
<1>4. CASE r = "failed"
    <2>1. pc'[w] = "remark" /\ task' = task
        BY <1>2, <1>4 DEF AddBytes, Catch, Goto
    <2>2. InHand(w)' = InHand(w)
        BY <1>1, <2>1 DEF InHand, Holding
    <2>3. QED  BY <1>1, <2>2, QueueWalk
<1>5. QED  BY <1>3, <1>4, NoLostAck DEF AddBytes

\* Every other step of a worker.
LEMMA QueueWorker ==
    ASSUME TypeOK, Owned, QueueInv, ~LostAcks, NEW w \in Workers, WorkerStep(w)
    PROVE  QueueMove
<1>1. pc \in [Workers -> PC]
    BY DEF TypeOK
<1>2. CASE \/ Stop(w) \/ Proceed(w) \/ LockRow(w) \/ FindNone(w) \/ ClaimFails(w)
           \/ DoCountInProgress(w) \/ DoCountFutureRetryable(w) \/ DoCountQueued(w)
    <2>1. urls' = urls /\ pc[w] \notin Holding
        BY <1>2 DEF Stop, Proceed, LockRow, FindNone, ClaimFails, Counted,
           DoCountInProgress, DoCountFutureRetryable, DoCountQueued, durable, Holding
    <2>2. pc'[w] \notin Holding
        BY <1>1, <1>2 DEF Stop, Proceed, LockRow, FindNone, ClaimFails, Counted,
           DoCountInProgress, DoCountFutureRetryable, DoCountQueued, PassInfra,
           RetryInfra, Goto, Holding
    <2>3. InHand(w)' = InHand(w)
        BY <2>1, <2>2 DEF InHand
    <2>4. QED  BY <2>1, <2>3, QueueWalk
<1>3. CASE \/ \E a \in AnswerKind : FetchDirect(w, a) \/ FetchThrows(w, a)
           \/ FetchPage(w) \/ FetchRedirect(w)
           \/ \E r \in Reply : RecordCandidate(w, r)
    <2>1. urls' = urls /\ task' = task /\ pc[w] \in Holding
        BY <1>3 DEF FetchDirect, FetchThrows, FetchPage, FetchRedirect, RecordCandidate,
           durable, Holding
    <2>2. pc'[w] \in Holding
        BY <1>1, <1>3 DEF FetchDirect, FetchThrows, FetchPage, FetchRedirect,
           RecordCandidate, Catch, Goto, Holding
    <2>3. InHand(w)' = InHand(w)
        BY <2>1, <2>2 DEF InHand
    <2>4. QED  BY <2>1, <2>3, QueueWalk
<1>4. CASE \/ ResolveLink(w) \/ ResolveRedirect(w)
           \/ \E r \in Reply : ResolveLinkThrows(w, r) \/ ResolveRedirectThrows(w, r)
    <2>1. task' = task /\ pc[w] \in {"links", "redirect"}
        BY <1>4 DEF ResolveLink, ResolveRedirect, ResolveLinkThrows, ResolveRedirectThrows,
           Resolve, ResolveThrows
    <2>2. pc'[w] \in Holding
        BY <1>1, <1>4 DEF ResolveLink, ResolveRedirect, ResolveLinkThrows,
           ResolveRedirectThrows, Resolve, ResolveThrows, Catch, Goto, Holding
    <2>3. InHand(w)' = InHand(w)
        BY <2>1, <2>2 DEF InHand, Holding
    <2>4. urls' = urls \/ Admits(w)
        BY <2>1, WorkerWrites DEF Claims, Marks
    <2>5. QED  BY <2>3, <2>4, QueueWalk, QueueAdmit
<1>5. QED
    BY <1>2, <1>3, <1>4, QueueTake, QueuePut, QueueDrop DEF WorkerStep, QueueInv

\* The process adds the seed, gives back what its workers had when it dies, and
\* makes it ready when it is resumed.
LEMMA QueueProcess ==
    ASSUME TypeOK, Resting, Dated, ~LostAcks, ProcessStep
    PROVE  QueueMove
<1>1. urls \in [Urls -> Row] /\ enqueued \in Nat /\ Seed \in Urls
    BY PoolAssumption DEF TypeOK, FrontierTypeOK
<1>2. phase # "live" => \A w \in Workers : InHand(w) = NoUrl
    BY DEF Resting, InHand, Holding
<1>3. ASSUME UNCHANGED <<pc, task>> \/
             (phase # "live" /\ \A w \in Workers : pc'[w] \in {"idle", "top"})
      PROVE  Hands' = Hands
    <2>1. ASSUME NEW w \in Workers PROVE InHand(w)' = InHand(w)
        BY <1>2, <1>3 DEF InHand, Holding
    <2>2. QED  BY <2>1 DEF Hands
<1>4. ASSUME urls' = urls PROVE States' = States
    BY <1>4 DEF States
<1>5. ASSUME NEW r \in Reply, EnqueueSeed(r) PROVE QueueMove
    <2>1. Hands' = Hands
        BY <1>3, <1>5 DEF EnqueueSeed, StartPool, worker
    <2>2. CASE urls' = urls
        BY <1>4, <2>1, <2>2 DEF QueueMove
    <2>3. CASE urls[Seed].status = "absent" /\ urls' = [urls EXCEPT ![Seed] = NewRow(0, 0)]
        <3>1. urls'[Seed] = NewRow(0, 0) /\ \A v \in Urls \ {Seed} : urls'[v] = urls[v]
            BY <1>1, <2>3
        <3>2. NewRow(0, 0).status = "queued" /\ NewRow(0, 0).next = "due"
            BY DEF NewRow
        <3>3. ItemState(NewRow(0, 0)) = "ready"
            BY <3>2 DEF ItemState, Claimable, Settled
        <3>4. States' = [States EXCEPT ![Seed] = "ready"]
            BY <1>1, <3>1, <3>3, OneItem
        <3>5. States[Seed] = "absent"
            BY <1>1, <2>3, ItemStates DEF States
        <3>6. QED  BY <1>1, <2>1, <3>4, <3>5 DEF QueueMove
    <2>4. QED  BY <1>5, <2>2, <2>3 DEF EnqueueSeed, EnqueueUrl, Present
<1>6. ASSUME NEW r \in Reply, Recover(r) PROVE QueueMove
    <2>1. Hands' = Hands /\ phase # "live"
        BY <1>3, <1>6 DEF Recover, StartPool, worker
    <2>2. CASE r = "failed"
        BY <1>4, <1>6, <2>1, <2>2 DEF Recover, After, QueueMove
    <2>3. CASE r = "ok"
        <3>1. \A w \in Workers : Hands[w] = NoUrl
            BY <1>2, <2>1 DEF Hands
        <3>2. urls' = RecoverAllInProgress /\ urls' \in [Urls -> Row]
            BY <1>1, <1>6, <2>3, RecoverType DEF Recover, After
        <3>3. ASSUME NEW u \in Urls
              PROVE  ItemState(urls'[u]) =
                         IF ItemState(urls[u]) = "taken" THEN "ready" ELSE ItemState(urls[u])
            <4>1. CASE urls[u].status = "in_progress"
                <5>1. urls'[u].status = "queued" /\ urls'[u].next = "due"
                    BY <1>1, <3>2, <4>1 DEF RecoverAllInProgress, Row, Dated
                <5>2. urls'[u].status \in Claimable
                    BY <5>1 DEF Claimable
                <5>3. ItemState(urls'[u]) = "ready"
                    BY <3>2, <5>1, <5>2, ItemStates
                <5>4. ItemState(urls[u]) = "taken"
                    BY <1>1, <4>1, ItemStates
                <5>5. QED  BY <5>3, <5>4
            <4>2. CASE urls[u].status # "in_progress"
                <5>1. urls'[u] = urls[u]
                    BY <3>2, <4>2 DEF RecoverAllInProgress
                <5>2. ItemState(urls[u]) # "taken"
                    BY <1>1, <4>2, ItemStates
                <5>3. QED  BY <5>1, <5>2
            <4>3. QED  BY <4>1, <4>2
        <3>4. States' = [u \in Urls |-> IF States[u] = "taken" THEN "ready" ELSE States[u]]
            BY <3>3 DEF States
        <3>5. QED  BY <2>1, <3>1, <3>4 DEF QueueMove
    <2>4. QED  BY <1>6, <2>2, <2>3, NoLostAck DEF Recover
<1>7. ASSUME Crash PROVE QueueMove
    <2>1. Crashes /\ urls' = urls /\ \A w \in Workers : pc'[w] = "idle"
        BY <1>7 DEF Crash, Forget, durable
    <2>2. Hands' = [w \in Workers |-> NoUrl]
        BY <2>1 DEF Hands, InHand, Holding
    <2>3. QED  BY <1>4, <2>1, <2>2 DEF QueueMove
<1>8. ASSUME NEW m \in NewMaxUrls \cup {maxUrls}, Resume(m) PROVE QueueMove
    <2>1. urls' = urls /\ phase # "live" /\ \A w \in Workers : pc'[w] = "idle"
        BY <1>8 DEF Resume, Forget
    <2>2. QED  BY <1>3, <1>4, <2>1 DEF QueueMove
<1>9. ASSUME NEW u \in Urls, ComeDue(u), UNCHANGED <<pc, task>> PROVE QueueMove
    <2>1. Hands' = Hands
        BY <1>3, <1>9
    <2>2. /\ urls'[u].status = urls[u].status /\ urls'[u].next = "due"
          /\ urls[u].next = "future" /\ urls' \in [Urls -> Row]
        BY <1>1, <1>9 DEF ComeDue, Row
    <2>3. States' = [States EXCEPT ![u] = ItemState(urls'[u])]
        BY <1>1, <1>9, OneItem DEF ComeDue
    <2>4. CASE urls[u].status \in Claimable
        <3>1. ItemState(urls'[u]) = "ready" /\ ItemState(urls[u]) = "waiting"
            BY <1>1, <2>2, <2>4, ItemStates
        <3>2. States[u] = "waiting"
            BY <3>1 DEF States
        <3>3. QED  BY <2>1, <2>3, <3>1, <3>2 DEF QueueMove
    <2>5. CASE urls[u].status \notin Claimable
        <3>1. ItemState(urls'[u]) = ItemState(urls[u])
            BY <2>2, <2>5 DEF ItemState
        <3>2. [States EXCEPT ![u] = ItemState(urls[u])] = States
            BY DEF States
        <3>3. QED  BY <2>1, <2>3, <3>1, <3>2 DEF QueueMove
    <2>6. QED  BY <2>4, <2>5
<1>10. ASSUME UNCHANGED <<urls, pc, task>> PROVE QueueMove
    BY <1>3, <1>4, <1>10 DEF QueueMove
<1>11. CASE \/ CreateRun \/ Shutdown \/ Expire
            \/ \E r \in Reply : Finalize(r) \/ FinishRun(r) \/ Fallback(r)
    BY <1>10, <1>11 DEF CreateRun, Shutdown, Expire, Finalize, FinishRun, Fallback, durable,
       worker
<1>12. CASE TimePasses
    BY <1>9, <1>12 DEF TimePasses, worker
<1>13. QED
    BY <1>5, <1>6, <1>7, <1>8, <1>11, <1>12 DEF ProcessStep, PoolStep

LEMMA QueueStep ==
    ASSUME ~LostAcks, IInv, QueueInv, [Next]_vars
    PROVE  QueueMove
<1>1. TypeOK /\ Owned /\ Resting /\ Dated
    BY DEF IInv, Session, QueueInv
<1>2. CASE Ended \/ UNCHANGED vars
    BY <1>2 DEF Ended, vars, durable, worker, QueueMove, States, Hands, InHand
<1>3. QED  BY <1>1, <1>2, QueueWorker, QueueProcess DEF Next, ProcessStep

\* The frontier is a queue whose items are in the hands of one worker at a time,
\* whatever the workers do between two statements, whatever fails and whenever
\* the process dies, as long as no answer is lost: what a worker has no other
\* takes, settles or gives back, and what a dead one had is ready again after
\* the next start and not before.
THEOREM QueueTheorem ==
    ASSUME ~LostAcks
    PROVE  Spec => ImplementsQueue
<1>1. Init => Queue!Init
    <2> SUFFICES ASSUME Init PROVE Queue!Init
        OBVIOUS
    <2>1. ASSUME NEW u \in Urls PROVE ItemState(urls[u]) = "absent"
        <3>1. urls[u].status = "absent"
            BY DEF Init, FrontierInit, AbsentRow
        <3>2. urls[u] \in Row
            BY TypeInit DEF TypeOK, FrontierTypeOK
        <3>3. QED  BY <3>1, <3>2, ItemStates
    <2>2. \A w \in Workers : InHand(w) = NoUrl
        BY DEF Init, InHand, Holding
    <2>3. QED  BY <2>1, <2>2 DEF Queue!Init
<1>2. IInv /\ QueueInv /\ [Next]_vars => [Queue!Next]_(Queue!vars)
    <2> SUFFICES ASSUME IInv, QueueInv, [Next]_vars PROVE [Queue!Next]_(Queue!vars)
        OBVIOUS
    <2>1. QueueMove
        BY QueueStep
    <2>2. QED
        BY <2>1 DEF QueueMove, States, Hands, Queue!Next, Queue!vars, Queue!Add,
           Queue!ComeDue, Queue!Take, Queue!Put, Queue!Drop, Queue!Die, Queue!Recover
<1>3. QED  BY <1>1, <1>2, InductiveInvariant, QueueInvariant, PTL
           DEF Spec, ImplementsQueue, Queue!Spec

=============================================================================
