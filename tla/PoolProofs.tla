----------------------------- MODULE PoolProofs -----------------------------
(***************************************************************************)
(* Proofs about Pool, for any number of workers and any site.              *)
(***************************************************************************)
EXTENDS Pool, FiniteSetTheorems, TLAPS

-----------------------------------------------------------------------------
(* Typing of the operators on rows.                                        *)

\* A row that is put off or put back is a row.
LEMMA RowType ==
    ASSUME NEW row \in Row
    PROVE  Requeued(row) \in Row /\ \A b \in BOOLEAN : Retried(row, b) \in Row
<1> DEFINE Status(q, s) == [q EXCEPT !.status = s]
           When(q, n) == [q EXCEPT !.next = n]
           Attempts(q, n) == [q EXCEPT !.attempts = n]
           Redirects(q, n) == [q EXCEPT !.redirects = n]
<1>1. \A q \in Row, s \in CrawlUrlStatus : Status(q, s) \in Row
    BY DEF Row
<1>2. \A q \in Row, n \in {"due", "future"} : When(q, n) \in Row
    BY DEF Row
<1>3. \A q \in Row, n \in Nat : Attempts(q, n) \in Row /\ Redirects(q, n) \in Row
    BY DEF Row
<1>4. Requeued(row) \in Row
    <2>1. Requeued(row) =
              When(Redirects(Status(row, "queued"), row.redirects + 1), "due")
        BY DEF Requeued, Row
    <2>2. row.redirects + 1 \in Nat /\ "queued" \in CrawlUrlStatus
        BY DEF Row, CrawlUrlStatus, Claimable
    <2> HIDE DEF Status, When, Redirects
    <2>3. QED  BY <1>1, <1>2, <1>3, <2>1, <2>2
<1>5. ASSUME NEW b \in BOOLEAN PROVE Retried(row, b) \in Row
    <2> DEFINE n == IF b THEN row.attempts + 1 ELSE row.attempts
    <2>1. Retried(row, b) =
              When(Attempts(Status(row, "retryable_failed"), n), "future")
        BY DEF Retried, Row
    <2>2. n \in Nat /\ "retryable_failed" \in CrawlUrlStatus
        BY DEF Row, CrawlUrlStatus, Claimable
    <2> HIDE DEF n, Status, When, Attempts
    <2>3. QED  BY <1>1, <1>2, <1>3, <2>1, <2>2
<1>6. QED  BY <1>4, <1>5

\* Writing an outcome leaves a table of rows.
LEMMA MarkOutcomeType ==
    ASSUME urls \in [Urls -> Row], NEW u \in Urls, NEW o \in Outcomes
    PROVE  MarkOutcome(u, o) \in [Urls -> Row]
<1>1. CASE o \in Settled
    BY <1>1 DEF MarkOutcome, MarkSettled, Row, CrawlUrlStatus
<1>2. CASE o = "requeue"
    <2>1. MarkOutcome(u, o) = RequeueForRedirect(u)
        BY <1>2 DEF MarkOutcome, Settled
    <2>2. RequeueForRedirect(u) \in [Urls -> Row]
        BY RowType DEF RequeueForRedirect
    <2>3. QED  BY <2>1, <2>2
<1>3. CASE o \in {"retryable_failed", "defer"}
    <2>1. MarkOutcome(u, o) = MarkRetryableFailure(u, o = "retryable_failed")
        BY <1>3 DEF MarkOutcome, Settled
    <2>2. \A consumes \in BOOLEAN : MarkRetryableFailure(u, consumes) \in [Urls -> Row]
        BY RowType DEF MarkRetryableFailure
    <2>3. QED  BY <2>1, <2>2
<1>4. QED  BY <1>1, <1>2, <1>3 DEF Outcomes

\* So does a claim, and so does the recovery of the rows in progress.
LEMMA ClaimUrlType ==
    ASSUME urls \in [Urls -> Row], NEW u \in Urls
    PROVE  ClaimUrl(u) \in [Urls -> Row]
BY DEF ClaimUrl, Row, CrawlUrlStatus

LEMMA RecoverType ==
    ASSUME urls \in [Urls -> Row]
    PROVE  RecoverAllInProgress \in [Urls -> Row]
BY DEF RecoverAllInProgress, Row, CrawlUrlStatus, Claimable

\* So does an admission, which also keeps the counter a number.
LEMMA EnqueueType ==
    ASSUME urls \in [Urls -> Row], enqueued \in Nat,
           NEW u \in Urls, NEW d \in Nat, NEW n \in Nat, EnqueueUrl(u, d, n)
    PROVE  urls' \in [Urls -> Row] /\ enqueued' \in Nat
<1>1. NewRow(d, n) \in Row
    BY DEF NewRow, Row, CrawlUrlStatus, Claimable
<1>2. QED  BY <1>1 DEF EnqueueUrl

\* A retry decision is an outcome, and so is every answer that one mark settles.
LEMMA DecisionType ==
    ASSUME NEW t
    PROVE  /\ RetryDecision(t) \in {"permanent_failed", "retryable_failed"}
           /\ RetryDecision(t) \in Outcomes
           /\ \A a \in DOMAIN DirectOutcome(t) : DirectOutcome(t)[a] \in Outcomes
BY DEF RetryDecision, DirectOutcome, Outcomes, Settled

\* Deciding on a target gives a reason that an edge can have.
LEMMA SkipType ==
    ASSUME NEW u, NEW d, NEW skip \in SkipReasons(u, d)
    PROVE  skip \in SkipReason
BY DEF SkipReasons, SkipReason, EnqueueAnswers

-----------------------------------------------------------------------------
(* Type correctness.                                                       *)

\* What a worker that gives up on its row, or is through with it, leaves.
LEMMA CatchType ==
    ASSUME TypeOK, NEW w \in Workers, pc[w] \in Holding, Catch(w), UNCHANGED task
    PROVE  /\ pc' \in [Workers -> PC]
           /\ task' \in [Workers -> CrawlUrlTask]
           /\ \A v \in Workers : pc'[v] \in Holding \cup {"lock"} => task'[v].url \in Urls
           /\ out' \in [Workers -> Outcomes \cup {"none"}]
           /\ \A v \in Workers : pc'[v] \in {"mark", "remark"} => out'[v] \in Outcomes
           /\ todo' \in [Workers -> SUBSET Urls]
           /\ cand' \in [Workers -> EdgeCandidate]
           /\ \A v \in Workers : pc'[v] = "edge" => cand'[v].to \in Urls
           /\ tries' \in [Workers -> Nat]
<1>1. NoCandidate \in EdgeCandidate
    BY DEF NoCandidate, EdgeCandidate, Sources, SkipReason
<1>2. RetryDecision(task[w]) \in Outcomes
    BY DecisionType
<1>3. QED
    BY <1>1, <1>2 DEF TypeOK, Catch, Goto, PC, Holding

\* Init, and every step of the head of the loop.
LEMMA TypeInit == Init => TypeOK
<1>1. NoTask \in CrawlUrlTask /\ NoCandidate \in EdgeCandidate /\ AbsentRow \in Row
    BY DEF NoTask, CrawlUrlTask, NoCandidate, EdgeCandidate, Sources, SkipReason,
           AbsentRow, Row
<1>2. Init => FrontierTypeOK
    BY <1>1, PoolAssumption DEF Init, FrontierInit, FrontierTypeOK
<1>3. QED
    <2> SUFFICES ASSUME Init PROVE TypeOK
        OBVIOUS
    <2>1. /\ pc \in [Workers -> PC]
          /\ \A w \in Workers : pc[w] \notin Holding \cup {"lock"}
        BY DEF Init, PC, Holding
    <2>2. /\ task \in [Workers -> CrawlUrlTask]
          /\ out \in [Workers -> Outcomes \cup {"none"}]
          /\ todo \in [Workers -> SUBSET Urls]
          /\ cand \in [Workers -> EdgeCandidate]
          /\ tries \in [Workers -> Nat]
          /\ busy \in [Workers -> BOOLEAN]
        BY <1>1 DEF Init
    <2>3. /\ {shutdown, limit, expired} \subseteq BOOLEAN
          /\ memBytes \in Nat /\ phase \in Phase
          /\ verdict \in FinalStatus \cup {"none"}
          /\ runStatus \in FinalStatus \cup {"none", "running"}
          /\ totalBytes \in Nat /\ faults \in Nat /\ sessions \in Nat
        BY DEF Init, Phase
    <2>4. QED  BY <1>2, <2>1, <2>2, <2>3 DEF TypeOK, Holding

LEMMA TypeHead ==
    ASSUME TypeOK, NEW w \in Workers,
           Stop(w) \/ Proceed(w) \/ LockRow(w) \/ FindNone(w) \/ ClaimFails(w)
    PROVE  TypeOK'
<1>1. CASE Stop(w) \/ Proceed(w)
    BY <1>1 DEF Stop, Proceed, Goto, TypeOK, FrontierTypeOK, durable, run, control,
                PC, Holding, ShouldStop
<1>2. CASE LockRow(w)
    <2>1. PICK u \in Urls : task' = [task EXCEPT ![w] = [NoTask EXCEPT !.url = u]]
        BY <1>2 DEF LockRow, ClaimNext
    <2>2. [NoTask EXCEPT !.url = u] \in CrawlUrlTask
        BY DEF NoTask, CrawlUrlTask
    <2>3. [NoTask EXCEPT !.url = u].url = u
        BY DEF NoTask
    <2>4. QED
        BY <1>2, <2>1, <2>2, <2>3 DEF LockRow, Goto, TypeOK, FrontierTypeOK, durable,
                run, control, PC, Holding
<1>3. CASE FindNone(w)
    BY <1>3 DEF FindNone, PassInfra, Goto, TypeOK, FrontierTypeOK, durable, run,
                control, PC, Holding
<1>4. CASE ClaimFails(w)
    BY <1>4 DEF ClaimFails, Answered, RetryInfra, Goto, TypeOK, FrontierTypeOK,
                durable, run, control, PC, Holding
<1>5. QED  BY <1>1, <1>2, <1>3, <1>4

LEMMA TypeCommitClaim ==
    ASSUME TypeOK, NEW w \in Workers, NEW r \in Reply, CommitClaim(w, r)
    PROVE  TypeOK'
<1>1. task[w].url \in Urls
    BY DEF TypeOK, CommitClaim
<1>2. urls' \in [Urls -> Row]
    BY <1>1, ClaimUrlType DEF CommitClaim, After, TypeOK, FrontierTypeOK
<1>3. FrontierTypeOK'
    BY <1>2 DEF CommitClaim, TypeOK, FrontierTypeOK
<1>4. NoTask \in CrawlUrlTask
    BY DEF NoTask, CrawlUrlTask
<1>5. [url |-> task[w].url, attempts |-> urls[task[w].url].attempts,
       redirects |-> urls[task[w].url].redirects] \in CrawlUrlTask
    BY <1>1 DEF CrawlUrlTask, TypeOK, FrontierTypeOK, Row
<1>6. CASE r = "ok"
    BY <1>1, <1>3, <1>5, <1>6 DEF CommitClaim, Answered, PassInfra, Goto, TypeOK,
       run, control, PC, Holding
<1>7. CASE r # "ok"
    BY <1>3, <1>4, <1>7 DEF CommitClaim, Answered, RetryInfra, Goto, TypeOK, run,
       control, PC, Holding
<1>8. QED  BY <1>6, <1>7

LEMMA TypeCounts ==
    ASSUME TypeOK, NEW w \in Workers,
           DoCountInProgress(w) \/ DoCountFutureRetryable(w) \/ DoCountQueued(w)
    PROVE  TypeOK'
<1> SUFFICES ASSUME NEW label \in PC, NEW n,
                    NEW next \in {"countFutureRetryable", "countQueued", "top", "exited"},
                    label \in {"countInProgress", "countFutureRetryable", "countQueued"},
                    Counted(w, label, n, next)
             PROVE  TypeOK'
    BY DEF DoCountInProgress, DoCountFutureRetryable, DoCountQueued, PC
<1>1. busy' \in [Workers -> BOOLEAN]
    BY DEF Counted, TypeOK
<1>2. QED
    BY <1>1 DEF Counted, Answered, PassInfra, RetryInfra, Goto, TypeOK,
       FrontierTypeOK, durable, run, control, PC, Holding

LEMMA TypeFetch ==
    ASSUME TypeOK, NEW w \in Workers,
           \/ FetchPage(w) \/ FetchRedirect(w)
           \/ \E a \in AnswerKind : FetchDirect(w, a) \/ FetchThrows(w, a)
    PROVE  TypeOK'
<1>1. task[w].url \in Urls
    BY DEF TypeOK, FetchPage, FetchRedirect, FetchDirect, FetchThrows, Holding
<1>2. /\ FrontierTypeOK' /\ task' = task /\ cand' = cand /\ tries' = tries
      /\ busy' = busy /\ UNCHANGED <<control, run, faults>>
    BY DEF TypeOK, FrontierTypeOK, durable, FetchPage, FetchRedirect, FetchDirect,
           FetchThrows
<1>3. PICK label \in {"mark", "remark", "links", "redirect"} :
          /\ pc' = [pc EXCEPT ![w] = label]
          /\ \/ label \in {"mark", "remark"} /\ \E o \in Outcomes : out' = [out EXCEPT ![w] = o]
             \/ label \in {"links", "redirect"} /\ out' = out
    <2>1. CASE FetchPage(w)
        BY <2>1 DEF FetchPage, Goto, Outcomes, Settled
    <2>2. CASE FetchRedirect(w)
        BY <2>2 DEF FetchRedirect, Goto, Outcomes, Settled
    <2>3. ASSUME NEW a \in AnswerKind, FetchDirect(w, a)
          PROVE  /\ pc' = [pc EXCEPT ![w] = "mark"]
                 /\ \E o \in Outcomes : out' = [out EXCEPT ![w] = o]
        BY <2>3, DecisionType DEF FetchDirect, Goto
    <2>4. ASSUME NEW a \in AnswerKind, FetchThrows(w, a)
          PROVE  /\ pc' = [pc EXCEPT ![w] = "remark"]
                 /\ \E o \in Outcomes : out' = [out EXCEPT ![w] = o]
        <3>1. "permanent_failed" \in Outcomes /\ RetryDecision(task[w]) \in Outcomes
            BY DecisionType DEF Outcomes, Settled
        <3>2. QED  BY <2>4, <3>1 DEF FetchThrows, Goto
    <2>5. QED  BY <2>1, <2>2, <2>3, <2>4
<1>4. todo' \in [Workers -> SUBSET Urls]
    BY <1>1, PoolAssumption DEF TypeOK, FetchPage, FetchRedirect, FetchDirect, FetchThrows
<1>5. QED
    BY <1>1, <1>2, <1>3, <1>4 DEF TypeOK, control, run, PC, Holding

\* Deciding on a target and recording the edge.
LEMMA TypeResolve ==
    ASSUME TypeOK, NEW w \in Workers, pc[w] \in {"links", "redirect"},
           NEW to \in Urls, NEW source \in Sources, NEW d \in Nat, NEW n \in Nat,
           Resolve(w, to, source, d, n)
    PROVE  TypeOK'
<1>1. PICK skip \in SkipReasons(to, d) :
          /\ IF skip = "none" THEN EnqueueUrl(to, d, n) ELSE UNCHANGED <<urls, enqueued>>
          /\ limit' = (limit \/ skip = "limit")
          /\ cand' = [cand EXCEPT ![w] = [to |-> to, source |-> source, skip |-> skip]]
          /\ Goto(w, "edge")
          /\ UNCHANGED <<maxUrls, edges, task, out, todo, tries, busy, shutdown,
                         expired, memBytes, run, faults>>
    BY DEF Resolve
<1>2. [to |-> to, source |-> source, skip |-> skip] \in EdgeCandidate
    BY SkipType DEF EdgeCandidate
<1>3. urls' \in [Urls -> Row] /\ enqueued' \in Nat
    BY <1>1, EnqueueType DEF TypeOK, FrontierTypeOK
<1>4. QED
    BY <1>1, <1>2, <1>3 DEF Goto, TypeOK, FrontierTypeOK, run, PC, Holding

LEMMA TypeThrows ==
    ASSUME TypeOK, NEW w \in Workers, pc[w] \in {"links", "redirect"},
           NEW to \in Urls, NEW d \in Nat, NEW n \in Nat, NEW r \in Reply,
           ResolveThrows(w, to, d, n, r)
    PROVE  TypeOK'
<1>1. urls' \in [Urls -> Row] /\ enqueued' \in Nat
    BY EnqueueType DEF ResolveThrows, TypeOK, FrontierTypeOK
<1>2. Catch(w) /\ UNCHANGED task /\ pc[w] \in Holding /\ faults' \in Nat
    BY DEF ResolveThrows, Answered, TypeOK, Holding
<1>3. QED
    BY <1>1, <1>2, CatchType DEF ResolveThrows, TypeOK, FrontierTypeOK, run, control

LEMMA TypeDiscovery ==
    ASSUME TypeOK, NEW w \in Workers,
           \/ ResolveLink(w) \/ ResolveRedirect(w)
           \/ \E r \in Reply : ResolveLinkThrows(w, r) \/ ResolveRedirectThrows(w, r)
    PROVE  TypeOK'
<1>1. /\ task[w].url \in Urls /\ task[w].redirects + 1 \in Nat
      /\ urls[task[w].url].depth \in Nat /\ LinkDepth(w) \in Nat
      /\ Location[task[w].url] \in Urls /\ 0 \in Nat
      /\ todo[w] \subseteq Urls
    BY PoolAssumption DEF TypeOK, FrontierTypeOK, Row, CrawlUrlTask, LinkDepth,
       ResolveLink, ResolveRedirect, ResolveLinkThrows, ResolveRedirectThrows, Holding
<1>2. CASE ResolveLink(w)
    BY <1>1, <1>2, TypeResolve DEF ResolveLink, Sources
<1>3. CASE ResolveRedirect(w)
    BY <1>1, <1>3, TypeResolve DEF ResolveRedirect, Sources
<1>4. ASSUME NEW r \in Reply, ResolveLinkThrows(w, r) PROVE TypeOK'
    BY <1>1, <1>4, TypeThrows DEF ResolveLinkThrows
<1>5. ASSUME NEW r \in Reply, ResolveRedirectThrows(w, r) PROVE TypeOK'
    BY <1>1, <1>5, TypeThrows DEF ResolveRedirectThrows
<1>6. QED  BY <1>2, <1>3, <1>4, <1>5

LEMMA TypeRecord ==
    ASSUME TypeOK, NEW w \in Workers, NEW r \in Reply, RecordCandidate(w, r)
    PROVE  TypeOK'
<1>1. /\ task[w].url \in Urls /\ cand[w] \in EdgeCandidate /\ cand[w].to \in Urls
    BY DEF TypeOK, RecordCandidate, Holding
<1>2. edges' \in [EdgeKey -> SkipReason \cup {"unrecorded"}]
    BY <1>1 DEF RecordCandidate, After, RecordEdge, TypeOK, FrontierTypeOK, EdgeKey,
       EdgeCandidate
<1>3. FrontierTypeOK' /\ UNCHANGED <<task, busy, control, run>> /\ faults' \in Nat
    BY <1>2 DEF RecordCandidate, Answered, TypeOK, FrontierTypeOK
<1>4. CASE r # "ok"
    <2>1. Catch(w) /\ UNCHANGED task /\ pc[w] \in Holding
        BY <1>4 DEF RecordCandidate, Holding
    <2>2. QED
        BY <1>3, <2>1, CatchType DEF TypeOK, control, run
<1>5. CASE r = "ok"
    <2>1. NoCandidate \in EdgeCandidate
        BY DEF NoCandidate, EdgeCandidate, Sources, SkipReason
    <2>2. /\ todo' \in [Workers -> SUBSET Urls] /\ tries' = tries
          /\ cand' = [cand EXCEPT ![w] = NoCandidate]
        BY <1>5 DEF RecordCandidate, TypeOK
    <2>3. \/ pc' = [pc EXCEPT ![w] = "links"] /\ out' = out
          \/ /\ pc' = [pc EXCEPT ![w] = "mark"]
             /\ \E o \in Outcomes : out' = [out EXCEPT ![w] = o]
        BY <1>5 DEF RecordCandidate, Goto, Outcomes, Settled
    <2>4. QED
        BY <1>1, <1>3, <2>1, <2>2, <2>3 DEF TypeOK, control, run, PC, Holding
<1>6. QED  BY <1>4, <1>5

LEMMA TypeOutcome ==
    ASSUME TypeOK, NEW w \in Workers, NEW r \in Reply,
           Mark(w, r) \/ AddBytes(w, r) \/ Remark(w, r)
    PROVE  TypeOK'
<1>1. NoTask \in CrawlUrlTask
    BY DEF NoTask, CrawlUrlTask
<1>2. task[w].url \in Urls
    BY DEF TypeOK, Mark, AddBytes, Remark, Holding
<1>3. FrontierTypeOK'
    <2>1. CASE Mark(w, r) \/ Remark(w, r)
        <3>1. urls' \in [Urls -> Row]
            BY <1>2, <2>1, MarkOutcomeType DEF Mark, Remark, After, TypeOK, FrontierTypeOK
        <3>2. QED  BY <2>1, <3>1 DEF Mark, Remark, TypeOK, FrontierTypeOK
    <2>2. CASE AddBytes(w, r)
        BY <2>2 DEF AddBytes, durable, TypeOK, FrontierTypeOK
    <2>3. QED  BY <2>1, <2>2
<1>4. faults' \in Nat /\ totalBytes' \in Nat /\ memBytes' \in Nat
    BY DEF TypeOK, Mark, AddBytes, Remark, Answered, After, control, run
<1>5. UNCHANGED <<busy, shutdown, limit, expired, phase, verdict, runStatus, sessions>>
    BY DEF Mark, AddBytes, Remark, control, run
<1>6. CASE Catch(w) /\ UNCHANGED task
    <2>1. pc[w] \in Holding
        BY DEF Mark, AddBytes, Remark, Holding
    <2>2. QED  BY <1>3, <1>4, <1>5, <1>6, <2>1, CatchType DEF TypeOK
<1>7. CASE /\ UNCHANGED <<todo, cand>>
           /\ \E label \in {"top", "crashed"} : Release(w, label)
    BY <1>1, <1>3, <1>4, <1>5, <1>7 DEF Release, Goto, TypeOK, PC, Holding
<1>8. CASE /\ UNCHANGED <<pc, task, out, todo, cand>>
           /\ tries' = [tries EXCEPT ![w] = @ + 1]
    BY <1>3, <1>4, <1>5, <1>8 DEF TypeOK
<1>9. CASE /\ UNCHANGED <<task, todo, cand>>
           /\ Goto(w, "bytes")
           /\ out' = [out EXCEPT ![w] = "none"]
           /\ tries' = [tries EXCEPT ![w] = 0]
    BY <1>2, <1>3, <1>4, <1>5, <1>9 DEF Goto, TypeOK, PC, Holding
<1>10. QED
    BY <1>6, <1>7, <1>8, <1>9 DEF Mark, AddBytes, Remark

\* The steps of the process around its workers.
LEMMA TypeProcess ==
    ASSUME TypeOK,
           \/ PoolStep \/ Shutdown \/ Expire \/ Crash \/ TimePasses
           \/ \E m \in NewMaxUrls \cup {maxUrls} : Resume(m)
    PROVE  TypeOK'
<1>1. NoTask \in CrawlUrlTask /\ NoCandidate \in EdgeCandidate
    BY DEF NoTask, CrawlUrlTask, NoCandidate, EdgeCandidate, Sources, SkipReason
<1>2. CASE CreateRun \/ Shutdown \/ Expire
    <2>1. UNCHANGED <<durable, worker, memBytes, verdict, totalBytes, faults>>
        BY <1>2 DEF CreateRun, Shutdown, Expire, control, run
    <2>2. /\ {shutdown, limit, expired}' \subseteq BOOLEAN
          /\ phase' \in Phase /\ sessions' \in Nat
          /\ runStatus' \in FinalStatus \cup {"none", "running"}
        <3>1. CASE CreateRun
            BY <3>1 DEF CreateRun, control, TypeOK, Phase
        <3>2. CASE Shutdown \/ Expire
            <4>1. shutdown' \in {shutdown, TRUE} /\ limit' = limit /\ expired' \in {expired, TRUE}
                BY <3>2 DEF Shutdown, Expire
            <4>2. QED  BY <3>2, <4>1 DEF Shutdown, Expire, run, TypeOK, Phase
        <3>3. QED  BY <1>2, <3>1, <3>2
    <2>3. QED  BY <2>1, <2>2 DEF TypeOK, FrontierTypeOK, durable, worker
<1>3. ASSUME NEW r \in Reply, EnqueueSeed(r) \/ Recover(r) PROVE TypeOK'
    <2>1. urls' \in [Urls -> Row] /\ enqueued' \in Nat
        BY <1>3, EnqueueType, RecoverType, PoolAssumption DEF EnqueueSeed, Recover, After,
           TypeOK, FrontierTypeOK
    <2>2. FrontierTypeOK' /\ faults' \in Nat
        BY <1>3, <2>1 DEF EnqueueSeed, Recover, Answered, TypeOK, FrontierTypeOK
    <2>3. UNCHANGED <<verdict, runStatus, totalBytes, sessions>>
        BY <1>3 DEF EnqueueSeed, Recover
    <2>4. CASE StartPool
        BY <2>2, <2>3, <2>4 DEF StartPool, TypeOK, PC, Holding, Phase
    <2>5. CASE phase' = "down" /\ UNCHANGED <<worker, control>>
        BY <2>2, <2>3, <2>5 DEF TypeOK, worker, control, Phase
    <2>6. QED  BY <1>3, <2>4, <2>5 DEF EnqueueSeed, Recover
<1>4. ASSUME NEW r \in Reply, Finalize(r) \/ FinishRun(r) \/ Fallback(r) PROVE TypeOK'
    <2>1. Verdict \in FinalStatus
        BY DEF Verdict, FinalStatus, Completed
    <2>2. verdict' \in FinalStatus \cup {"none"} /\ phase' \in Phase
        BY <1>4, <2>1 DEF Finalize, FinishRun, Fallback, FinalStatus, Phase, TypeOK
    <2>3. runStatus' \in FinalStatus \cup {"none", "running"}
        <3>1. CASE FinishRun(r)
            <4>1. phase = "finalizing" /\ runStatus' \in {runStatus, verdict}
                BY <3>1 DEF FinishRun, After
            <4>2. QED  BY <4>1 DEF TypeOK
        <3>2. CASE Finalize(r) \/ Fallback(r)
            BY <3>2 DEF Finalize, Fallback, After, TypeOK, FinalStatus
        <3>3. QED  BY <1>4, <3>1, <3>2
    <2>4. QED
        BY <1>4, <2>2, <2>3 DEF Finalize, FinishRun, Fallback, Answered, TypeOK,
           FrontierTypeOK, durable, worker, control
<1>5. CASE Crash
    BY <1>1, <1>5 DEF Crash, Forget, TypeOK, FrontierTypeOK, durable, control, PC,
       Holding, Phase
<1>6. ASSUME NEW m \in NewMaxUrls \cup {maxUrls}, Resume(m) PROVE TypeOK'
    <2>1. FrontierTypeOK'
        BY <1>6, PoolAssumption DEF Resume, TypeOK, FrontierTypeOK
    <2>2. QED
        BY <1>1, <1>6, <2>1 DEF Resume, Forget, TypeOK, control, PC, Holding, Phase
<1>7. CASE TimePasses
    <2>1. urls' \in [Urls -> Row]
        BY <1>7 DEF TimePasses, ComeDue, TypeOK, FrontierTypeOK, Row
    <2>2. QED
        BY <1>7, <2>1 DEF TimePasses, ComeDue, TypeOK, FrontierTypeOK, worker, control, run
<1>8. QED
    BY <1>2, <1>3, <1>4, <1>5, <1>6, <1>7 DEF PoolStep

LEMMA TypeStep == TypeOK /\ [Next]_vars => TypeOK'
<1> SUFFICES ASSUME TypeOK, [Next]_vars PROVE TypeOK'
    OBVIOUS
<1>1. ASSUME NEW w \in Workers, WorkerStep(w) PROVE TypeOK'
    BY <1>1, TypeHead, TypeCommitClaim, TypeCounts, TypeFetch, TypeDiscovery, TypeRecord,
       TypeOutcome DEF WorkerStep
<1>2. CASE Ended \/ UNCHANGED vars
    BY <1>2 DEF Ended, vars, durable, worker, control, run, TypeOK, FrontierTypeOK
<1>3. QED  BY <1>1, <1>2, TypeProcess DEF Next

\* Every variable keeps its type, for every site and every pool.
THEOREM TypeTheorem == Spec => []TypeOK
BY TypeInit, TypeStep, PTL DEF Spec

-----------------------------------------------------------------------------
(* Who holds which row, when no statement loses its answer.                *)

\* The status of a row goes with the place of the worker that holds it: the row
\* stays in progress until the outcome is written, and a worker that turns back
\* to it after that finds it done.
HeldAs(w) ==
    LET held == urls[task[w].url].status IN
    /\ pc[w] = "lock" => held \in Claimable
    /\ pc[w] \in Holding \ {"bytes", "remark"} => held = "in_progress"
    /\ pc[w] = "bytes" => held = "done"
    /\ pc[w] = "remark" => held \in {"in_progress", "done"}
HeldStatus == \A w \in Workers : HeldAs(w)

\* Outside a live session no worker is at work.
Resting == phase # "live" => \A w \in Workers : pc[w] \in {"idle", "exited", "crashed"}

\* The tables and the run's row before and during a session.
Unseeded == phase \in {"none", "seeding"} => \A u \in Urls : urls[u].status = "absent"
RunningInSession ==
    /\ phase = "none" => runStatus = "none"
    /\ phase \in {"seeding", "recovering", "live", "finalizing", "fallback"} =>
           runStatus = "running"

\* Nothing is queued once the last worker has left without a stop flag, and
\* nothing is queued or in progress once that has become the verdict.
LeftDrained ==
    phase = "live" /\ ~shutdown /\ ~limit /\ (\A w \in Workers : pc[w] = "exited") =>
        WithStatus("queued") = {}
JudgedDrained ==
    phase = "finalizing" /\ verdict \in Completed =>
        WithStatus("queued") \cup WithStatus("in_progress") = {}

\* The inductive invariant.
Owned == HeldStatus /\ ClaimExclusive /\ InProgressOwned
Session == Resting /\ Unseeded /\ RunningInSession
Drained == LeftDrained /\ JudgedDrained /\ NoQueuedLeft
IInv == TypeOK /\ Owned /\ Session /\ Drained

-----------------------------------------------------------------------------
(* What the statements do to the statuses.                                 *)

\* A step leaves the status of u alone, or admits u.
Untouched(u) ==
    \/ urls'[u].status = urls[u].status
    \/ urls[u].status = "absent" /\ urls'[u].status = "queued"

LEMMA EnqueueStatus ==
    ASSUME urls \in [Urls -> Row], NEW u \in Urls, NEW d \in Nat, NEW n \in Nat,
           EnqueueUrl(u, d, n) \/ UNCHANGED <<urls, enqueued>>
    PROVE  \A v \in Urls : Untouched(v)
<1>1. CASE EnqueueUrl(u, d, n)
    BY <1>1 DEF EnqueueUrl, Untouched, NewRow, Present
<1>2. QED  BY <1>1 DEF Untouched

LEMMA ClaimStatus ==
    ASSUME urls \in [Urls -> Row], NEW u \in Urls
    PROVE  /\ ClaimUrl(u)[u].status = "in_progress"
           /\ \A v \in Urls \ {u} : ClaimUrl(u)[v].status = urls[v].status
BY DEF ClaimUrl, Row

\* An outcome moves one row, out of progress.
LEMMA MarkStatus ==
    ASSUME urls \in [Urls -> Row], NEW u \in Urls, NEW o \in Outcomes
    PROVE  /\ MarkOutcome(u, o)[u].status # "in_progress"
           /\ o = "done" => MarkOutcome(u, o)[u].status = "done"
           /\ \A v \in Urls \ {u} : MarkOutcome(u, o)[v].status = urls[v].status
<1>1. CASE o \in Settled
    <2>1. MarkOutcome(u, o) = MarkSettled(u, o)
        BY <1>1 DEF MarkOutcome
    <2>2. MarkSettled(u, o)[u].status = o
        BY DEF MarkSettled, Row
    <2>3. QED  BY <1>1, <2>1, <2>2 DEF MarkSettled, Settled, Row
<1>2. CASE o = "requeue"
    <2>1. MarkOutcome(u, o) = RequeueForRedirect(u)
        BY <1>2 DEF MarkOutcome, Settled
    <2>2. Requeued(urls[u]).status = "queued"
        BY DEF Requeued, Row
    <2>3. QED  BY <1>2, <2>1, <2>2 DEF RequeueForRedirect
<1>3. CASE o \in {"retryable_failed", "defer"}
    <2>1. MarkOutcome(u, o) = MarkRetryableFailure(u, o = "retryable_failed")
        BY <1>3 DEF MarkOutcome, Settled
    <2>2. \A b \in BOOLEAN : Retried(urls[u], b).status = "retryable_failed"
        BY DEF Retried, Row
    <2>3. QED  BY <1>3, <2>1, <2>2 DEF MarkRetryableFailure
<1>4. QED  BY <1>1, <1>2, <1>3 DEF Outcomes

-----------------------------------------------------------------------------
(* A step of one worker keeps the ownership of rows.                       *)

Holds == Holding \cup {"lock"}

\* A step of w leaves the other workers alone, and every row that w does not hold.
LeavesOthers(w) ==
    /\ \A v \in Workers \ {w} : pc'[v] = pc[v] /\ task'[v].url = task[v].url
    /\ \A u \in Urls : ~Untouched(u) => pc[w] \in Holds /\ u = task[w].url

\* Such a step keeps the ownership of rows if what w holds after it, it held
\* before or nobody held.
LEMMA OwnStep ==
    ASSUME TypeOK, Owned, NEW w \in Workers, phase' = phase, pc[w] # "crashed",
           LeavesOthers(w),
           HeldAs(w)',
           pc'[w] \in Holds =>
               \/ pc[w] \in Holds /\ task'[w].url = task[w].url
               \/ \A v \in Workers \ {w} : pc[v] \in Holds => task[v].url # task'[w].url,
           pc[w] \in Holds /\ urls'[task[w].url].status = "in_progress" =>
               \/ pc'[w] = "crashed"
               \/ pc'[w] \in Holding /\ task'[w].url = task[w].url
    PROVE  Owned'
<1>1. \A v \in Workers : pc[v] \in Holds => task[v].url \in Urls
    BY DEF TypeOK, Holds
<1>2. ClaimExclusive'
    BY DEF Owned, ClaimExclusive, HoldsRow, LeavesOthers, Holds
<1>3. ASSUME NEW v \in Workers \ {w} PROVE HeldAs(v)'
    <2>1. CASE pc[v] \in Holds
        <3>1. urls[task[v].url].status # "absent" /\ HeldAs(v)
            BY <2>1 DEF Owned, HeldStatus, HeldAs, Holds, Holding, Claimable
        <3>2. Untouched(task[v].url)
            BY <1>1, <2>1 DEF Owned, ClaimExclusive, HoldsRow, LeavesOthers, Holds
        <3>3. urls'[task'[v].url].status = urls[task[v].url].status
            BY <3>1, <3>2 DEF Untouched, LeavesOthers
        <3>4. QED  BY <3>1, <3>3 DEF HeldAs, LeavesOthers
    <2>2. CASE pc[v] \notin Holds
        BY <2>2 DEF Holds, HeldAs, Holding, LeavesOthers
    <2>3. QED  BY <2>1, <2>2
<1>4. InProgressOwned'
    <2> SUFFICES ASSUME phase = "live", \A v \in Workers : pc'[v] # "crashed",
                        NEW u \in Urls, urls'[u].status = "in_progress"
                 PROVE  \E v \in Workers : pc'[v] \in Holding /\ task'[v].url = u
        BY DEF InProgressOwned, WithStatus
    <2>1. CASE pc[w] \in Holds /\ u = task[w].url
        BY <2>1
    <2>2. CASE ~(pc[w] \in Holds /\ u = task[w].url)
        <3>1. urls[u].status = "in_progress"
            BY <2>2 DEF Untouched, LeavesOthers
        <3>2. PICK v \in Workers : pc[v] \in Holding /\ task[v].url = u
            BY <3>1 DEF Owned, InProgressOwned, WithStatus, LeavesOthers
        <3>3. v # w
            BY <2>2, <3>2 DEF Holds
        <3>4. QED  BY <3>2, <3>3 DEF LeavesOthers
    <2>3. QED  BY <2>1, <2>2
<1>5. QED  BY <1>2, <1>3, <1>4 DEF Owned, HeldStatus

\* No answer is lost: a statement has its effect and says so, or has none.
LEMMA NoLostAck ==
    ASSUME ~LostAcks, NEW r \in Reply, Answered(r)
    PROVE  r \in {"ok", "failed"}
BY DEF Reply, Answered

\* Where a worker that turns to its catch block stands.
LEMMA CatchHolds ==
    ASSUME TypeOK, Owned, NEW w \in Workers, pc[w] \in Holding, Catch(w), UNCHANGED task,
           phase' = phase,
           \A u \in Urls : Untouched(u)
    PROVE  Owned'
<1>1. /\ pc' = [pc EXCEPT ![w] = "remark"] /\ pc \in [Workers -> PC]
      /\ task[w].url \in Urls /\ pc[w] # "crashed"
    BY DEF Catch, Goto, TypeOK, Holding
<1>2. urls[task[w].url].status \in {"in_progress", "done"}
    BY DEF Owned, HeldStatus, HeldAs, Holding
<1>3. urls'[task[w].url].status = urls[task[w].url].status
    BY <1>1, <1>2 DEF Untouched
<1>4. HeldAs(w)'
    BY <1>1, <1>2, <1>3 DEF HeldAs, Holding
<1>5. pc[w] \in Holds /\ pc'[w] \in Holds /\ pc'[w] \in Holding
    BY <1>1 DEF Holds, Holding
<1>6. LeavesOthers(w)
    BY <1>1 DEF LeavesOthers
<1>7. QED  BY <1>1, <1>4, <1>5, <1>6, OwnStep

LEMMA OwnHead ==
    ASSUME TypeOK, Owned, NEW w \in Workers,
           Stop(w) \/ Proceed(w) \/ LockRow(w) \/ FindNone(w) \/ ClaimFails(w)
    PROVE  Owned'
<1>1. /\ pc[w] \in {"top", "claim"} /\ pc[w] # "crashed" /\ pc[w] \notin Holds
      /\ phase' = phase /\ \A u \in Urls : Untouched(u)
    BY DEF Stop, Proceed, LockRow, FindNone, ClaimFails, durable, run, Holds, Holding,
           Untouched
<1>2. LeavesOthers(w)
    BY <1>1 DEF LeavesOthers, TypeOK, Stop, Proceed, LockRow, FindNone, ClaimFails, PassInfra, RetryInfra, Goto
<1>3. CASE LockRow(w)
    <2>1. PICK u \in ClaimNext(Locked(w)) :
              task' = [task EXCEPT ![w] = [NoTask EXCEPT !.url = u]]
        BY <1>3 DEF LockRow
    <2>2. u \in Urls /\ u \notin Locked(w) /\ urls[u].status \in Claimable
        BY <2>1 DEF ClaimNext, Eligible
    <2>3. task'[w].url = u /\ pc'[w] = "lock" /\ urls' = urls
        BY <1>3, <2>1 DEF LockRow, Goto, TypeOK, NoTask, durable
    <2>4. HeldAs(w)'
        BY <2>2, <2>3 DEF HeldAs, Holding
    <2>5. ASSUME NEW v \in Workers \ {w}, pc[v] \in Holds PROVE task[v].url # task'[w].url
        <3>1. CASE pc[v] = "lock"
            BY <2>2, <2>3, <3>1 DEF Locked
        <3>2. CASE pc[v] # "lock"
            <4>1. urls[task[v].url].status \notin Claimable
                BY <2>5, <3>2 DEF Owned, HeldStatus, HeldAs, Holds, Holding, Claimable
            <4>2. QED  BY <2>2, <2>3, <4>1
        <3>3. QED  BY <3>1, <3>2
    <2>6. QED  BY <1>1, <1>2, <2>4, <2>5, OwnStep
<1>4. CASE Stop(w) \/ Proceed(w) \/ FindNone(w) \/ ClaimFails(w)
    <2>1. pc'[w] \notin Holds /\ HeldAs(w)'
        BY <1>4 DEF Stop, Proceed, FindNone, ClaimFails, PassInfra, RetryInfra, Goto,
           TypeOK, Holds, HeldAs, Holding
    <2>2. QED  BY <1>1, <1>2, <2>1, OwnStep
<1>5. QED  BY <1>3, <1>4

LEMMA OwnCommitClaim ==
    ASSUME ~LostAcks, TypeOK, Owned, NEW w \in Workers, NEW r \in Reply, CommitClaim(w, r)
    PROVE  Owned'
<1> DEFINE u == task[w].url
<1>1. /\ pc[w] = "lock" /\ pc[w] # "crashed" /\ pc[w] \in Holds /\ phase' = phase
      /\ u \in Urls /\ urls[u].status \in Claimable /\ r \in {"ok", "failed"}
    BY NoLostAck DEF CommitClaim, run, TypeOK, Holds, Owned, HeldStatus, HeldAs
<1>2. ASSUME NEW v \in Workers \ {w} PROVE pc'[v] = pc[v] /\ task'[v].url = task[v].url
    BY DEF TypeOK, CommitClaim, PassInfra, RetryInfra, Goto
<1>3. CASE r = "ok"
    <2>1. pc'[w] = "fetch" /\ task'[w].url = u /\ urls' = ClaimUrl(u)
        BY <1>3 DEF CommitClaim, PassInfra, Goto, After, TypeOK
    <2>2. /\ urls'[u].status = "in_progress"
          /\ \A v \in Urls \ {u} : urls'[v].status = urls[v].status
        BY <1>1, <2>1, ClaimStatus DEF TypeOK, FrontierTypeOK
    <2>3. HeldAs(w)' /\ pc'[w] \in Holding
        BY <2>1, <2>2 DEF HeldAs, Holding
    <2>4. LeavesOthers(w)
        BY <1>1, <1>2, <2>2 DEF Untouched, LeavesOthers
    <2>5. QED  BY <1>1, <2>1, <2>3, <2>4, OwnStep
<1>4. CASE r = "failed"
    <2>1. urls' = urls /\ pc'[w] \in {"claim", "crashed"}
        BY <1>4 DEF CommitClaim, RetryInfra, Goto, After, TypeOK
    <2>2. HeldAs(w)' /\ pc'[w] \notin Holds
        BY <2>1 DEF HeldAs, Holds, Holding
    <2>3. urls'[u].status # "in_progress" /\ LeavesOthers(w)
        BY <1>1, <1>2, <2>1 DEF Claimable, Untouched, LeavesOthers
    <2>4. QED  BY <1>1, <2>2, <2>3, OwnStep
<1>5. QED  BY <1>1, <1>3, <1>4

LEMMA OwnCounts ==
    ASSUME TypeOK, Owned, NEW w \in Workers,
           DoCountInProgress(w) \/ DoCountFutureRetryable(w) \/ DoCountQueued(w)
    PROVE  Owned'
<1> SUFFICES ASSUME NEW label \in {"countInProgress", "countFutureRetryable", "countQueued"},
                    NEW n,
                    NEW next \in {"countFutureRetryable", "countQueued", "top", "exited"},
                    Counted(w, label, n, next)
             PROVE  Owned'
    BY DEF DoCountInProgress, DoCountFutureRetryable, DoCountQueued
<1>1. /\ pc[w] = label /\ phase' = phase /\ urls' = urls /\ task' = task
      /\ \E l \in {label, next, "crashed"} : pc' = [pc EXCEPT ![w] = l]
    BY DEF Counted, PassInfra, RetryInfra, Goto, durable, run
<1>2. /\ pc[w] # "crashed" /\ pc[w] \notin Holds /\ pc'[w] \notin Holds /\ HeldAs(w)'
      /\ LeavesOthers(w)
    BY <1>1 DEF Holds, HeldAs, Holding, Untouched, LeavesOthers, TypeOK
<1>3. QED  BY <1>1, <1>2, OwnStep

\* The fetch and the walk over the links keep the row in progress.
LEMMA OwnWalk ==
    ASSUME TypeOK, Owned, NEW w \in Workers,
           pc[w] \in {"fetch", "links", "redirect", "edge"},
           NEW label \in {"links", "redirect", "edge", "mark", "remark"},
           pc' = [pc EXCEPT ![w] = label], task' = task, phase' = phase,
           \A u \in Urls : Untouched(u)
    PROVE  Owned'
<1>1. task[w].url \in Urls /\ pc[w] # "crashed" /\ pc \in [Workers -> PC]
    BY DEF TypeOK, Holding
<1>2. urls[task[w].url].status = "in_progress"
    BY DEF Owned, HeldStatus, HeldAs, Holding
<1>3. urls'[task[w].url].status = "in_progress"
    BY <1>1, <1>2 DEF Untouched
<1>4. /\ HeldAs(w)' /\ pc[w] \in Holds /\ pc'[w] \in Holds /\ pc'[w] \in Holding
      /\ LeavesOthers(w)
    BY <1>1, <1>3 DEF HeldAs, Holds, Holding, LeavesOthers
<1>5. QED  BY <1>1, <1>4, OwnStep

LEMMA OwnFetch ==
    ASSUME TypeOK, Owned, NEW w \in Workers,
           \/ FetchPage(w) \/ FetchRedirect(w)
           \/ \E a \in AnswerKind : FetchDirect(w, a) \/ FetchThrows(w, a)
    PROVE  Owned'
<1>1. /\ pc[w] = "fetch" /\ task' = task /\ phase' = phase /\ urls' = urls
      /\ \E label \in {"links", "redirect", "mark", "remark"} :
             pc' = [pc EXCEPT ![w] = label]
    BY DEF FetchPage, FetchRedirect, FetchDirect, FetchThrows, Goto, durable, run
<1>2. QED  BY <1>1, OwnWalk DEF Untouched

LEMMA OwnDiscovery ==
    ASSUME ~LostAcks, TypeOK, Owned, NEW w \in Workers,
           \/ ResolveLink(w) \/ ResolveRedirect(w)
           \/ \E r \in Reply : \/ ResolveLinkThrows(w, r) \/ ResolveRedirectThrows(w, r)
                            \/ RecordCandidate(w, r)
    PROVE  Owned'
<1>1. pc[w] \in {"links", "redirect", "edge"} /\ pc[w] \in Holding
    BY DEF ResolveLink, ResolveRedirect, ResolveLinkThrows, ResolveRedirectThrows,
           RecordCandidate, Holding
<1>2. /\ urls \in [Urls -> Row] /\ task[w].redirects + 1 \in Nat /\ 0 \in Nat
      /\ urls[task[w].url].depth \in Nat /\ LinkDepth(w) \in Nat
      /\ Location[task[w].url] \in Urls /\ todo[w] \subseteq Urls
    BY <1>1, PoolAssumption DEF TypeOK, FrontierTypeOK, Row, CrawlUrlTask, LinkDepth,
       Holding
<1>3. ASSUME NEW to \in Urls, NEW source, NEW d \in Nat, NEW n \in Nat,
             Resolve(w, to, source, d, n)
      PROVE  Owned'
    <2>1. /\ EnqueueUrl(to, d, n) \/ UNCHANGED <<urls, enqueued>>
          /\ pc' = [pc EXCEPT ![w] = "edge"] /\ task' = task /\ phase' = phase
        BY <1>3 DEF Resolve, Goto, run
    <2>2. QED  BY <1>1, <1>2, <2>1, EnqueueStatus, OwnWalk
<1>4. ASSUME NEW to \in Urls, NEW d \in Nat, NEW n \in Nat, NEW r \in Reply,
             ResolveThrows(w, to, d, n, r)
      PROVE  Owned'
    <2>1. /\ EnqueueUrl(to, d, n) \/ UNCHANGED <<urls, enqueued>>
          /\ Catch(w) /\ task' = task /\ phase' = phase
        BY <1>4 DEF ResolveThrows, run
    <2>2. QED  BY <1>1, <1>2, <2>1, EnqueueStatus, CatchHolds
<1>5. ASSUME NEW r \in Reply, RecordCandidate(w, r) PROVE Owned'
    <2>1. task' = task /\ phase' = phase /\ \A u \in Urls : Untouched(u)
        BY <1>5 DEF RecordCandidate, run, Untouched
    <2>2. CASE r = "ok"
        <3>1. \E label \in {"links", "mark"} : pc' = [pc EXCEPT ![w] = label]
            BY <1>5, <2>2 DEF RecordCandidate, Goto
        <3>2. QED  BY <1>1, <2>1, <3>1, OwnWalk
    <2>3. CASE r # "ok"
        BY <1>1, <1>5, <2>1, <2>3, CatchHolds DEF RecordCandidate
    <2>4. QED  BY <2>2, <2>3
<1>6. CASE ResolveLink(w) \/ ResolveRedirect(w)
    BY <1>2, <1>3, <1>6 DEF ResolveLink, ResolveRedirect
<1>7. ASSUME NEW r \in Reply, ResolveLinkThrows(w, r) \/ ResolveRedirectThrows(w, r)
      PROVE  Owned'
    BY <1>2, <1>4, <1>7 DEF ResolveLinkThrows, ResolveRedirectThrows
<1>8. QED  BY <1>5, <1>6, <1>7

LEMMA OwnOutcome ==
    ASSUME ~LostAcks, TypeOK, Owned, NEW w \in Workers, NEW r \in Reply,
           Mark(w, r) \/ AddBytes(w, r) \/ Remark(w, r)
    PROVE  Owned'
<1> DEFINE u == task[w].url
<1>1. /\ pc[w] \in {"mark", "bytes", "remark"} /\ pc[w] # "crashed" /\ pc[w] \in Holds
      /\ pc[w] \in Holding /\ phase' = phase /\ u \in Urls /\ r \in {"ok", "failed"}
      /\ urls \in [Urls -> Row] /\ pc \in [Workers -> PC]
      /\ task \in [Workers -> CrawlUrlTask]
    BY NoLostAck DEF Mark, AddBytes, Remark, run, Holds, Holding, TypeOK, FrontierTypeOK
<1>2. CASE Catch(w) /\ UNCHANGED task /\ r = "failed"
    <2>1. urls' = urls
        BY <1>2 DEF Mark, AddBytes, Remark, After, durable
    <2>2. QED  BY <1>1, <1>2, <2>1, CatchHolds DEF Untouched
<1>3. CASE Mark(w, r) \/ Remark(w, r)
    <2>1. CASE r = "ok"
        <3>1. urls' = MarkOutcome(u, out[w]) /\ out[w] \in Outcomes
            BY <1>3, <2>1 DEF Mark, Remark, After, TypeOK
        <3>2. /\ urls'[u].status # "in_progress"
              /\ out[w] = "done" => urls'[u].status = "done"
              /\ \A v \in Urls \ {u} : urls'[v].status = urls[v].status
            BY <1>1, <3>1, MarkStatus
        <3>3. \A v \in Urls : ~Untouched(v) => pc[w] \in Holds /\ v = task[w].url
            BY <1>1, <3>2 DEF Untouched
        <3>4. CASE Release(w, "top")
            <4>1. pc'[w] = "top" /\ \A v \in Workers \ {w} :
                      pc'[v] = pc[v] /\ task'[v].url = task[v].url
                BY <1>1, <3>4 DEF Release, Goto
            <4>2. HeldAs(w)' /\ pc'[w] \notin Holds /\ LeavesOthers(w)
                BY <3>3, <4>1 DEF HeldAs, Holds, Holding, LeavesOthers
            <4>3. QED  BY <1>1, <3>2, <4>1, <4>2, OwnStep
        <3>5. CASE Goto(w, "bytes") /\ UNCHANGED task /\ out[w] = "done"
            <4>1. pc'[w] = "bytes" /\ \A v \in Workers \ {w} : pc'[v] = pc[v]
                BY <1>1, <3>5 DEF Goto
            <4>2. HeldAs(w)' /\ LeavesOthers(w)
                BY <3>2, <3>3, <3>5, <4>1 DEF HeldAs, Holding, LeavesOthers
            <4>3. QED  BY <1>1, <3>2, <3>5, <4>1, <4>2, OwnStep
        <3>6. QED  BY <1>3, <2>1, <3>4, <3>5 DEF Mark, Remark
    <2>2. CASE r = "failed"
        <3>1. urls' = urls
            BY <1>3, <2>2 DEF Mark, Remark, After
        <3>2. CASE UNCHANGED <<pc, task>>
            BY <3>1, <3>2, <1>1 DEF Owned, HeldStatus, HeldAs, ClaimExclusive, HoldsRow,
               InProgressOwned, WithStatus
        <3>3. CASE Release(w, "crashed")
            <4>1. pc'[w] = "crashed" /\ \A v \in Workers \ {w} :
                      pc'[v] = pc[v] /\ task'[v].url = task[v].url
                BY <1>1, <3>3 DEF Release, Goto
            <4>2. HeldAs(w)' /\ pc'[w] \notin Holds /\ LeavesOthers(w)
                BY <3>1, <4>1 DEF HeldAs, Holds, Holding, Untouched, LeavesOthers
            <4>3. QED  BY <1>1, <4>1, <4>2, OwnStep
        <3>4. QED  BY <1>2, <1>3, <2>2, <3>2, <3>3 DEF Mark, Remark
    <2>3. QED  BY <1>1, <2>1, <2>2
<1>4. CASE AddBytes(w, r)
    <2>1. urls' = urls /\ pc[w] = "bytes" /\ urls[u].status = "done"
        BY <1>4 DEF AddBytes, durable, Owned, HeldStatus, HeldAs
    <2>2. CASE Release(w, "top")
        <3>1. pc'[w] = "top" /\ \A v \in Workers \ {w} :
                  pc'[v] = pc[v] /\ task'[v].url = task[v].url
            BY <1>1, <2>2 DEF Release, Goto
        <3>2. HeldAs(w)' /\ pc'[w] \notin Holds /\ LeavesOthers(w)
            BY <2>1, <3>1 DEF HeldAs, Holds, Holding, Untouched, LeavesOthers
        <3>3. QED  BY <1>1, <2>1, <3>1, <3>2, OwnStep
    <2>3. QED  BY <1>1, <1>2, <1>4, <2>2 DEF AddBytes
<1>5. QED  BY <1>3, <1>4

LEMMA OwnWorker ==
    ASSUME ~LostAcks, TypeOK, Owned, NEW w \in Workers, WorkerStep(w)
    PROVE  Owned'
BY OwnHead, OwnCommitClaim, OwnCounts, OwnFetch, OwnDiscovery, OwnOutcome DEF WorkerStep

-----------------------------------------------------------------------------
(* The whole inductive invariant.                                          *)

\* A worker at work is at work in a live session, and leaves the session's own
\* state alone; it may only raise the limit flag.
LEMMA WorkerFrame ==
    ASSUME TypeOK, Resting, NEW w \in Workers, WorkerStep(w)
    PROVE  /\ phase = "live" /\ UNCHANGED <<phase, verdict, runStatus, shutdown>>
           /\ limit => limit'
           /\ \A v \in Workers \ {w} : pc'[v] = pc[v]
           /\ pc[w] \notin {"exited", "crashed"}
<1>1. pc[w] \notin {"idle", "exited", "crashed"}
    BY DEF WorkerStep, Stop, Proceed, LockRow, FindNone, ClaimFails, CommitClaim, Counted,
       DoCountInProgress, DoCountFutureRetryable, DoCountQueued, FetchDirect, FetchPage,
       FetchRedirect, FetchThrows, ResolveLink, ResolveRedirect, ResolveLinkThrows,
       ResolveRedirectThrows, RecordCandidate, Mark, AddBytes, Remark
<1>2. phase = "live"
    BY <1>1 DEF Resting
<1>3. \A v \in Workers \ {w} : pc'[v] = pc[v]
    BY DEF WorkerStep, Stop, Proceed, LockRow, FindNone, ClaimFails, CommitClaim, Counted,
       DoCountInProgress, DoCountFutureRetryable, DoCountQueued, FetchDirect, FetchPage,
       FetchRedirect, FetchThrows, ResolveLink, ResolveRedirect, ResolveLinkThrows,
       ResolveRedirectThrows, RecordCandidate, Mark, AddBytes, Remark, Resolve,
       ResolveThrows, Catch, Release, PassInfra, RetryInfra, Goto, TypeOK
<1>4. UNCHANGED <<phase, verdict, runStatus, shutdown>>
    BY DEF WorkerStep, Stop, Proceed, LockRow, FindNone, ClaimFails, CommitClaim, Counted,
       DoCountInProgress, DoCountFutureRetryable, DoCountQueued, FetchDirect, FetchPage,
       FetchRedirect, FetchThrows, ResolveLink, ResolveRedirect, ResolveLinkThrows,
       ResolveRedirectThrows, RecordCandidate, Mark, AddBytes, Remark, Resolve,
       ResolveThrows, control, run
<1>5. limit => limit'
    <2>1. CASE Stop(w) \/ ResolveLink(w) \/ ResolveRedirect(w)
        BY <2>1 DEF Stop, ResolveLink, ResolveRedirect, Resolve
    <2>2. CASE ~(Stop(w) \/ ResolveLink(w) \/ ResolveRedirect(w))
        <3>1. limit' = limit
            BY <2>2 DEF WorkerStep, Proceed, LockRow, FindNone, ClaimFails, CommitClaim,
               Counted, DoCountInProgress, DoCountFutureRetryable, DoCountQueued,
               FetchDirect, FetchPage, FetchRedirect, FetchThrows, ResolveLinkThrows,
               ResolveRedirectThrows, RecordCandidate, Mark, AddBytes, Remark,
               ResolveThrows, control
        <3>2. QED  BY <3>1
    <2>3. QED  BY <2>1, <2>2
<1>6. QED  BY <1>1, <1>2, <1>3, <1>4, <1>5

\* A worker leaves the loop because a flag is up or because it has just seen that
\* nothing is queued.
LEMMA WorkerExit ==
    ASSUME TypeOK, NEW w \in Workers, WorkerStep(w), pc[w] # "exited", pc'[w] = "exited"
    PROVE  shutdown \/ limit' \/ WithStatus("queued")' = {}
<1>1. CASE Stop(w)
    BY <1>1 DEF Stop
<1>2. CASE DoCountQueued(w)
    <2>1. /\ CountQueued \in Nat /\ urls' = urls
          /\ \/ CountQueued = 0
             \/ pc' = [pc EXCEPT ![w] = "top"]
             \/ pc' = [pc EXCEPT ![w] = "crashed"]
             \/ pc' = [pc EXCEPT ![w] = "countQueued"]
        <3>1. IsFiniteSet(WithStatus("queued"))
            BY UrlsAssumption, FS_Subset DEF WithStatus
        <3>2. CountQueued \in Nat
            BY <3>1, FS_CardinalityType DEF CountQueued
        <3>3. QED
            BY <1>2, <3>2 DEF DoCountQueued, Counted, PassInfra, RetryInfra, Goto, durable
    <2>2. CountQueued = 0
        BY <2>1 DEF TypeOK
    <2>3. WithStatus("queued") = {}
        <3>1. IsFiniteSet(WithStatus("queued"))
            BY UrlsAssumption, FS_Subset DEF WithStatus
        <3>2. QED  BY <2>2, <3>1, FS_EmptySet DEF CountQueued
    <2>4. QED  BY <2>1, <2>3 DEF WithStatus
<1>3. CASE ~Stop(w) /\ ~DoCountQueued(w)
    <2>1. pc' # [pc EXCEPT ![w] = "exited"] /\ pc'[w] # "exited"
        BY <1>3 DEF WorkerStep, Proceed, LockRow, FindNone, ClaimFails, CommitClaim, Counted,
           DoCountInProgress, DoCountFutureRetryable, FetchDirect, FetchPage,
           FetchRedirect, FetchThrows, ResolveLink, ResolveRedirect, ResolveLinkThrows,
           ResolveRedirectThrows, RecordCandidate, Mark, AddBytes, Remark, Resolve,
           ResolveThrows, Catch, Release, PassInfra, RetryInfra, Goto, TypeOK
    <2>2. QED  BY <2>1
<1>4. QED  BY <1>1, <1>2, <1>3

LEMMA WorkerInv ==
    ASSUME ~LostAcks, IInv, NEW w \in Workers, WorkerStep(w)
    PROVE  IInv'
<1>1. TypeOK /\ Owned /\ Resting /\ RunningInSession
    BY DEF IInv, Session
<1>2. TypeOK' /\ Owned'
    BY <1>1, OwnWorker, TypeStep DEF Next
<1>3. /\ phase = "live" /\ UNCHANGED <<phase, verdict, runStatus, shutdown>>
      /\ limit => limit'
      /\ \A v \in Workers \ {w} : pc'[v] = pc[v]
      /\ pc[w] \notin {"exited", "crashed"}
    BY <1>1, WorkerFrame
<1>4. Session'
    BY <1>1, <1>3 DEF Session, Resting, Unseeded, RunningInSession
<1>5. runStatus = "running"
    BY <1>1, <1>3 DEF RunningInSession
<1>6. LeftDrained'
    BY <1>1, <1>3, WorkerExit DEF LeftDrained
<1>7. JudgedDrained' /\ NoQueuedLeft'
    BY <1>3, <1>5 DEF JudgedDrained, NoQueuedLeft, Completed
<1>8. QED  BY <1>2, <1>4, <1>6, <1>7 DEF IInv, Drained

LEMMA InitInv == Init => IInv
<1> SUFFICES ASSUME Init PROVE IInv
    OBVIOUS
<1>1. TypeOK
    BY TypeInit
<1>2. /\ \A w \in Workers : pc[w] = "idle"
      /\ phase = "none" /\ verdict = "none" /\ runStatus = "none"
      /\ \A u \in Urls : urls[u].status = "absent"
    BY DEF Init, FrontierInit, AbsentRow
<1>3. Owned
    BY <1>2 DEF Owned, HeldStatus, HeldAs, Holding, ClaimExclusive, HoldsRow,
       InProgressOwned
<1>4. Session /\ Drained
    BY <1>2 DEF Session, Resting, Unseeded, RunningInSession, Drained, LeftDrained,
       JudgedDrained, NoQueuedLeft, Completed
<1>5. QED  BY <1>1, <1>3, <1>4 DEF IInv

\* A pool starts with every worker at the head of its loop.
LEMMA StartInv ==
    ASSUME TypeOK', RunningInSession, StartPool, UNCHANGED <<verdict, runStatus>>,
           phase \in {"seeding", "recovering"}, WithStatus("in_progress")' = {}
    PROVE  IInv'
<1>1. \A w \in Workers : pc'[w] = "top"
    BY DEF StartPool
<1>2. phase' = "live" /\ runStatus' = "running"
    BY DEF StartPool, RunningInSession
<1>3. Owned'
    BY <1>1, <1>2 DEF Owned, HeldStatus, HeldAs, Holding, ClaimExclusive, HoldsRow,
       InProgressOwned
<1>4. Session'
    BY <1>2 DEF Session, Resting, Unseeded, RunningInSession
<1>5. Workers # {}
    BY PoolAssumption
<1>6. Drained'
    BY <1>1, <1>2, <1>5 DEF Drained, LeftDrained, JudgedDrained, NoQueuedLeft, Completed
<1>7. QED  BY <1>3, <1>4, <1>6 DEF IInv

\* The recovery leaves nothing in progress.
LEMMA RecoverStatus ==
    ASSUME urls \in [Urls -> Row]
    PROVE  \A u \in Urls : RecoverAllInProgress[u].status # "in_progress"
BY DEF RecoverAllInProgress, Row

\* The steps of the process around its workers.
LEMMA ProcessInv ==
    ASSUME ~LostAcks, IInv,
           \/ PoolStep \/ Shutdown \/ Expire \/ Crash \/ TimePasses
           \/ \E m \in NewMaxUrls \cup {maxUrls} : Resume(m)
    PROVE  IInv'
<1>1. TypeOK /\ Owned /\ Resting /\ Unseeded /\ RunningInSession
      /\ LeftDrained /\ JudgedDrained /\ NoQueuedLeft
    BY DEF IInv, Session, Drained
<1>2. TypeOK'
    BY <1>1, TypeProcess
<1>3. urls \in [Urls -> Row]
    BY <1>1 DEF TypeOK, FrontierTypeOK
<1>4. CASE CreateRun
    <2>1. /\ phase = "none" /\ phase' = "seeding" /\ runStatus' = "running"
          /\ urls' = urls /\ pc' = pc /\ task' = task
        BY <1>4 DEF CreateRun, durable, worker
    <2>2. Owned'
        BY <1>1, <2>1 DEF Owned, HeldStatus, HeldAs, ClaimExclusive, HoldsRow, InProgressOwned
    <2>3. Session'
        BY <1>1, <2>1 DEF Session, Resting, Unseeded, RunningInSession
    <2>4. Drained'
        BY <2>1 DEF Drained, LeftDrained, JudgedDrained, NoQueuedLeft, Completed
    <2>5. QED  BY <1>2, <2>2, <2>3, <2>4 DEF IInv
<1>5. ASSUME NEW r \in Reply, EnqueueSeed(r) PROVE IInv'
    <2>1. /\ phase = "seeding" /\ UNCHANGED <<verdict, runStatus>>
          /\ EnqueueUrl(Seed, 0, 0) \/ UNCHANGED <<urls, enqueued>>
        BY <1>5 DEF EnqueueSeed
    <2>2. \A u \in Urls : Untouched(u)
        BY <1>3, <2>1, EnqueueStatus, PoolAssumption
    <2>3. WithStatus("in_progress")' = {}
        BY <1>1, <2>1, <2>2 DEF Unseeded, Untouched, WithStatus
    <2>4. CASE StartPool
        BY <1>1, <1>2, <2>1, <2>3, <2>4, StartInv
    <2>5. CASE phase' = "down" /\ UNCHANGED <<worker, control>>
        <3>1. \A w \in Workers : pc'[w] \in {"idle", "exited", "crashed"}
            BY <1>1, <2>1, <2>5 DEF Resting, worker
        <3>2. Owned'
            BY <2>5, <3>1 DEF Owned, HeldStatus, HeldAs, Holding, ClaimExclusive, HoldsRow,
               InProgressOwned
        <3>3. Session'
            BY <2>5, <3>1 DEF Session, Resting, Unseeded, RunningInSession
        <3>4. Drained'
            BY <1>1, <2>1, <2>5 DEF Drained, LeftDrained, JudgedDrained, NoQueuedLeft,
               RunningInSession, Completed
        <3>5. QED  BY <1>2, <3>2, <3>3, <3>4 DEF IInv
    <2>6. QED  BY <1>5, <2>4, <2>5 DEF EnqueueSeed
<1>6. ASSUME NEW r \in Reply, Recover(r) PROVE IInv'
    <2>1. /\ phase = "recovering" /\ UNCHANGED <<verdict, runStatus>>
          /\ r \in {"ok", "failed"}
        BY <1>6, NoLostAck DEF Recover
    <2>2. CASE r = "ok"
        <3>1. StartPool /\ urls' = RecoverAllInProgress
            BY <1>6, <2>2 DEF Recover, After
        <3>2. WithStatus("in_progress")' = {}
            BY <1>3, <3>1, RecoverStatus DEF WithStatus
        <3>3. QED  BY <1>1, <1>2, <2>1, <3>1, <3>2, StartInv
    <2>3. CASE r = "failed"
        <3>1. phase' = "down" /\ UNCHANGED <<worker, control>>
            BY <1>6, <2>3 DEF Recover
        <3>2. \A w \in Workers : pc'[w] \in {"idle", "exited", "crashed"}
            BY <1>1, <2>1, <3>1 DEF Resting, worker
        <3>3. Owned'
            BY <3>1, <3>2 DEF Owned, HeldStatus, HeldAs, Holding, ClaimExclusive, HoldsRow,
               InProgressOwned
        <3>4. Session'
            BY <3>1, <3>2 DEF Session, Resting, Unseeded, RunningInSession
        <3>5. Drained'
            BY <1>1, <2>1, <3>1 DEF Drained, LeftDrained, JudgedDrained, NoQueuedLeft,
               RunningInSession, Completed
        <3>6. QED  BY <1>2, <3>3, <3>4, <3>5 DEF IInv
    <2>4. QED  BY <2>1, <2>2, <2>3
<1>7. CASE Shutdown \/ Expire
    <2>1. /\ UNCHANGED <<urls, pc, task, phase, verdict, runStatus, limit>>
          /\ shutdown => shutdown'
        BY <1>7 DEF Shutdown, Expire, durable, worker, run
    <2>2. Owned'
        BY <1>1, <2>1 DEF Owned, HeldStatus, HeldAs, ClaimExclusive, HoldsRow,
           InProgressOwned, WithStatus
    <2>3. Session'
        BY <1>1, <2>1 DEF Session, Resting, Unseeded, RunningInSession
    <2>4. Drained'
        BY <1>1, <2>1 DEF Drained, LeftDrained, JudgedDrained, NoQueuedLeft, WithStatus
    <2>5. QED  BY <1>2, <2>2, <2>3, <2>4 DEF IInv
<1>8. ASSUME NEW r \in Reply, Finalize(r) PROVE IInv'
    <2>1. /\ phase = "live" /\ UNCHANGED <<urls, pc, task, runStatus>>
          /\ \A w \in Workers : pc[w] \in {"exited", "crashed"}
          /\ phase' \in {"finalizing", "fallback"}
        BY <1>8 DEF Finalize, WorkersDone, durable, worker
    <2>2. Owned'
        BY <2>1 DEF Owned, HeldStatus, HeldAs, Holding, ClaimExclusive, HoldsRow,
           InProgressOwned
    <2>3. Session'
        BY <1>1, <2>1 DEF Session, Resting, Unseeded, RunningInSession
    <2>4. JudgedDrained'
        <3>1. SUFFICES ASSUME phase' = "finalizing", verdict' \in Completed
                       PROVE  WithStatus("queued") \cup WithStatus("in_progress") = {}
            BY <2>1 DEF JudgedDrained, WithStatus
        <3>2. verdict' = Verdict
            BY <1>8, <3>1 DEF Finalize
        <3>3. ~shutdown /\ ~limit /\ \A w \in Workers : pc[w] = "exited"
            BY <2>1, <3>1, <3>2 DEF Verdict, Completed
        <3>4. WithStatus("queued") = {}
            BY <1>1, <2>1, <3>3 DEF LeftDrained
        <3>5. WithStatus("in_progress") = {}
            BY <1>1, <2>1, <3>3 DEF Owned, InProgressOwned, Holding
        <3>6. QED  BY <3>4, <3>5
    <2>5. LeftDrained' /\ NoQueuedLeft'
        BY <1>1, <2>1 DEF LeftDrained, NoQueuedLeft, RunningInSession, Completed
    <2>6. QED  BY <1>2, <2>2, <2>3, <2>4, <2>5 DEF IInv, Drained
<1>9. ASSUME NEW r \in Reply, FinishRun(r) \/ Fallback(r) PROVE IInv'
    <2>1. /\ phase \in {"finalizing", "fallback"} /\ UNCHANGED <<urls, pc, task>>
          /\ r \in {"ok", "failed"}
        BY <1>9, NoLostAck DEF FinishRun, Fallback, durable, worker
    <2>2. /\ phase' \in {"fallback", "down"}
          /\ phase' = "fallback" => runStatus' = runStatus
          /\ runStatus' \in Completed =>
                 \/ runStatus' = runStatus
                 \/ phase = "finalizing" /\ verdict \in Completed
        BY <1>9, <2>1 DEF FinishRun, Fallback, After, Completed
    <2>3. Owned'
        BY <1>1, <2>1, <2>2 DEF Owned, HeldStatus, HeldAs, ClaimExclusive, HoldsRow,
           InProgressOwned
    <2>4. Session'
        BY <1>1, <2>1, <2>2 DEF Session, Resting, Unseeded, RunningInSession
    <2>5. Drained'
        <3>1. NoQueuedLeft'
            BY <1>1, <2>1, <2>2 DEF NoQueuedLeft, JudgedDrained, WithStatus
        <3>2. QED  BY <2>2, <3>1 DEF Drained, LeftDrained, JudgedDrained
    <2>6. QED  BY <1>2, <2>3, <2>4, <2>5 DEF IInv
<1>10. CASE Crash
    <2>1. /\ phase' = "down" /\ \A w \in Workers : pc'[w] = "idle"
          /\ urls' = urls /\ runStatus' = runStatus
        BY <1>10 DEF Crash, Forget, durable
    <2>2. Owned'
        BY <2>1 DEF Owned, HeldStatus, HeldAs, Holding, ClaimExclusive, HoldsRow,
           InProgressOwned
    <2>3. Session'
        BY <2>1 DEF Session, Resting, Unseeded, RunningInSession
    <2>4. Drained'
        BY <1>1, <2>1 DEF Drained, LeftDrained, JudgedDrained, NoQueuedLeft, WithStatus
    <2>5. QED  BY <1>2, <2>2, <2>3, <2>4 DEF IInv
<1>11. ASSUME NEW m \in NewMaxUrls \cup {maxUrls}, Resume(m) PROVE IInv'
    <2>1. /\ phase' = "recovering" /\ \A w \in Workers : pc'[w] = "idle"
          /\ runStatus' = "running"
        BY <1>11 DEF Resume, Forget
    <2>2. Owned'
        BY <2>1 DEF Owned, HeldStatus, HeldAs, Holding, ClaimExclusive, HoldsRow,
           InProgressOwned
    <2>3. Session'
        BY <2>1 DEF Session, Resting, Unseeded, RunningInSession
    <2>4. Drained'
        BY <2>1 DEF Drained, LeftDrained, JudgedDrained, NoQueuedLeft, Completed
    <2>5. QED  BY <1>2, <2>2, <2>3, <2>4 DEF IInv
<1>12. CASE TimePasses
    <2>1. /\ UNCHANGED <<pc, task, phase, verdict, runStatus, shutdown, limit>>
          /\ \A u \in Urls : urls'[u].status = urls[u].status
        BY <1>3, <1>12 DEF TimePasses, ComeDue, worker, control, run, Row
    <2>2. \A status : WithStatus(status)' = WithStatus(status)
        BY <2>1 DEF WithStatus
    <2>3. HeldStatus' /\ ClaimExclusive'
        <3>1. \A w \in Workers : pc[w] \in Holding \cup {"lock"} => task[w].url \in Urls
            BY <1>1 DEF TypeOK
        <3>2. QED
            BY <1>1, <2>1, <3>1 DEF Owned, HeldStatus, HeldAs, Holding, ClaimExclusive,
               HoldsRow
    <2>4. InProgressOwned'
        BY <1>1, <2>1, <2>2 DEF Owned, InProgressOwned
    <2>5. Session'
        BY <1>1, <2>1 DEF Session, Resting, Unseeded, RunningInSession
    <2>6. Drained'
        BY <1>1, <2>1, <2>2 DEF Drained, LeftDrained, JudgedDrained, NoQueuedLeft
    <2>7. QED  BY <1>2, <2>3, <2>4, <2>5, <2>6 DEF IInv, Owned
<1>13. QED
    BY <1>4, <1>5, <1>6, <1>7, <1>8, <1>9, <1>10, <1>11, <1>12 DEF PoolStep

LEMMA NextInv ==
    ASSUME ~LostAcks, IInv, [Next]_vars
    PROVE  IInv'
<1>1. CASE Ended \/ UNCHANGED vars
    <2>1. UNCHANGED <<urls, pc, task, phase, verdict, runStatus, shutdown, limit>>
        BY <1>1 DEF Ended, vars, durable, worker, control, run
    <2>2. TypeOK'
        BY <1>1, TypeStep DEF IInv, Next
    <2>3. QED
        BY <2>1, <2>2 DEF IInv, Owned, HeldStatus, HeldAs, ClaimExclusive, HoldsRow,
           InProgressOwned, Session, Resting, Unseeded, RunningInSession, Drained,
           LeftDrained, JudgedDrained, NoQueuedLeft, WithStatus
<1>2. QED  BY <1>1, WorkerInv, ProcessInv DEF Next

\* If no statement loses its answer, the inductive invariant holds throughout.
THEOREM InductiveInvariant ==
    ASSUME ~LostAcks
    PROVE  Spec => []IInv
<1>1. Init => IInv
    BY InitInv
<1>2. IInv /\ [Next]_vars => IInv'
    BY NextInv
<1>3. QED  BY <1>1, <1>2, PTL DEF Spec

\* No two workers ever hold the same row, from the lock of the claim to the last
\* write of the outcome, whatever fails, dies and resumes.
THEOREM ExclusionTheorem ==
    ASSUME ~LostAcks
    PROVE  Spec => []ClaimExclusive
<1>1. IInv => ClaimExclusive
    BY DEF IInv, Owned
<1>2. QED  BY <1>1, InductiveInvariant, PTL

\* As long as no worker has crashed, every row in progress has its worker.
THEOREM OwnershipTheorem ==
    ASSUME ~LostAcks
    PROVE  Spec => []InProgressOwned
<1>1. IInv => InProgressOwned
    BY DEF IInv, Owned
<1>2. QED  BY <1>1, InductiveInvariant, PTL

\* A run that is reported complete leaves nothing queued and nothing in progress.
THEOREM NoQueuedLeftTheorem ==
    ASSUME ~LostAcks
    PROVE  Spec => []NoQueuedLeft
<1>1. IInv => NoQueuedLeft
    BY DEF IInv, Drained
<1>2. QED  BY <1>1, InductiveInvariant, PTL

\* A run that is reported complete stays so.
THEOREM CompleteIsFinalTheorem ==
    ASSUME ~LostAcks
    PROVE  Spec => CompleteIsFinal
<1>1. ASSUME IInv, [Next]_vars, runStatus \in Completed PROVE runStatus' = runStatus
    <2>1. /\ Resting /\ TypeOK
          /\ phase \notin {"none", "seeding", "recovering", "live", "finalizing", "fallback"}
        BY <1>1 DEF IInv, Session, RunningInSession, Completed
    <2>2. ASSUME NEW w \in Workers, WorkerStep(w) PROVE FALSE
        BY <2>1, <2>2, WorkerFrame
    <2>3. CASE PoolStep
        BY <2>1, <2>3 DEF PoolStep, CreateRun, EnqueueSeed, Finalize, FinishRun, Fallback,
           Recover
    <2>4. CASE \E m \in NewMaxUrls \cup {maxUrls} : Resume(m)
        BY <1>1, <2>4 DEF Resume, Resumable, Completed
    <2>5. CASE Shutdown \/ Expire \/ Crash \/ TimePasses \/ Ended \/ UNCHANGED vars
        BY <2>5 DEF Shutdown, Expire, Crash, TimePasses, Ended, vars, run
    <2>6. QED  BY <1>1, <2>2, <2>3, <2>4, <2>5 DEF Next
<1>2. IInv /\ [Next]_vars => [(runStatus \in Completed) => (runStatus' = runStatus)]_vars
    BY <1>1
<1>3. QED  BY <1>2, InductiveInvariant, PTL DEF Spec, CompleteIsFinal

=============================================================================
