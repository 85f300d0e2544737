------------------------ MODULE PoolDiscoveryProofs ------------------------
(***************************************************************************)
(* Proofs about Pool that need no assumption about lost answers: no link   *)
(* is lost between a page and the frontier, a pool does not give up on a   *)
(* retry, and a link that was dropped for want of room is reported.        *)
(***************************************************************************)
EXTENDS PoolProofs

-----------------------------------------------------------------------------
(* Discovery: the walk over the links of a page.                           *)

\* What may be recorded of a target: an edge without a reason leads to a row.
Justified(to, skip) ==
    /\ skip = "none" => Present(to)
    /\ skip = "scope" => to \in OutOfScope

Recorded(from, to, source) == edges[<<from, to, source>>] # "unrecorded"
LinksRecorded(u) == \A l \in Links[u] : Recorded(u, l, "link")
RedirectRecorded(u) == Recorded(u, Location[u], "redirect")

EdgesJustified ==
    \A from, to \in Urls, source \in Sources :
        Justified(to, edges[<<from, to, source>>])

\* How far the worker has come: what it has still to do is in todo, what it has
\* done is in the table, and it writes `done` or `redirected` only at the end.
WalkedLinks(w) == \A l \in Links[task[w].url] \ todo[w] : Recorded(task[w].url, l, "link")

Walked(w) ==
    /\ pc[w] = "links" => WalkedLinks(w)
    /\ pc[w] = "edge" =>
           /\ Justified(cand[w].to, cand[w].skip)
           /\ cand[w].source = "link" => WalkedLinks(w)
           /\ cand[w].source = "redirect" =>
                  todo[w] = {} /\ cand[w].to = Location[task[w].url]
    /\ pc[w] \notin {"links", "edge"} => todo[w] = {}
    /\ pc[w] = "mark" /\ out[w] = "done" => LinksRecorded(task[w].url)
    /\ pc[w] = "mark" /\ out[w] = "redirected" => RedirectRecorded(task[w].url)
    /\ pc[w] = "remark" => out[w] \notin {"done", "redirected"}

RowWalked(u) ==
    /\ urls[u].status = "done" => LinksRecorded(u)
    /\ urls[u].status = "redirected" => RedirectRecorded(u)

\* The inductive invariant.
WalkInv ==
    /\ EdgesJustified
    /\ \A w \in Workers : Walked(w)
    /\ \A u \in Urls : RowWalked(u)

\* Nothing that was admitted or recorded disappears.
Grows ==
    /\ \A u \in Urls : Present(u) => Present(u)'
    /\ \A from, to \in Urls, source \in Sources :
           Recorded(from, to, source) => Recorded(from, to, source)'

\* A row gets one of these two statuses only when its walk is recorded.
NewlyWalked ==
    \A u \in Urls : urls'[u].status \in {"done", "redirected"} =>
        urls'[u].status = urls[u].status \/ RowWalked(u)'

LEMMA WalkedGrows ==
    ASSUME TypeOK, WalkInv, Grows, NEW v \in Workers,
           UNCHANGED <<pc[v], task[v], out[v], todo[v], cand[v]>>,
           pc[v] \in Holding => task[v].url \in Urls
    PROVE  Walked(v)'
<1>1. Walked(v)
    BY DEF WalkInv
<1>2. /\ Sources = {"link", "redirect"}
      /\ \A u \in Urls : Links[u] \subseteq Urls /\ Location[u] \in Urls
    BY PoolAssumption DEF Sources
<1>3. ASSUME NEW u \in Urls
      PROVE  /\ LinksRecorded(u) => LinksRecorded(u)'
             /\ RedirectRecorded(u) => RedirectRecorded(u)'
    BY <1>2 DEF Grows, LinksRecorded, RedirectRecorded
<1>4. pc[v] \in {"links", "edge"} /\ WalkedLinks(v) => WalkedLinks(v)'
    BY <1>2 DEF Grows, WalkedLinks, Holding
<1>5. pc[v] = "edge" /\ Justified(cand[v].to, cand[v].skip) =>
          Justified(cand[v].to, cand[v].skip)'
    BY DEF Grows, Justified, TypeOK
<1>6. QED
    BY <1>1, <1>3, <1>4, <1>5 DEF Walked, Holding

\* A step of w is a step of w.
OthersRest(w) ==
    \A v \in Workers \ {w} : UNCHANGED <<pc[v], task[v], out[v], todo[v], cand[v]>>

LEMMA WalkStep ==
    ASSUME TypeOK, WalkInv, Grows, NewlyWalked, EdgesJustified',
           NEW w \in Workers, Walked(w)',
           OthersRest(w)
    PROVE  WalkInv'
<1>1. \A v \in Workers : pc[v] \in Holding => task[v].url \in Urls
    BY DEF TypeOK
<1>2. \A v \in Workers : Walked(v)'
    BY <1>1, WalkedGrows DEF OthersRest
<1>3. ASSUME NEW u \in Urls PROVE RowWalked(u)'
    <2>1. RowWalked(u)
        BY DEF WalkInv
    <2>2. Links[u] \subseteq Urls /\ Location[u] \in Urls /\ Sources = {"link", "redirect"}
        BY PoolAssumption DEF Sources
    <2>3. LinksRecorded(u) => LinksRecorded(u)'
        BY <2>2 DEF Grows, LinksRecorded
    <2>4. RedirectRecorded(u) => RedirectRecorded(u)'
        BY <2>2 DEF Grows, RedirectRecorded
    <2>5. QED  BY <2>1, <2>3, <2>4 DEF NewlyWalked, RowWalked
<1>4. QED  BY <1>2, <1>3 DEF WalkInv

-----------------------------------------------------------------------------
(* Discovery: the steps of a worker.                                       *)

LEMMA WorkerAlone ==
    ASSUME TypeOK, NEW w \in Workers, WorkerStep(w)
    PROVE  OthersRest(w)
BY DEF WorkerStep, Stop, Proceed, LockRow, FindNone, ClaimFails, CommitClaim, Counted,
   DoCountInProgress, DoCountFutureRetryable, DoCountQueued, FetchDirect, FetchPage,
   FetchRedirect, FetchThrows, ResolveLink, ResolveRedirect, ResolveLinkThrows,
   ResolveRedirectThrows, RecordCandidate, Mark, AddBytes, Remark, Resolve,
   ResolveThrows, Catch, Release, PassInfra, RetryInfra, Goto, TypeOK, OthersRest

\* Rows that are only admitted or left alone, and edges that are left alone.
LEMMA UntouchedGrows ==
    ASSUME TypeOK, WalkInv, edges' = edges, \A u \in Urls : Untouched(u)
    PROVE  Grows /\ NewlyWalked /\ EdgesJustified'
<1>1. Grows
    BY DEF Grows, Untouched, Present, Recorded
<1>2. NewlyWalked
    BY DEF NewlyWalked, Untouched
<1>3. EdgesJustified'
    BY <1>1 DEF WalkInv, EdgesJustified, Justified, Grows
<1>4. QED  BY <1>1, <1>2, <1>3

\* An outcome settles the row as it says, and in no other way.
LEMMA MarkWritten ==
    ASSUME urls \in [Urls -> Row], NEW u \in Urls, NEW o \in Outcomes
    PROVE  /\ MarkOutcome(u, o)[u].status # "absent"
           /\ MarkOutcome(u, o)[u].status \in Settled => MarkOutcome(u, o)[u].status = o
<1>1. CASE o \in Settled
    BY <1>1 DEF MarkOutcome, MarkSettled, Settled, Row
<1>2. CASE o = "requeue"
    <2>1. MarkOutcome(u, o)[u] = Requeued(urls[u])
        BY <1>2 DEF MarkOutcome, RequeueForRedirect, Settled
    <2>2. Requeued(urls[u]).status = "queued"
        BY DEF Requeued, Row
    <2>3. QED  BY <2>1, <2>2 DEF Settled
<1>3. CASE o \in {"retryable_failed", "defer"}
    <2>1. MarkOutcome(u, o)[u] = Retried(urls[u], o = "retryable_failed")
        BY <1>3 DEF MarkOutcome, MarkRetryableFailure, Settled
    <2>2. \A b \in BOOLEAN : Retried(urls[u], b).status = "retryable_failed"
        BY DEF Retried, Row
    <2>3. QED  BY <2>1, <2>2 DEF Settled
<1>4. QED  BY <1>1, <1>2, <1>3 DEF Outcomes

\* What a worker that turns to its catch block has still to walk: nothing.
LEMMA CatchWalked ==
    ASSUME TypeOK, NEW w \in Workers, Catch(w), UNCHANGED task
    PROVE  Walked(w)'
<1>1. RetryDecision(task[w]) \notin {"done", "redirected"}
    BY DecisionType
<1>2. pc'[w] = "remark" /\ out'[w] = RetryDecision(task[w]) /\ todo'[w] = {}
    BY DEF Catch, Goto, TypeOK
<1>3. QED  BY <1>1, <1>2 DEF Walked

LEMMA WalkHead ==
    ASSUME TypeOK, WalkInv, NEW w \in Workers,
           \/ Stop(w) \/ Proceed(w) \/ LockRow(w) \/ FindNone(w) \/ ClaimFails(w)
           \/ DoCountInProgress(w) \/ DoCountFutureRetryable(w) \/ DoCountQueued(w)
    PROVE  WalkInv'
<1>1. OthersRest(w)
    BY WorkerAlone DEF WorkerStep
<1>2. UNCHANGED <<urls, edges, todo>> /\ pc[w] \notin {"links", "edge"}
    BY DEF Stop, Proceed, LockRow, FindNone, ClaimFails, Counted, DoCountInProgress,
       DoCountFutureRetryable, DoCountQueued, durable
<1>3. pc'[w] \in {"exited", "claim", "lock", "countInProgress", "countFutureRetryable",
                   "countQueued", "crashed", "top"}
    BY DEF Stop, Proceed, LockRow, FindNone, ClaimFails, Counted, DoCountInProgress,
       DoCountFutureRetryable, DoCountQueued, PassInfra, RetryInfra, Goto, TypeOK
<1>4. Walked(w)'
    BY <1>2, <1>3 DEF WalkInv, Walked
<1>5. Grows /\ NewlyWalked /\ EdgesJustified'
    BY <1>2, UntouchedGrows DEF Untouched
<1>6. QED  BY <1>1, <1>4, <1>5, WalkStep

LEMMA WalkCommitClaim ==
    ASSUME TypeOK, WalkInv, NEW w \in Workers, NEW r \in Reply, CommitClaim(w, r)
    PROVE  WalkInv'
<1>1. OthersRest(w)
    BY WorkerAlone DEF WorkerStep
<1>2. UNCHANGED <<edges, todo>> /\ pc[w] = "lock" /\ pc'[w] \in {"fetch", "claim", "crashed"}
    BY DEF CommitClaim, PassInfra, RetryInfra, Goto, TypeOK
<1>3. Walked(w)'
    BY <1>2 DEF WalkInv, Walked
<1>4. \A u \in Urls : urls'[u].status \in {urls[u].status, "in_progress"}
    <2>1. task[w].url \in Urls /\ urls \in [Urls -> Row]
        BY <1>2 DEF TypeOK, FrontierTypeOK
    <2>2. urls' \in {urls, ClaimUrl(task[w].url)}
        BY DEF CommitClaim, After
    <2>3. QED  BY <2>1, <2>2, ClaimStatus
<1>5. Grows /\ NewlyWalked
    BY <1>2, <1>4 DEF Grows, NewlyWalked, Present, Recorded
<1>6. EdgesJustified'
    BY <1>2, <1>5 DEF WalkInv, EdgesJustified, Justified, Grows
<1>7. QED  BY <1>1, <1>3, <1>5, <1>6, WalkStep

LEMMA WalkFetch ==
    ASSUME TypeOK, WalkInv, NEW w \in Workers,
           \/ FetchPage(w) \/ FetchRedirect(w)
           \/ \E a \in AnswerKind : FetchDirect(w, a) \/ FetchThrows(w, a)
    PROVE  WalkInv'
<1>1. OthersRest(w)
    BY WorkerAlone DEF WorkerStep
<1>2. /\ UNCHANGED <<urls, edges, task>> /\ pc[w] = "fetch" /\ task[w].url \in Urls
      /\ todo[w] = {}
    BY DEF FetchPage, FetchRedirect, FetchDirect, FetchThrows, durable, TypeOK, Holding,
       WalkInv, Walked
<1>3. Walked(w)'
    <2>1. CASE FetchPage(w)
        <3>1. todo'[w] = Links[task[w].url] /\ pc'[w] \in {"mark", "links"}
            BY <2>1 DEF FetchPage, Goto, TypeOK
        <3>2. WalkedLinks(w)'
            BY <1>2, <3>1 DEF WalkedLinks
        <3>3. pc'[w] = "mark" => out'[w] = "done" /\ Links[task[w].url] = {}
            BY <2>1 DEF FetchPage, Goto, TypeOK
        <3>4. QED  BY <1>2, <3>1, <3>2, <3>3 DEF Walked, LinksRecorded
    <2>2. CASE FetchRedirect(w)
        <3>1. todo' = todo /\ pc'[w] \in {"mark", "redirect"}
            BY <2>2 DEF FetchRedirect, Goto, TypeOK
        <3>2. pc'[w] = "mark" => out'[w] \in {"permanent_failed", "requeue"}
            BY <2>2 DEF FetchRedirect, Goto, TypeOK
        <3>3. QED  BY <1>2, <3>1, <3>2 DEF Walked
    <2>3. ASSUME NEW a \in AnswerKind, FetchDirect(w, a) PROVE Walked(w)'
        <3>1. /\ todo' = todo /\ pc'[w] = "mark"
              /\ out'[w] = DirectOutcome(task[w])[a] /\ a \in DOMAIN DirectOutcome(task[w])
            BY <2>3 DEF FetchDirect, Goto, TypeOK
        <3>2. out'[w] \notin {"done", "redirected"}
            BY <3>1 DEF DirectOutcome, RetryDecision
        <3>3. QED  BY <1>2, <3>1, <3>2 DEF Walked
    <2>4. ASSUME NEW a \in AnswerKind, FetchThrows(w, a) PROVE Walked(w)'
        <3>1. /\ todo' = todo /\ pc'[w] = "remark"
              /\ out'[w] \in {RetryDecision(task[w]), "permanent_failed"}
            BY <2>4 DEF FetchThrows, Goto, TypeOK
        <3>2. out'[w] \notin {"done", "redirected"}
            BY <3>1, DecisionType
        <3>3. QED  BY <1>2, <3>1, <3>2 DEF Walked
    <2>5. QED  BY <2>1, <2>2, <2>3, <2>4
<1>4. Grows /\ NewlyWalked /\ EdgesJustified'
    BY <1>2, UntouchedGrows DEF Untouched
<1>5. QED  BY <1>1, <1>3, <1>4, WalkStep

LEMMA EnqueuePresent ==
    ASSUME urls \in [Urls -> Row], NEW u \in Urls, NEW d \in Nat, NEW n \in Nat,
           EnqueueUrl(u, d, n)
    PROVE  Present(u)'
BY DEF EnqueueUrl, Present, NewRow

\* Deciding on a target, from either of the two places where that happens.
LEMMA WalkResolve ==
    ASSUME TypeOK, WalkInv, NEW w \in Workers, OthersRest(w),
           NEW to \in Urls, NEW source \in Sources, NEW d \in Nat, NEW n \in Nat,
           \/ pc[w] = "links" /\ source = "link"
           \/ /\ pc[w] = "redirect" /\ source = "redirect"
              /\ to = Location[task[w].url],
           Resolve(w, to, source, d, n)
    PROVE  WalkInv'
<1>1. PICK skip \in SkipReasons(to, d) :
          /\ IF skip = "none" THEN EnqueueUrl(to, d, n) ELSE UNCHANGED <<urls, enqueued>>
          /\ cand' = [cand EXCEPT ![w] = [to |-> to, source |-> source, skip |-> skip]]
          /\ pc' = [pc EXCEPT ![w] = "edge"]
          /\ UNCHANGED <<edges, task, out, todo>>
    BY DEF Resolve, Goto
<1>2. urls \in [Urls -> Row]
    BY DEF TypeOK, FrontierTypeOK
<1>3. \A u \in Urls : Untouched(u)
    BY <1>1, <1>2, EnqueueStatus
<1>4. Grows /\ NewlyWalked /\ EdgesJustified'
    BY <1>1, <1>3, UntouchedGrows
<1>5. Justified(to, skip)'
    <2>1. skip = "none" => Present(to)'
        BY <1>1, <1>2, EnqueuePresent
    <2>2. skip = "scope" => to \in OutOfScope
        BY <1>1 DEF SkipReasons
    <2>3. QED  BY <2>1, <2>2 DEF Justified
<1>6. /\ pc'[w] = "edge" /\ cand'[w].to = to /\ cand'[w].source = source
      /\ cand'[w].skip = skip
    BY <1>1 DEF TypeOK
<1>7. Walked(w)
    BY DEF WalkInv
<1>8. CASE pc[w] = "links" /\ source = "link"
    <2>1. WalkedLinks(w)'
        BY <1>1, <1>7, <1>8 DEF Walked, WalkedLinks, Recorded
    <2>2. Walked(w)'
        BY <1>5, <1>6, <1>8, <2>1 DEF Walked
    <2>3. QED  BY <1>4, <2>2, WalkStep
<1>9. CASE pc[w] = "redirect" /\ source = "redirect" /\ to = Location[task[w].url]
    <2>1. todo'[w] = {} /\ cand'[w].to = Location'[task'[w].url]
        BY <1>1, <1>6, <1>7, <1>9 DEF Walked
    <2>2. Walked(w)'
        BY <1>5, <1>6, <1>9, <2>1 DEF Walked
    <2>3. QED  BY <1>4, <2>2, WalkStep
<1>10. QED  BY <1>8, <1>9

LEMMA WalkDiscovery ==
    ASSUME TypeOK, WalkInv, NEW w \in Workers,
           \/ ResolveLink(w) \/ ResolveRedirect(w)
           \/ \E r \in Reply : ResolveLinkThrows(w, r) \/ ResolveRedirectThrows(w, r)
    PROVE  WalkInv'
<1>1. OthersRest(w)
    BY WorkerAlone DEF WorkerStep
<1>2. /\ urls \in [Urls -> Row] /\ task[w].redirects + 1 \in Nat /\ 0 \in Nat
      /\ urls[task[w].url].depth \in Nat /\ LinkDepth(w) \in Nat
      /\ Location[task[w].url] \in Urls /\ todo[w] \subseteq Urls
    BY PoolAssumption DEF TypeOK, FrontierTypeOK, Row, CrawlUrlTask, LinkDepth, Holding,
       ResolveLink, ResolveRedirect, ResolveLinkThrows, ResolveRedirectThrows
<1>3. CASE ResolveLink(w)
    BY <1>1, <1>2, <1>3, WalkResolve DEF ResolveLink, Sources
<1>4. CASE ResolveRedirect(w)
    BY <1>1, <1>2, <1>4, WalkResolve DEF ResolveRedirect, Sources
<1>5. ASSUME NEW to \in Urls, NEW d \in Nat, NEW n \in Nat, NEW r \in Reply,
             ResolveThrows(w, to, d, n, r)
      PROVE  WalkInv'
    <2>1. /\ EnqueueUrl(to, d, n) \/ UNCHANGED <<urls, enqueued>>
          /\ Catch(w) /\ task' = task /\ edges' = edges
        BY <1>5 DEF ResolveThrows
    <2>2. Grows /\ NewlyWalked /\ EdgesJustified'
        BY <1>2, <2>1, EnqueueStatus, UntouchedGrows
    <2>3. Walked(w)'
        BY <2>1, CatchWalked
    <2>4. QED  BY <1>1, <2>2, <2>3, WalkStep
<1>6. ASSUME NEW r \in Reply, ResolveLinkThrows(w, r) \/ ResolveRedirectThrows(w, r)
      PROVE  WalkInv'
    BY <1>2, <1>5, <1>6 DEF ResolveLinkThrows, ResolveRedirectThrows
<1>7. QED  BY <1>3, <1>4, <1>6

LEMMA WalkRecord ==
    ASSUME TypeOK, WalkInv, NEW w \in Workers, NEW r \in Reply, RecordCandidate(w, r)
    PROVE  WalkInv'
<1>1. OthersRest(w)
    BY WorkerAlone DEF WorkerStep
<1> PICK from \in Urls, to \in Urls, source \in Sources, skip \in SkipReason :
        /\ from = task[w].url /\ to = cand[w].to
        /\ source = cand[w].source /\ skip = cand[w].skip
    BY DEF RecordCandidate, TypeOK, Holding, EdgeCandidate
<1>2. /\ pc[w] = "edge" /\ Walked(w)
      /\ edges \in [EdgeKey -> SkipReason \cup {"unrecorded"}]
    BY DEF RecordCandidate, TypeOK, FrontierTypeOK, WalkInv
<1>3. /\ UNCHANGED <<urls, task>>
      /\ edges' = edges \/ edges' = RecordEdge(from, to, source, skip)
    BY DEF RecordCandidate, After
<1>4. ASSUME NEW f \in Urls, NEW t \in Urls, NEW s \in Sources
      PROVE  \/ edges'[<<f, t, s>>] = edges[<<f, t, s>>]
             \/ f = from /\ t = to /\ s = source /\ edges'[<<f, t, s>>] = skip
    BY <1>2, <1>3 DEF RecordEdge, EdgeKey
<1>5. Grows
    BY <1>2, <1>3, <1>4 DEF Grows, Recorded, Present, SkipReason
<1>6. NewlyWalked
    BY <1>3 DEF NewlyWalked
<1>7. EdgesJustified'
    <2>1. Justified(to, skip)
        BY <1>2 DEF Walked
    <2>2. ASSUME NEW f \in Urls, NEW t \in Urls, NEW s \in Sources
          PROVE  Justified(t, edges'[<<f, t, s>>])
        BY <1>4, <2>1 DEF WalkInv, EdgesJustified
    <2>3. QED  BY <1>3, <2>2 DEF EdgesJustified, Justified, Present
<1>8. Walked(w)'
    <2>1. CASE r # "ok"
        BY <2>1, CatchWalked DEF RecordCandidate
    <2>2. CASE r = "ok"
        <3> DEFINE left == todo[w] \ {to}
        <3>1. edges' = RecordEdge(from, to, source, skip)
            BY <2>2 DEF RecordCandidate, After
        <3>2. Recorded(from, to, source)'
            BY <1>2, <1>3, <3>1 DEF RecordEdge, EdgeKey, Recorded, SkipReason
        <3>3. /\ todo'[w] = left
              /\ \/ left # {} /\ pc'[w] = "links"
                 \/ /\ left = {} /\ pc'[w] = "mark"
                    /\ out'[w] = IF source = "link" THEN "done" ELSE "redirected"
            BY <2>2 DEF RecordCandidate, Goto, TypeOK
        <3>4. CASE source = "link"
            <4>1. Links[from] \subseteq Urls /\ WalkedLinks(w)
                BY <1>2, <3>4, PoolAssumption DEF Walked
            <4>2. \A l \in Links[from] \ left : Recorded(from, l, "link")'
                BY <1>2, <1>5, <3>2, <3>4, <4>1 DEF WalkedLinks, Grows
            <4>3. WalkedLinks(w)'
                BY <1>3, <3>3, <4>2 DEF WalkedLinks
            <4>4. left = {} => LinksRecorded(from)'
                BY <4>2 DEF LinksRecorded
            <4>5. QED  BY <1>3, <3>3, <3>4, <4>3, <4>4 DEF Walked
        <3>5. CASE source = "redirect"
            <4>1. left = {} /\ to = Location[from]
                BY <1>2, <3>5 DEF Walked
            <4>2. RedirectRecorded(from)'
                BY <3>2, <3>5, <4>1 DEF RedirectRecorded
            <4>3. QED  BY <1>3, <3>3, <3>5, <4>1, <4>2 DEF Walked
        <3>6. QED  BY <1>2, <3>4, <3>5 DEF Sources
    <2>3. QED  BY <2>1, <2>2
<1>9. QED  BY <1>1, <1>5, <1>6, <1>7, <1>8, WalkStep

LEMMA WalkOutcome ==
    ASSUME TypeOK, WalkInv, NEW w \in Workers, NEW r \in Reply,
           Mark(w, r) \/ AddBytes(w, r) \/ Remark(w, r)
    PROVE  WalkInv'
<1> PICK u \in Urls : u = task[w].url
    BY DEF Mark, AddBytes, Remark, TypeOK, Holding
<1>1. OthersRest(w)
    BY WorkerAlone DEF WorkerStep
<1>2. /\ pc[w] \in {"mark", "bytes", "remark"} /\ Walked(w)
      /\ urls \in [Urls -> Row] /\ edges' = edges /\ todo[w] = {}
    BY DEF Mark, AddBytes, Remark, TypeOK, FrontierTypeOK, Holding, durable, WalkInv, Walked
<1>3. Walked(w)'
    <2>1. CASE Catch(w) /\ UNCHANGED task
        BY <2>1, CatchWalked
    <2>2. CASE UNCHANGED <<pc, task, out, todo>>
        BY <1>2, <2>2 DEF Walked, LinksRecorded, RedirectRecorded, Recorded
    <2>3. CASE todo' = todo /\ pc'[w] \in {"top", "crashed", "bytes"}
        BY <1>2, <2>3 DEF Walked
    <2>4. QED
        BY <2>1, <2>2, <2>3 DEF Mark, AddBytes, Remark, Release, Goto, TypeOK
<1>4. \/ urls' = urls
      \/ pc[w] \in {"mark", "remark"} /\ urls' = MarkOutcome(u, out[w])
    BY DEF Mark, AddBytes, Remark, After, durable
<1>5. CASE urls' = urls
    BY <1>1, <1>2, <1>3, <1>5, UntouchedGrows, WalkStep DEF Untouched
<1>6. CASE pc[w] \in {"mark", "remark"} /\ urls' = MarkOutcome(u, out[w])
    <2>1. out[w] \in Outcomes
        BY <1>6 DEF TypeOK
    <2>2. /\ urls'[u].status # "absent"
          /\ urls'[u].status \in Settled => urls'[u].status = out[w]
          /\ \A v \in Urls \ {u} : urls'[v].status = urls[v].status
        BY <1>2, <1>6, <2>1, MarkWritten, MarkStatus
    <2>3. Grows
        BY <1>2, <2>2 DEF Grows, Present, Recorded
    <2>4. urls'[u].status \in {"done", "redirected"} => RowWalked(u)'
        <3>1. urls'[u].status = "done" => LinksRecorded(u)'
            BY <1>2, <1>6, <2>2 DEF Walked, Settled, LinksRecorded, Recorded
        <3>2. urls'[u].status = "redirected" => RedirectRecorded(u)'
            BY <1>2, <1>6, <2>2 DEF Walked, Settled, RedirectRecorded, Recorded
        <3>3. QED  BY <3>1, <3>2 DEF RowWalked
    <2>5. NewlyWalked
        BY <2>2, <2>4 DEF NewlyWalked
    <2>6. EdgesJustified'
        BY <1>2, <2>3 DEF WalkInv, EdgesJustified, Justified, Grows
    <2>7. QED  BY <1>1, <1>3, <2>3, <2>5, <2>6, WalkStep
<1>7. QED  BY <1>4, <1>5, <1>6

LEMMA WalkWorker ==
    ASSUME TypeOK, WalkInv, NEW w \in Workers, WorkerStep(w)
    PROVE  WalkInv'
BY WalkHead, WalkCommitClaim, WalkFetch, WalkDiscovery, WalkRecord, WalkOutcome
   DEF WorkerStep

-----------------------------------------------------------------------------
(* Discovery: the steps of the process around its workers.                 *)

\* Outside a live session no worker is at work, whatever answers are lost.
LEMMA RestingStep ==
    ASSUME TypeOK, Resting, [Next]_vars
    PROVE  Resting'
<1>1. ASSUME NEW w \in Workers, WorkerStep(w) PROVE Resting'
    BY <1>1, WorkerFrame DEF Resting
<1>2. CASE CreateRun \/ Shutdown \/ Expire \/ TimePasses \/ Ended \/ UNCHANGED vars
    BY <1>2 DEF CreateRun, Shutdown, Expire, TimePasses, Ended, vars, worker, run, Resting
<1>3. ASSUME NEW r \in Reply, EnqueueSeed(r) \/ Recover(r) PROVE Resting'
    BY <1>3 DEF EnqueueSeed, Recover, StartPool, worker, Resting
<1>4. ASSUME NEW r \in Reply, Finalize(r) \/ FinishRun(r) \/ Fallback(r) PROVE Resting'
    BY <1>4 DEF Finalize, FinishRun, Fallback, WorkersDone, worker, Resting
<1>5. CASE Crash \/ \E m \in NewMaxUrls \cup {maxUrls} : Resume(m)
    BY <1>5 DEF Crash, Resume, Forget, Resting
<1>6. QED  BY <1>1, <1>2, <1>3, <1>4, <1>5 DEF Next, PoolStep

\* A step after which every worker has nothing to walk, or stands where it stood.
LEMMA WalkStill ==
    ASSUME TypeOK, WalkInv, Grows, NewlyWalked, EdgesJustified',
           \A w \in Workers :
               \/ UNCHANGED <<pc[w], task[w], out[w], todo[w], cand[w]>>
               \/ pc'[w] \in {"top", "idle"} /\ todo'[w] = {}
    PROVE  WalkInv'
<1>1. \A v \in Workers : pc[v] \in Holding => task[v].url \in Urls
    BY DEF TypeOK
<1>2. ASSUME NEW w \in Workers PROVE Walked(w)'
    <2>1. CASE UNCHANGED <<pc[w], task[w], out[w], todo[w], cand[w]>>
        BY <1>1, <2>1, WalkedGrows
    <2>2. CASE pc'[w] \in {"top", "idle"} /\ todo'[w] = {}
        BY <2>2 DEF Walked
    <2>3. QED  BY <2>1, <2>2
<1>3. ASSUME NEW u \in Urls PROVE RowWalked(u)'
    <2>1. RowWalked(u) /\ Links[u] \subseteq Urls /\ Location[u] \in Urls
        BY PoolAssumption DEF WalkInv
    <2>2. LinksRecorded(u) => LinksRecorded(u)'
        BY <2>1 DEF Grows, LinksRecorded, Sources
    <2>3. RedirectRecorded(u) => RedirectRecorded(u)'
        BY <2>1 DEF Grows, RedirectRecorded, Sources
    <2>4. QED  BY <2>1, <2>2, <2>3 DEF NewlyWalked, RowWalked
<1>4. QED  BY <1>2, <1>3 DEF WalkInv

LEMMA WalkProcess ==
    ASSUME TypeOK, Resting, WalkInv,
           \/ PoolStep \/ Shutdown \/ Expire \/ Crash \/ TimePasses
           \/ \E m \in NewMaxUrls \cup {maxUrls} : Resume(m)
    PROVE  WalkInv'
<1>1. urls \in [Urls -> Row]
    BY DEF TypeOK, FrontierTypeOK
<1>2. edges' = edges
    BY DEF PoolStep, CreateRun, EnqueueSeed, Finalize, FinishRun, Fallback, Recover, Shutdown,
       Expire, Crash, TimePasses, ComeDue, Resume, durable
<1>3. Grows /\ NewlyWalked /\ EdgesJustified'
    <2>1. CASE \A u \in Urls : Untouched(u)
        BY <1>2, <2>1, UntouchedGrows
    <2>2. ASSUME NEW r \in Reply, EnqueueSeed(r) PROVE \A u \in Urls : Untouched(u)
        <3>1. EnqueueUrl(Seed, 0, 0) \/ UNCHANGED <<urls, enqueued>>
            BY <2>2 DEF EnqueueSeed
        <3>2. QED  BY <1>1, <3>1, EnqueueStatus, PoolAssumption
    <2>3. ASSUME NEW r \in Reply, Recover(r)
          PROVE  Grows /\ NewlyWalked /\ EdgesJustified'
        <3>1. \A u \in Urls : \/ urls'[u].status = urls[u].status
                              \/ /\ urls[u].status = "in_progress"
                                 /\ urls'[u].status = "queued"
            BY <1>1, <2>3 DEF Recover, After, RecoverAllInProgress, Row
        <3>2. Grows /\ NewlyWalked
            BY <1>2, <3>1 DEF Grows, NewlyWalked, Present, Recorded
        <3>3. QED  BY <1>2, <3>2 DEF WalkInv, EdgesJustified, Justified, Grows
    <2>4. CASE TimePasses
        <3>1. \A u \in Urls : urls'[u].status = urls[u].status
            BY <1>1, <2>4 DEF TimePasses, ComeDue, Row
        <3>2. QED  BY <2>1, <3>1 DEF Untouched
    <2>5. CASE UNCHANGED urls
        BY <2>1, <2>5 DEF Untouched
    <2>6. QED
        BY <2>1, <2>2, <2>3, <2>4, <2>5 DEF PoolStep, CreateRun, Finalize, FinishRun,
           Fallback, Shutdown, Expire, Crash, Resume, durable
<1>4. ASSUME NEW w \in Workers
      PROVE  \/ UNCHANGED <<pc[w], task[w], out[w], todo[w], cand[w]>>
             \/ pc'[w] \in {"top", "idle"} /\ todo'[w] = {}
    <2>1. CASE Crash \/ \E m \in NewMaxUrls \cup {maxUrls} : Resume(m)
        BY <2>1 DEF Crash, Resume, Forget
    <2>2. CASE StartPool /\ phase # "live"
        <3>1. todo[w] = {}
            BY <2>2 DEF Resting, WalkInv, Walked
        <3>2. QED  BY <2>2, <3>1 DEF StartPool
    <2>3. ASSUME NEW r \in Reply, EnqueueSeed(r) \/ Recover(r)
          PROVE  UNCHANGED worker \/ (StartPool /\ phase # "live")
        BY <2>3 DEF EnqueueSeed, Recover
    <2>4. CASE UNCHANGED worker
        BY <2>4 DEF worker
    <2>5. QED
        BY <2>1, <2>2, <2>3, <2>4 DEF PoolStep, CreateRun, Finalize, FinishRun, Fallback,
           Shutdown, Expire, TimePasses
<1>5. QED  BY <1>3, <1>4, WalkStill

\* The walk, as an invariant of the specification.
DiscoveryInv == TypeOK /\ Resting /\ WalkInv

LEMMA DiscoveryInit == Init => DiscoveryInv
<1> SUFFICES ASSUME Init PROVE DiscoveryInv
    OBVIOUS
<1>1. TypeOK
    BY TypeInit
<1>2. Resting
    BY DEF Init, Resting
<1>3. \A w \in Workers : Walked(w)
    BY DEF Init, Walked
<1>4. \A u \in Urls : RowWalked(u)
    BY DEF Init, FrontierInit, AbsentRow, RowWalked
<1>5. EdgesJustified
    BY DEF Init, FrontierInit, EdgeKey, EdgesJustified, Justified
<1>6. QED  BY <1>1, <1>2, <1>3, <1>4, <1>5 DEF DiscoveryInv, WalkInv

LEMMA DiscoveryStep == DiscoveryInv /\ [Next]_vars => DiscoveryInv'
<1> SUFFICES ASSUME DiscoveryInv, [Next]_vars PROVE DiscoveryInv'
    OBVIOUS
<1>1. TypeOK /\ Resting /\ WalkInv
    BY DEF DiscoveryInv
<1>2. TypeOK' /\ Resting'
    BY <1>1, TypeStep, RestingStep
<1>3. CASE Ended \/ UNCHANGED vars
    <2>1. /\ UNCHANGED <<urls, edges>>
          /\ \A w \in Workers : UNCHANGED <<pc[w], task[w], out[w], todo[w], cand[w]>>
        BY <1>3 DEF Ended, vars, durable, worker
    <2>2. Grows /\ NewlyWalked /\ EdgesJustified'
        BY <1>1, <2>1, UntouchedGrows DEF Untouched
    <2>3. WalkInv'
        BY <1>1, <2>1, <2>2, WalkStill
    <2>4. QED  BY <1>2, <2>3 DEF DiscoveryInv
<1>4. QED
    BY <1>1, <1>2, <1>3, WalkWorker, WalkProcess DEF Next, DiscoveryInv

LEMMA DiscoveryInvariant == Spec => []DiscoveryInv
BY DiscoveryInit, DiscoveryStep, PTL DEF Spec

\* A page that is done has the edge of each of its links, a redirected one that
\* of its target, and an edge without a reason leads to an admitted row: no link
\* is lost, whatever fails, dies, resumes or answers too late.
THEOREM DiscoveryTheorem == Spec => []DiscoveryComplete
<1>1. DiscoveryInv => DiscoveryComplete
    <2> SUFFICES ASSUME DiscoveryInv PROVE DiscoveryComplete
        OBVIOUS
    <2>1. /\ EdgesJustified /\ \A u \in Urls : RowWalked(u)
          /\ "link" \in Sources /\ "redirect" \in Sources
          /\ \A u \in Urls : Links[u] \subseteq Urls /\ Location[u] \in Urls
        BY PoolAssumption DEF DiscoveryInv, WalkInv, Sources
    <2>2. ASSUME NEW from \in Urls, NEW to \in Urls, NEW source \in Sources,
                 Recorded(from, to, source)
          PROVE  EdgeSound(from, to, source)
        BY <2>1, <2>2 DEF EdgesJustified, Justified, Recorded, EdgeSound
    <2>3. QED
        BY <2>1, <2>2 DEF DiscoveryComplete, RowWalked, LinksRecorded, RedirectRecorded,
           WithStatus
<1>2. QED  BY <1>1, DiscoveryInvariant, PTL

-----------------------------------------------------------------------------
(* Retries: somebody stays to wait for a retry whose time is to come.      *)

InFuture(u) == urls[u].status = "retryable_failed" /\ urls[u].next = "future"

\* A worker that has not left, and will not on what it has counted so far.
Waits(w) == pc[w] # "exited" /\ (pc[w] = "countQueued" => busy[w])

Awaited ==
    phase = "live" /\ ~shutdown /\ ~limit =>
        \A u \in Urls : InFuture(u) => \E w \in Workers : Waits(w)

\* A worker keeps waiting, if it waits for something, until a flag is up.
LEMMA WaitsOn ==
    ASSUME TypeOK, Awaited, NEW w \in Workers, NEW u \in Urls, OthersRest(w),
           \A v \in Workers \ {w} : busy'[v] = busy[v],
           phase = "live", ~shutdown, ~limit, ~limit',
           InFuture(u)',
           (InFuture(u) => Waits(w)) => Waits(w)'
    PROVE  \E v \in Workers : Waits(v)'
<1>1. CASE ~InFuture(u)
    BY <1>1
<1>2. CASE InFuture(u)
    <2>1. PICK v \in Workers : Waits(v)
        BY <1>2 DEF Awaited
    <2>2. CASE v = w
        BY <1>2, <2>1, <2>2
    <2>3. CASE v # w
        BY <2>1, <2>3 DEF OthersRest, Waits
    <2>4. QED  BY <2>2, <2>3
<1>3. QED  BY <1>1, <1>2

\* A count of rows in the future that meets one is positive.
LEMMA FutureCounted ==
    ASSUME NEW u \in Urls, InFuture(u)
    PROVE  CountFutureRetryable > 0
<1> DEFINE rows == {x \in WithStatus("retryable_failed") : urls[x].next = "future"}
<1>1. u \in rows /\ IsFiniteSet(rows)
    BY UrlsAssumption, FS_Subset DEF InFuture, WithStatus
<1>2. Cardinality(rows) \in Nat /\ Cardinality(rows) # 0
    BY <1>1, FS_CardinalityType, FS_EmptySet
<1>3. QED  BY <1>2 DEF CountFutureRetryable

\* Only an outcome puts a row into the future.
LEMMA FutureOnlyMarked ==
    ASSUME TypeOK, NEW w \in Workers, WorkerStep(w), NEW u \in Urls,
           InFuture(u)', ~InFuture(u)
    PROVE  \E r \in Reply : Mark(w, r) \/ Remark(w, r)
<1>1. urls \in [Urls -> Row] /\ urls' # urls
    BY DEF TypeOK, FrontierTypeOK, InFuture
<1>2. ASSUME NEW v \in Urls, NEW d \in Nat, NEW n \in Nat, EnqueueUrl(v, d, n)
      PROVE  FALSE
    <2>1. urls'[u] \in {urls[u], NewRow(d, n)}
        BY <1>1, <1>2 DEF EnqueueUrl
    <2>2. QED  BY <2>1 DEF InFuture, NewRow
<1>3. /\ pc[w] \in Holding => task[w].redirects + 1 \in Nat /\ 0 \in Nat
      /\ pc[w] \in Holding =>
             /\ urls[task[w].url].depth \in Nat /\ LinkDepth(w) \in Nat
             /\ Location[task[w].url] \in Urls /\ todo[w] \subseteq Urls
    BY PoolAssumption DEF TypeOK, FrontierTypeOK, Row, CrawlUrlTask, LinkDepth
<1>4. ASSUME ResolveLink(w) \/ ResolveRedirect(w) PROVE FALSE
    BY <1>1, <1>2, <1>3, <1>4 DEF ResolveLink, ResolveRedirect, Resolve, Holding
<1>5. ASSUME NEW r \in Reply, ResolveLinkThrows(w, r) \/ ResolveRedirectThrows(w, r)
      PROVE  FALSE
    BY <1>1, <1>2, <1>3, <1>5 DEF ResolveLinkThrows, ResolveRedirectThrows, ResolveThrows,
       Holding
<1>6. ASSUME NEW r \in Reply, CommitClaim(w, r) PROVE FALSE
    <2>1. task[w].url \in Urls /\ urls' = ClaimUrl(task[w].url)
        BY <1>1, <1>6 DEF CommitClaim, After, TypeOK
    <2>2. urls'[u].status \in {"in_progress", urls[u].status} /\ urls'[u].next = urls[u].next
        BY <1>1, <2>1 DEF ClaimUrl, Row
    <2>3. QED  BY <2>2 DEF InFuture
<1>7. QED
    BY <1>1, <1>4, <1>5, <1>6 DEF WorkerStep, Stop, Proceed, LockRow, FindNone, ClaimFails,
       Counted, DoCountInProgress, DoCountFutureRetryable, DoCountQueued, FetchDirect,
       FetchPage, FetchRedirect, FetchThrows, RecordCandidate, AddBytes, durable

LEMMA AwaitedWorker ==
    ASSUME TypeOK, Resting, Awaited, NEW w \in Workers, WorkerStep(w)
    PROVE  Awaited'
<1>1. /\ phase = "live" /\ UNCHANGED <<phase, shutdown>>
      /\ limit => limit'
      /\ OthersRest(w)
    BY WorkerFrame, WorkerAlone
<1>2. \A v \in Workers \ {w} : busy'[v] = busy[v]
    BY DEF WorkerStep, Stop, Proceed, LockRow, FindNone, ClaimFails, CommitClaim, Counted,
       DoCountInProgress, DoCountFutureRetryable, DoCountQueued, FetchDirect, FetchPage,
       FetchRedirect, FetchThrows, ResolveLink, ResolveRedirect, ResolveLinkThrows,
       ResolveRedirectThrows, RecordCandidate, Mark, AddBytes, Remark, Resolve,
       ResolveThrows, TypeOK
<1>3. ASSUME ~shutdown, ~limit, ~limit', NEW u \in Urls, InFuture(u)'
      PROVE  (InFuture(u) => Waits(w)) => Waits(w)'
    <2>1. CASE ~InFuture(u)
        <3>1. PICK r \in Reply : Mark(w, r) \/ Remark(w, r)
            BY <1>3, <2>1, FutureOnlyMarked
        <3>2. pc'[w] \in {"mark", "remark", "bytes", "top", "crashed"}
            BY <3>1 DEF Mark, Remark, Catch, Release, Goto, TypeOK
        <3>3. QED  BY <3>2 DEF Waits
    <2>2. CASE InFuture(u) /\ Waits(w)
        <3>1. CASE Stop(w)
            BY <1>3, <3>1 DEF Stop
        <3>2. CASE DoCountFutureRetryable(w)
            <4>1. CountFutureRetryable > 0
                BY <2>2, FutureCounted
            <4>2. QED
                BY <3>2, <4>1 DEF DoCountFutureRetryable, Counted, PassInfra, RetryInfra,
                   Goto, Waits, TypeOK
        <3>3. CASE DoCountQueued(w)
            <4>1. busy[w] = TRUE
                BY <2>2, <3>3 DEF DoCountQueued, Counted, Waits, TypeOK
            <4>2. \/ pc'[w] \in {"top", "crashed"}
                  \/ pc'[w] = "countQueued" /\ busy' = busy
                BY <3>3, <4>1 DEF DoCountQueued, Counted, PassInfra, RetryInfra, Goto, TypeOK
            <4>3. QED  BY <4>1, <4>2 DEF Waits
        <3>4. CASE ~Stop(w) /\ ~DoCountFutureRetryable(w) /\ ~DoCountQueued(w)
            <4>1. pc'[w] \notin {"exited", "countQueued"}
                BY <3>4 DEF WorkerStep, Proceed, LockRow, FindNone, ClaimFails, CommitClaim,
                   Counted, DoCountInProgress, FetchDirect, FetchPage, FetchRedirect,
                   FetchThrows, ResolveLink, ResolveRedirect, ResolveLinkThrows,
                   ResolveRedirectThrows, RecordCandidate, Mark, AddBytes, Remark, Resolve,
                   ResolveThrows, Catch, Release, PassInfra, RetryInfra, Goto, TypeOK
            <4>2. QED  BY <4>1 DEF Waits
        <3>5. QED  BY <3>1, <3>2, <3>3, <3>4
    <2>3. QED  BY <2>1, <2>2
<1>4. ASSUME ~shutdown, ~limit, ~limit', NEW u \in Urls, InFuture(u)'
      PROVE  \E v \in Workers : Waits(v)'
    BY <1>1, <1>2, <1>3, <1>4, WaitsOn
<1>5. QED  BY <1>1, <1>4 DEF Awaited

LEMMA AwaitedProcess ==
    ASSUME TypeOK, Awaited,
           \/ PoolStep \/ Shutdown \/ Expire \/ Crash \/ TimePasses \/ Ended
           \/ UNCHANGED vars
           \/ \E m \in NewMaxUrls \cup {maxUrls} : Resume(m)
    PROVE  Awaited'
<1>1. CASE StartPool
    <2>1. PICK w \in Workers : TRUE
        BY PoolAssumption
    <2>2. Waits(w)'
        BY <1>1 DEF StartPool, Waits
    <2>3. QED  BY <2>2 DEF Awaited
<1>2. CASE phase' # "live"
    BY <1>2 DEF Awaited
<1>3. CASE Shutdown \/ Expire \/ Ended \/ UNCHANGED vars
    <2>1. UNCHANGED <<urls, pc, busy, phase, limit>> /\ shutdown' \in {shutdown, TRUE}
        BY <1>3 DEF Shutdown, Expire, Ended, vars, durable, worker, control, run
    <2>2. QED  BY <2>1 DEF Awaited, InFuture, Waits
<1>4. CASE TimePasses
    <2>1. UNCHANGED <<pc, busy, phase, limit, shutdown>>
        BY <1>4 DEF TimePasses, worker, control, run
    <2>2. \A u \in Urls : InFuture(u)' => InFuture(u)
        BY <1>4 DEF TimePasses, ComeDue, InFuture, TypeOK, FrontierTypeOK, Row
    <2>3. QED  BY <2>1, <2>2 DEF Awaited, Waits
<1>5. QED
    BY <1>1, <1>2, <1>3, <1>4 DEF PoolStep, CreateRun, EnqueueSeed, Finalize, FinishRun,
       Fallback, Recover, Crash, Resume, worker, run

\* The workers never all leave of their own accord while a retry is still in the
\* future, although each decides on three counts taken at different times: the
\* one that put it there counts it, or sees it claimed or due, before it leaves.
THEOREM RetryTheorem == Spec => []RetryAwaited
<1> DEFINE Inv == TypeOK /\ Resting /\ Awaited
<1>1. Init => Inv
    BY TypeInit DEF Init, Resting, Awaited
<1>2. Inv /\ [Next]_vars => Inv'
    <2> SUFFICES ASSUME Inv, [Next]_vars PROVE Inv'
        OBVIOUS
    <2>1. TypeOK' /\ Resting'
        BY TypeStep, RestingStep
    <2>2. Awaited'
        BY AwaitedWorker, AwaitedProcess DEF Next
    <2>3. QED  BY <2>1, <2>2
<1>3. Inv => RetryAwaited
    <2> SUFFICES ASSUME Inv, phase = "live", ~shutdown, ~limit,
                        \A w \in Workers : pc[w] = "exited",
                        NEW u \in WithStatus("retryable_failed")
                 PROVE  urls[u].next = "due"
        BY DEF RetryAwaited
    <2>1. ~InFuture(u)
        BY DEF Awaited, Waits, WithStatus
    <2>2. QED  BY <2>1 DEF InFuture, WithStatus, TypeOK, FrontierTypeOK, Row
<1>4. QED  BY <1>1, <1>2, <1>3, PTL DEF Spec

-----------------------------------------------------------------------------
(* Drops: a link that finds the frontier full raises a flag that outlives   *)
(* every worker, and the verdict of the session knows it.                  *)

DroppedEdge == \E e \in EdgeKey : edges[e] = "limit"
Dropped ==
    DroppedEdge \/ \E w \in Workers : pc[w] = "edge" /\ cand[w].skip = "limit"

\* Which session it is.
SessionCount ==
    /\ phase = "none" => sessions = 0
    /\ phase # "none" => sessions >= 1
    /\ phase = "recovering" => sessions >= 2

DropsFlagged ==
    /\ phase \in {"none", "seeding"} => ~DroppedEdge
    /\ sessions = 1 /\ Dropped => limit
    /\ sessions = 1 /\ Dropped /\ phase = "finalizing" => verdict \notin Completed
    /\ sessions = 1 /\ phase \in {"seeding", "live", "finalizing"} =>
           runStatus \notin Completed
    /\ DropsReported

DropInv == SessionCount /\ DropsFlagged

\* A worker that drops a link raises the flag, and only then records the edge.
LEMMA DropRaises ==
    ASSUME TypeOK, NEW w \in Workers, WorkerStep(w)
    PROVE  Dropped' => Dropped \/ limit'
<1>1. OthersRest(w)
    BY WorkerAlone
<1>2. CASE ResolveLink(w) \/ ResolveRedirect(w)
    <2>1. PICK to, source, d, n : Resolve(w, to, source, d, n)
        BY <1>2 DEF ResolveLink, ResolveRedirect
    <2>2. PICK skip \in SkipReasons(to, d) :
              /\ limit' = (limit \/ skip = "limit")
              /\ cand' = [cand EXCEPT ![w] = [to |-> to, source |-> source, skip |-> skip]]
              /\ edges' = edges
        BY <2>1 DEF Resolve
    <2>3. cand'[w].skip = skip
        BY <2>2 DEF TypeOK
    <2>4. QED  BY <1>1, <2>2, <2>3 DEF Dropped, DroppedEdge, OthersRest
<1>3. ASSUME NEW r \in Reply, RecordCandidate(w, r) PROVE Dropped' => Dropped
    <2>1. pc'[w] # "edge"
        BY <1>3 DEF RecordCandidate, Catch, Goto, TypeOK
    <2>2. pc[w] = "edge" /\ edges' \in {edges, RecordEdge(task[w].url, cand[w].to,
                                                 cand[w].source, cand[w].skip)}
        BY <1>3 DEF RecordCandidate, After
    <2>3. DroppedEdge' => DroppedEdge \/ cand[w].skip = "limit"
        BY <2>2 DEF DroppedEdge, RecordEdge, TypeOK, FrontierTypeOK
    <2>4. QED  BY <1>1, <2>1, <2>2, <2>3 DEF Dropped, OthersRest
<1>4. CASE /\ ~ResolveLink(w) /\ ~ResolveRedirect(w)
           /\ \A r \in Reply : ~RecordCandidate(w, r)
    <2>1. edges' = edges
        BY <1>4 DEF WorkerStep, Stop, Proceed, LockRow, FindNone, ClaimFails, CommitClaim,
           Counted, DoCountInProgress, DoCountFutureRetryable, DoCountQueued, FetchDirect,
           FetchPage, FetchRedirect, FetchThrows, ResolveLinkThrows,
           ResolveRedirectThrows, Mark, AddBytes, Remark, ResolveThrows, durable
    <2>2. pc'[w] # "edge"
        BY <1>4 DEF WorkerStep, Stop, Proceed, LockRow, FindNone, ClaimFails, CommitClaim,
           Counted, DoCountInProgress, DoCountFutureRetryable, DoCountQueued, FetchDirect,
           FetchPage, FetchRedirect, FetchThrows, ResolveLinkThrows,
           ResolveRedirectThrows, Mark, AddBytes, Remark, ResolveThrows, Catch, Release,
           PassInfra, RetryInfra, Goto, TypeOK
    <2>3. QED  BY <1>1, <2>1, <2>2 DEF Dropped, DroppedEdge, OthersRest
<1>5. QED  BY <1>2, <1>3, <1>4

LEMMA DropWorker ==
    ASSUME TypeOK, Resting, DropInv, NEW w \in Workers, WorkerStep(w)
    PROVE  DropInv'
<1>1. /\ phase = "live" /\ UNCHANGED <<phase, verdict, runStatus>>
      /\ limit => limit'
    BY WorkerFrame
<1>2. sessions' = sessions
    BY DEF WorkerStep, Stop, Proceed, LockRow, FindNone, ClaimFails, CommitClaim,
       Counted, DoCountInProgress, DoCountFutureRetryable, DoCountQueued, FetchDirect,
       FetchPage, FetchRedirect, FetchThrows, ResolveLink, ResolveRedirect,
       ResolveLinkThrows, ResolveRedirectThrows, RecordCandidate, Mark, AddBytes, Remark,
       Resolve, ResolveThrows, run
<1>3. Dropped' => Dropped \/ limit'
    BY DropRaises
<1>4. QED
    BY <1>1, <1>2, <1>3 DEF DropInv, SessionCount, DropsFlagged, DropsReported

LEMMA DropProcess ==
    ASSUME TypeOK, Resting, DropInv,
           \/ PoolStep \/ Shutdown \/ Expire \/ Crash \/ TimePasses \/ Ended
           \/ UNCHANGED vars
           \/ \E m \in NewMaxUrls \cup {maxUrls} : Resume(m)
    PROVE  DropInv'
<1>1. edges' = edges /\ (DroppedEdge' <=> DroppedEdge) /\ sessions \in Nat
    BY DEF PoolStep, CreateRun, EnqueueSeed, Finalize, FinishRun, Fallback, Recover, Shutdown,
       Expire, Crash, TimePasses, ComeDue, Resume, Ended, vars, durable, DroppedEdge, TypeOK
<1>2. CASE CreateRun
    <2>1. /\ phase = "none" /\ phase' = "seeding" /\ runStatus' = "running"
          /\ sessions' = 1 /\ pc' = pc
        BY <1>2 DEF CreateRun, worker
    <2>2. ~Dropped'
        BY <1>1, <2>1 DEF DropInv, DropsFlagged, Resting, Dropped
    <2>3. QED
        BY <1>1, <2>1, <2>2 DEF DropInv, SessionCount, DropsFlagged, DropsReported, Completed,
           Dropped
<1>3. ASSUME NEW r \in Reply, EnqueueSeed(r) PROVE DropInv'
    <2>1. /\ phase = "seeding" /\ UNCHANGED <<verdict, runStatus, sessions>>
          /\ \/ phase' = "live" /\ \A w \in Workers : pc'[w] = "top"
             \/ phase' = "down" /\ UNCHANGED pc
        BY <1>3 DEF EnqueueSeed, StartPool, worker
    <2>2. ~Dropped'
        BY <1>1, <2>1 DEF DropInv, DropsFlagged, Resting, Dropped
    <2>3. QED
        BY <1>1, <2>1, <2>2 DEF DropInv, SessionCount, DropsFlagged, DropsReported, Dropped
<1>4. ASSUME NEW r \in Reply, Recover(r) PROVE DropInv'
    <2>1. phase = "recovering" /\ sessions' = sessions /\ phase' \in {"live", "down"}
        BY <1>4 DEF Recover, StartPool
    <2>2. QED
        BY <1>1, <2>1 DEF DropInv, SessionCount, DropsFlagged, DropsReported
<1>5. ASSUME NEW r \in Reply, Finalize(r) PROVE DropInv'
    <2>1. /\ phase = "live" /\ UNCHANGED <<pc, cand, limit, runStatus, sessions>>
          /\ \/ phase' = "finalizing" /\ verdict' = Verdict
             \/ phase' = "fallback"
        BY <1>5 DEF Finalize, worker, control
    <2>2. limit => Verdict \notin Completed
        BY DEF Verdict, Completed
    <2>3. Dropped' <=> Dropped
        BY <1>1, <2>1 DEF Dropped
    <2>4. QED
        BY <1>1, <2>1, <2>2, <2>3 DEF DropInv, SessionCount, DropsFlagged, DropsReported
<1>6. ASSUME NEW r \in Reply, FinishRun(r) \/ Fallback(r) PROVE DropInv'
    <2>1. /\ phase \in {"finalizing", "fallback"} /\ phase' \in {"fallback", "down"}
          /\ UNCHANGED <<pc, cand, limit, sessions>>
          /\ \/ runStatus' \in {runStatus, "failed"}
             \/ phase = "finalizing" /\ runStatus' = verdict
        BY <1>6 DEF FinishRun, Fallback, After, worker, control
    <2>2. Dropped' <=> Dropped
        BY <1>1, <2>1 DEF Dropped
    <2>3. DropsReported'
        BY <1>1, <2>1, <2>2 DEF DropInv, DropsFlagged, DropsReported, Dropped, DroppedEdge,
           Completed
    <2>4. QED
        BY <1>1, <2>1, <2>2, <2>3 DEF DropInv, SessionCount, DropsFlagged
<1>7. CASE Shutdown \/ Expire \/ TimePasses \/ Ended \/ UNCHANGED vars
    <2>1. UNCHANGED <<pc, cand, limit, phase, verdict, runStatus, sessions>>
        BY <1>7 DEF Shutdown, Expire, TimePasses, Ended, vars, worker, control, run
    <2>2. Dropped' <=> Dropped
        BY <1>1, <2>1 DEF Dropped
    <2>3. QED
        BY <1>1, <2>1, <2>2 DEF DropInv, SessionCount, DropsFlagged, DropsReported
<1>8. CASE Crash
    <2>1. /\ phase # "none" /\ phase' = "down" /\ \A w \in Workers : pc'[w] = "idle"
          /\ UNCHANGED <<limit, runStatus, sessions>>
        BY <1>8 DEF Crash, Forget, control
    <2>2. Dropped' => Dropped
        BY <1>1, <2>1 DEF Dropped
    <2>3. QED
        BY <1>1, <2>1, <2>2 DEF DropInv, SessionCount, DropsFlagged, DropsReported
<1>9. ASSUME NEW m \in NewMaxUrls \cup {maxUrls}, Resume(m) PROVE DropInv'
    <2>1. phase = "down" /\ phase' = "recovering" /\ sessions' = sessions + 1
        BY <1>9 DEF Resume
    <2>2. QED
        BY <1>1, <2>1 DEF DropInv, SessionCount, DropsFlagged, DropsReported
<1>10. QED
    BY <1>2, <1>3, <1>4, <1>5, <1>6, <1>7, <1>8, <1>9 DEF PoolStep

\* The first session of a run is never reported complete if it dropped a link,
\* whichever worker dropped it, and whatever fails after that.
THEOREM DropTheorem == Spec => []DropsReported
<1> DEFINE Inv == TypeOK /\ Resting /\ DropInv
<1>1. Init => Inv
    BY TypeInit DEF Init, FrontierInit, Resting, DropInv, SessionCount, DropsFlagged,
       DropsReported, DroppedEdge, Completed
<1>2. Inv /\ [Next]_vars => Inv'
    <2> SUFFICES ASSUME Inv, [Next]_vars PROVE Inv'
        OBVIOUS
    <2>1. TypeOK' /\ Resting'
        BY TypeStep, RestingStep
    <2>2. DropInv'
        BY DropWorker, DropProcess DEF Next
    <2>3. QED  BY <2>1, <2>2
<1>3. Inv => DropsReported
    BY DEF DropInv, DropsFlagged
<1>4. QED  BY <1>1, <1>2, <1>3, PTL DEF Spec

=============================================================================
