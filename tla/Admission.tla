------------------------------ MODULE Admission ------------------------------
(***************************************************************************)
(* FrontierRepository.enqueueUrl statement by statement, under PostgreSQL's *)
(* READ COMMITTED isolation, for callers that run it concurrently:         *)
(*                                                                         *)
(*   INSERT ... SELECT ... WHERE EXISTS (urls_enqueued < max_urls)         *)
(*     ON CONFLICT DO NOTHING                                              *)
(*   UPDATE crawl_runs SET urls_enqueued = urls_enqueued + 1               *)
(*   COMMIT                                                                *)
(*                                                                         *)
(* or, if the INSERT inserted nothing, SELECT id FROM crawl_urls.          *)
(*                                                                         *)
(* The gate reads the counter that is committed when the INSERT starts and *)
(* takes no lock.  The unique index makes an insertion wait for a          *)
(* transaction that has inserted the same URL and has not ended.  The      *)
(* UPDATE takes the lock of the run's row until the transaction ends.      *)
(***************************************************************************)
EXTENDS Integers, FiniteSets

CONSTANTS
    Callers,    \* the workers, each in at most one call
    Urls,
    NoUrl,
    MaxUrls     \* crawl_runs.max_urls

ASSUME AdmissionAssumption ==
    /\ IsFiniteSet(Callers) /\ Callers # {}
    /\ IsFiniteSet(Urls) /\ NoUrl \notin Urls
    /\ MaxUrls \in Nat \ {0}

VARIABLES
    rows,       \* committed rows of crawl_urls
    counter,    \* committed crawl_runs.urls_enqueued
    pc,         \* the statement each caller is at
    arg,        \* the URL it enqueues, or NoUrl
    answer      \* the answer to its last call

vars == <<rows, counter, pc, arg, answer>>

PC == {"idle", "gate", "insert", "bump", "commit", "lookup"}
Answer == {"none", "inserted", "existing", "limit", "error"}

TypeOK ==
    /\ rows \subseteq Urls
    /\ counter \in Nat
    /\ pc \in [Callers -> PC]
    /\ arg \in [Callers -> Urls \cup {NoUrl}]
    /\ \A c \in Callers : pc[c] = "idle" <=> arg[c] = NoUrl
    /\ answer \in [Callers -> Answer]

Init ==
    /\ rows = {}
    /\ counter = 0
    /\ pc = [c \in Callers |-> "idle"]
    /\ arg = [c \in Callers |-> NoUrl]
    /\ answer = [c \in Callers |-> "none"]

\* The callers whose transaction holds an uncommitted row, and the one whose
\* transaction holds the lock of the run's row.
Inserted == {c \in Callers : pc[c] \in {"bump", "commit"}}
RunLocked == \E c \in Callers : pc[c] = "commit"

-----------------------------------------------------------------------------
Goto(c, label) ==
    /\ pc' = [pc EXCEPT ![c] = label]
    /\ UNCHANGED <<arg, answer>>

Return(c, a) ==
    /\ pc' = [pc EXCEPT ![c] = "idle"]
    /\ arg' = [arg EXCEPT ![c] = NoUrl]
    /\ answer' = [answer EXCEPT ![c] = a]

Begin(c, u) ==
    /\ pc[c] = "idle"
    /\ pc' = [pc EXCEPT ![c] = "gate"]
    /\ arg' = [arg EXCEPT ![c] = u]
    /\ answer' = [answer EXCEPT ![c] = "none"]
    /\ UNCHANGED <<rows, counter>>

\* Bug: the gate lets the counter reach max_urls + 1.
BugGateLate(c) ==
    /\ pc[c] = "gate"
    /\ Goto(c, IF counter <= MaxUrls THEN "insert" ELSE "lookup")
    /\ UNCHANGED <<rows, counter>>

\* WHERE EXISTS (... urls_enqueued < max_urls): a closed gate inserts nothing.
Gate(c) ==
    /\ pc[c] = "gate"
    /\ Goto(c, IF counter < MaxUrls THEN "insert" ELSE "lookup")
    /\ UNCHANGED <<rows, counter>>

\* Bug: no unique index to wait at; the conflict is looked for among the
\* committed rows.
BugNoUniqueIndex(c) ==
    /\ pc[c] = "insert"
    /\ Goto(c, IF arg[c] \in rows THEN "lookup" ELSE "bump")
    /\ UNCHANGED <<rows, counter>>

\* ON CONFLICT DO NOTHING, once no other transaction is inserting the URL.
Insert(c) ==
    /\ pc[c] = "insert"
    /\ \A d \in Inserted : arg[d] # arg[c]
    /\ Goto(c, IF arg[c] \in rows THEN "lookup" ELSE "bump")
    /\ UNCHANGED <<rows, counter>>

\* Bug: the increment first asks for a lock of the table, which every
\* transaction that has inserted a row shares.
BugBumpLocksTable(c) ==
    /\ pc[c] = "bump"
    /\ Inserted = {c}
    /\ Goto(c, "commit")
    /\ UNCHANGED <<rows, counter>>

\* The increment, on the latest committed counter, once the run's row is free.
Bump(c) ==
    /\ pc[c] = "bump"
    /\ ~RunLocked
    /\ Goto(c, "commit")
    /\ UNCHANGED <<rows, counter>>

\* The row and the counter appear together; the answer may be lost.
Commit(c) ==
    /\ pc[c] = "commit"
    /\ rows' = rows \cup {arg[c]}
    /\ counter' = counter + 1
    /\ \E a \in {"inserted", "error"} : Return(c, a)

\* Bug: a URL that is not found is reported as known.
BugLookupTrusts(c) ==
    /\ pc[c] = "lookup"
    /\ Return(c, "existing")
    /\ UNCHANGED <<rows, counter>>

\* SELECT id: found, or dropped for want of room.
Lookup(c) ==
    /\ pc[c] = "lookup"
    /\ Return(c, IF arg[c] \in rows THEN "existing" ELSE "limit")
    /\ UNCHANGED <<rows, counter>>

\* Bug: the URL of a call that failed stays with the caller.
BugAbortKeepsUrl(c) ==
    /\ pc[c] # "idle"
    /\ pc' = [pc EXCEPT ![c] = "idle"]
    /\ answer' = [answer EXCEPT ![c] = "error"]
    /\ UNCHANGED <<rows, counter, arg>>

\* A statement fails and the transaction rolls back.
Abort(c) ==
    /\ pc[c] # "idle"
    /\ Return(c, "error")
    /\ UNCHANGED <<rows, counter>>

Step(c) == Gate(c) \/ Insert(c) \/ Bump(c) \/ Commit(c) \/ Lookup(c)

Next ==
    \E c \in Callers : Step(c) \/ Abort(c) \/ (\E u \in Urls : Begin(c, u))

Spec == Init /\ [][Next]_vars

\* Every statement ends, once what it waits for has ended.
\* PostgreSQL serves the waiters of a lock in the order of their arrival.
FairSpec ==
    Spec /\ \A c \in Callers :
                WF_vars(Step(c)) /\ SF_vars(Insert(c)) /\ SF_vars(Bump(c))

-----------------------------------------------------------------------------
\* The counter that gates admission is the number of admitted rows, although
\* each transaction changes them in two statements and may roll back.
CounterMatchesRows == counter = Cardinality(rows)

\* Concurrent discovery passes max_urls by less than the number of callers: a
\* caller passes the gate on a counter that others, past it, will still raise.
Overshoot == counter < MaxUrls + Cardinality(Callers)

\* Every call returns: the wait at the unique index and the wait for the run's
\* row never form a cycle.
CallsReturn == \A c \in Callers : pc[c] # "idle" ~> pc[c] = "idle"

\* The transaction implements its contract: every step of a call before its
\* last statement leaves the contract's state alone.
Contract == INSTANCE AdmissionSpec WITH call <- arg
ImplementsContract == Contract!Spec

=============================================================================
