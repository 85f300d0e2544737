---------------------------- MODULE AdmissionSpec ----------------------------
(***************************************************************************)
(* What FrontierRepository.enqueueUrl promises to concurrent callers: a    *)
(* call takes effect at one point between its beginning and its end.  There *)
(* it finds the URL, or admits it, or finds the frontier full; the gate is *)
(* late by at most one row for each of the other callers.  Frontier.tla    *)
(* uses enqueueUrl by this contract, with slack Cardinality(Callers) - 1.  *)
(***************************************************************************)
EXTENDS Integers, FiniteSets

CONSTANTS
    Callers,    \* the workers, each in at most one call
    Urls,
    NoUrl,
    MaxUrls     \* crawl_runs.max_urls

VARIABLES
    rows,       \* the admitted URLs
    call,       \* the URL each caller is enqueueing, or NoUrl
    answer      \* the answer to its last call

vars == <<rows, call, answer>>

Answer == {"none", "inserted", "existing", "limit", "error"}

Init ==
    /\ rows = {}
    /\ call = [c \in Callers |-> NoUrl]
    /\ answer = [c \in Callers |-> "none"]

Ask(c, u) ==
    /\ call[c] = NoUrl
    /\ call' = [call EXCEPT ![c] = u]
    /\ answer' = [answer EXCEPT ![c] = "none"]
    /\ UNCHANGED rows

Reply(c, a) ==
    /\ call[c] # NoUrl
    /\ call' = [call EXCEPT ![c] = NoUrl]
    /\ answer' = [answer EXCEPT ![c] = a]

Admit(c) ==
    /\ call[c] \notin rows
    /\ Cardinality(rows) < MaxUrls + Cardinality(Callers) - 1
    /\ rows' = rows \cup {call[c]}

Inserted(c) == Reply(c, "inserted") /\ Admit(c)

Existing(c) == Reply(c, "existing") /\ call[c] \in rows /\ UNCHANGED rows

Full(c) ==
    /\ Reply(c, "limit")
    /\ call[c] \notin rows
    /\ Cardinality(rows) >= MaxUrls
    /\ UNCHANGED rows

\* The call throws; its effect may have been committed.
Error(c) == Reply(c, "error") /\ (UNCHANGED rows \/ Admit(c))

Next ==
    \E c \in Callers :
        \/ \E u \in Urls : Ask(c, u)
        \/ Inserted(c) \/ Existing(c) \/ Full(c) \/ Error(c)

Spec == Init /\ [][Next]_vars

=============================================================================
