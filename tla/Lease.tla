------------------------------- MODULE Lease --------------------------------
(***************************************************************************)
(* What the row of a run promises to the processes that work on it: it is  *)
(* a lease without a lock.  A run is created once; it is taken while it is *)
(* stopped, or, while it is running, when all that hold it are overdue; it *)
(* is ended by one that holds it, overdue or not.  A process may let go of *)
(* it, or die, at any time, and what it leaves is a running run that       *)
(* nobody holds.                                                           *)
(***************************************************************************)
CONSTANTS
    Procs,
    Suspends,   \* may a process be overdue?
    LostAcks    \* may the answer of a statement be lost?

VARIABLES
    status,     \* crawl_runs.status
    holders,    \* the processes that work on the run
    overdue     \* those of them that have missed a time by which they had to write

vars == <<status, holders, overdue>>

Stopped == {"paused", "limit_reached", "failed"}
Final == {"completed"}

Init == status = "none" /\ holders = {} /\ overdue = {}

\* The process holds the run, unless it never learns that it does.
Join(p) ==
    /\ p \notin holders
    /\ \/ holders' = holders \cup {p}
       \/ LostAcks /\ UNCHANGED holders
    /\ UNCHANGED overdue

Leave(p) ==
    /\ p \in holders
    /\ holders' = holders \ {p}
    /\ overdue' = overdue \ {p}

Create(p) ==
    /\ status = "none" /\ holders = {}
    /\ status' = "running"
    /\ Join(p)

Take(p) ==
    /\ status \in Stopped \cup {"running"}
    /\ status = "running" => holders \subseteq overdue
    /\ status' = "running"
    /\ Join(p)

\* The holder writes a final status; if it does not learn that it did, it writes
\* another.
End(p) ==
    /\ status' \in Stopped \cup Final
    /\ \/ Leave(p)
       \/ LostAcks /\ p \in holders /\ UNCHANGED <<holders, overdue>>

Release(p) == Leave(p) /\ UNCHANGED status

BeLate(late) ==
    /\ Suspends
    /\ late \subseteq holders
    /\ overdue' = overdue \cup late
    /\ UNCHANGED <<status, holders>>

Next ==
    \/ \E p \in Procs : Create(p) \/ Take(p) \/ End(p) \/ Release(p)
    \/ \E late \in SUBSET Procs : BeLate(late)

Spec == Init /\ [][Next]_vars

=============================================================================
