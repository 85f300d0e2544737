----------------------------- MODULE Lifecycle ------------------------------
(***************************************************************************)
(* Several processes on one run: each may create the run, resume it after  *)
(* it has stopped, or take it over when its row has not been touched for   *)
(* too long; a process that works on it touches the row by a heartbeat.    *)
(* No lock is held for the length of a session: what keeps processes apart *)
(* is one conditional update and the age of updated_at.                    *)
(*                                                                         *)
(* Time is discrete.  `age` is now() - updated_at; `timer[p]` is the time  *)
(* left to the next heartbeat of a live process, or within which another   *)
(* phase takes its step; the clock does not pass a timer that is up,       *)
(* except that a suspended process becomes tardy.                          *)
(*                                                                         *)
(* Simplifications                                                         *)
(*  - the frontier is one page, and the workers of a process are one;      *)
(*  - the worker loop is Pool's: here it may leave at any time between two *)
(*    pages, with any reason to stop, or because nothing is left;          *)
(*  - "completed" stands for completed_with_failures too;                  *)
(*  - the limits are only stored and compared: Pool enforces them.         *)
(***************************************************************************)
EXTENDS Limits

CONSTANTS
    Procs,          \* processes (a name is used again when one has ended)
    Environments,   \* environments a process may be started in
    CommandLines,   \* command lines that may be given
    Interval,       \* RUN_HEARTBEAT_INTERVAL_MS
    MaxLate,        \* how much later than Interval a heartbeat may succeed
    Delay,          \* bound on the time of a phase other than live
    Skew,           \* bound on the clock of a process against the database's
    StaleAfter,     \* staleAfterMs
    Suspends,       \* may a process be held up for longer than that?
    LostAcks        \* may the answer of a statement be lost?

\* "Set RUN_STALE_AFTER_MS comfortably above the heartbeat interval plus
\* expected transient DB issues": what comfortably means here.
ASSUME LifecycleAssumption ==
    /\ {Interval, MaxLate, Delay, Skew, StaleAfter} \subseteq Nat
    /\ StaleAfter >= Interval + MaxLate + 3 * Delay + Skew
    /\ {Suspends, LostAcks} \subseteq BOOLEAN
    /\ \A given \in Environments \cup CommandLines :
           /\ DOMAIN given \subseteq LimitName
           /\ \A name \in DOMAIN given : given[name] \in Argument

VARIABLES
    status,     \* crawl_runs.status, "none" before the row exists
    limits,     \* crawl_runs.max_urls, max_depth, max_bytes, max_runtime_seconds
    age,        \* now() - updated_at, counted up to AgeCap
    page,       \* crawl_urls.status of the page, "absent" before the seed
    pc,         \* the phase of each process
    seen,       \* the row as the process read it: status and limits
    line,       \* the command line it was given
    cut,        \* now() - staleBefore, for a process about to take over
    working,    \* does a worker of the process hold the page?
    verdict,    \* the final status it is about to write
    timer,      \* see above
    late,       \* time lost to heartbeats that failed since the last good one
    tardy       \* has the clock passed a timer of the process?

row == <<status, limits, age, page>>
session == <<pc, seen, line, cut, working, verdict, late, tardy>>
vars == <<row, session, timer>>

Completed == {"completed"}
RunStatus == Completed \cup {"none", "running", "paused", "limit_reached", "failed"}

\* An age beyond every value that it is compared with.
AgeCap == StaleAfter + Skew + Delay + 1

NoLine == [name \in {} |-> [word |-> "none", n |-> 0]]
NoLimits == [name \in LimitName |-> NoLimit]
NotSeen == [status |-> "none", limits |-> NoLimits]

\* A process that may write to the frontier or end the run.
Working == {"seeding", "recovering", "live", "finalizing", "fallback"}
Phases == Working \cup {"idle", "marking"}
Owns(p) == pc[p] \in Working

TypeOK ==
    /\ status \in RunStatus
    /\ limits \in [LimitName -> Limit]
    /\ age \in 0 .. AgeCap
    /\ page \in {"absent", "queued", "in_progress", "done"}
    /\ pc \in [Procs -> Phases]
    /\ seen \in [Procs -> [status : RunStatus, limits : [LimitName -> Limit]]]
    /\ line \in [Procs -> CommandLines \cup {NoLine}]
    /\ cut \in [Procs -> Nat]
    /\ working \in [Procs -> BOOLEAN]
    /\ verdict \in [Procs -> RunStatus]
    /\ timer \in [Procs -> Nat]
    /\ late \in [Procs -> Nat]
    /\ tardy \in [Procs -> BOOLEAN]

Init ==
    /\ status = "none" /\ limits = NoLimits /\ age = 0 /\ page = "absent"
    /\ pc = [p \in Procs |-> "idle"]
    /\ seen = [p \in Procs |-> NotSeen]
    /\ line = [p \in Procs |-> NoLine]
    /\ cut = [p \in Procs |-> 0]
    /\ working = [p \in Procs |-> FALSE]
    /\ verdict = [p \in Procs |-> "none"]
    /\ timer = [p \in Procs |-> 0]
    /\ late = [p \in Procs |-> 0]
    /\ tardy = [p \in Procs |-> FALSE]

-----------------------------------------------------------------------------
(* Statements, and what the steps of a process have in common.             *)

\* "ok", "failed" (no effect), "lost" (an effect, and no answer).
Reply == {"ok", "failed"} \cup (IF LostAcks THEN {"lost"} ELSE {})

After(r, old, new) == IF r = "failed" THEN old ELSE new

\* The process moves on, with `time` for its next step.
Enter(p, phase, time) ==
    /\ pc' = [pc EXCEPT ![p] = phase]
    /\ timer' = [timer EXCEPT ![p] = time]

\* What a process knew is gone.
ForgetRead(p) ==
    /\ seen' = [seen EXCEPT ![p] = NotSeen]
    /\ line' = [line EXCEPT ![p] = NoLine]
    /\ cut' = [cut EXCEPT ![p] = 0]

ForgetWork(p) ==
    /\ working' = [working EXCEPT ![p] = FALSE]
    /\ verdict' = [verdict EXCEPT ![p] = "none"]
    /\ late' = [late EXCEPT ![p] = 0]
    /\ tardy' = [tardy EXCEPT ![p] = FALSE]

\* The process exits; no timer of it runs any more.
Exit(p) == Enter(p, "idle", 0) /\ ForgetRead(p) /\ ForgetWork(p)

KeepRead == UNCHANGED <<seen, line, cut>>
KeepWork == UNCHANGED <<working, verdict, late, tardy>>

\* The pool starts, and its heartbeat with it.
StartPool(p) == Enter(p, "live", Interval) /\ KeepRead /\ KeepWork

-----------------------------------------------------------------------------
(* Creating and resuming.                                                  *)

\* createRun inserts the row ...
Create(p, env, cl, r) ==
    /\ pc[p] = "idle" /\ status = "none" /\ r # "failed"
    /\ limits' \in CreateLimits(env, cl)
    /\ status' = "running" /\ age' = 0
    /\ Enter(p, IF r = "ok" THEN "seeding" ELSE "idle", Delay)
    /\ KeepRead /\ KeepWork
    /\ UNCHANGED page

\* ... and enqueues the seed, whose counter is in the row.
Seed(p, r) ==
    /\ pc[p] = "seeding"
    /\ page' = After(r, page, IF page = "absent" THEN "queued" ELSE page)
    /\ age' = After(r, age, IF page = "absent" THEN 0 ELSE age)
    /\ IF r = "ok" THEN StartPool(p) ELSE Exit(p)
    /\ UNCHANGED <<status, limits>>

\* Bug: rows in progress are reclaimed before the run is won.
BugReclaimAtRead(p, cl) ==
    /\ pc[p] = "idle"
    /\ status \in {"running", "paused", "failed"}
    /\ seen' = [seen EXCEPT ![p] = [status |-> status, limits |-> limits]]
    /\ line' = [line EXCEPT ![p] = NoLine]
    /\ cut' = [cut EXCEPT ![p] = StaleAfter]
    /\ page' = IF page = "in_progress" THEN "queued" ELSE page
    /\ Enter(p, "marking", Delay)
    /\ KeepWork
    /\ UNCHANGED <<status, limits, age>>

\* resumeRun reads the row and decides on what it read; it computes
\* staleBefore by its own clock.
Read(p, cl) ==
    /\ pc[p] = "idle"
    /\ status \in {"running", "paused", "failed", "limit_reached"}
    /\ Accepted(cl)
    /\ status = "limit_reached" => HasExplicitLimitIncrease(limits, cl)
    /\ seen' = [seen EXCEPT ![p] = [status |-> status, limits |-> limits]]
    /\ line' = [line EXCEPT ![p] = cl]
    /\ IF status = "running"
       THEN \E ahead \in -Skew .. Skew :
                cut' = [cut EXCEPT ![p] = StaleAfter - ahead]
       ELSE UNCHANGED cut
    /\ Enter(p, "marking", Delay)
    /\ KeepWork
    /\ UNCHANGED row

\* Bug: the update does not ask for the status that was read.
BugMatchesAnyStatus(p) == seen[p].status = "running" => age > cut[p]

\* Bug: a running run is taken however fresh it is.
BugMatchesFresh(p) == status = seen[p].status

\* The WHERE clause of markRunning.
Matches(p) ==
    /\ status = seen[p].status
    /\ status = "running" => age > cut[p]

\* Bug: an attempt that is refused touches the row all the same.
BugTouchOnRefusal(p, r) ==
    /\ pc[p] = "marking"
    /\ IF Matches(p) /\ r # "failed"
       THEN status' = "running" /\ limits' = Updated(limits, line[p])
       ELSE UNCHANGED <<status, limits>>
    /\ age' = After(r, age, 0)
    /\ IF Matches(p) /\ r = "ok"
       THEN Enter(p, "recovering", Delay) /\ ForgetRead(p) /\ KeepWork
       ELSE Exit(p)
    /\ UNCHANGED page

\* markRunning: one conditional update takes the run.
MarkRunning(p, r) ==
    /\ pc[p] = "marking"
    /\ IF Matches(p) /\ r # "failed"
       THEN status' = "running" /\ age' = 0 /\ limits' = Updated(limits, line[p])
       ELSE UNCHANGED <<status, limits, age>>
    /\ IF Matches(p) /\ r = "ok"
       THEN Enter(p, "recovering", Delay) /\ ForgetRead(p) /\ KeepWork
       ELSE Exit(p)
    /\ UNCHANGED page

\* recoverAllInProgress, by the winner only.
Recover(p, r) ==
    /\ pc[p] = "recovering"
    /\ page' = After(r, page, IF page = "in_progress" THEN "queued" ELSE page)
    /\ IF r = "ok" THEN StartPool(p) ELSE Exit(p)
    /\ UNCHANGED <<status, limits, age>>

-----------------------------------------------------------------------------
(* A live session.                                                         *)

\* Bug: only a stored page touches the row.
BugNoHeartbeat(p, r) ==
    /\ pc[p] = "live" /\ timer[p] = 0 /\ r # "lost"
    /\ timer' = [timer EXCEPT ![p] = Interval]
    /\ UNCHANGED <<row, session>>

\* touchHeartbeat; a failure is logged, and the next one is an interval away.
Heartbeat(p, r) ==
    /\ pc[p] = "live" /\ timer[p] = 0 /\ r # "lost"
    /\ r = "failed" => late[p] + Interval <= MaxLate
    /\ age' = IF r = "ok" /\ status = "running" THEN 0 ELSE age
    /\ late' = [late EXCEPT ![p] = IF r = "ok" THEN 0 ELSE @ + Interval]
    /\ timer' = [timer EXCEPT ![p] = Interval]
    /\ KeepRead
    /\ UNCHANGED <<status, limits, page, pc, working, verdict, tardy>>

Claim(p) ==
    /\ pc[p] = "live" /\ ~working[p] /\ page = "queued"
    /\ page' = "in_progress"
    /\ working' = [working EXCEPT ![p] = TRUE]
    /\ KeepRead
    /\ UNCHANGED <<status, limits, age, pc, verdict, timer, late, tardy>>

\* The outcome of the page, whoever has it by now: done, with the addBytes that
\* follows, or left for another attempt.
Settle(p, outcome) ==
    /\ pc[p] = "live" /\ working[p]
    /\ page' = outcome
    /\ age' = IF outcome = "done" THEN 0 ELSE age
    /\ working' = [working EXCEPT ![p] = FALSE]
    /\ KeepRead
    /\ UNCHANGED <<status, limits, pc, verdict, timer, late, tardy>>

\* Bug: an interrupted run ends in the status of an explicit cancel.
BugVerdicts ==
    {"failed", "cancelled", "limit_reached"}
    \cup (IF page \in {"queued", "in_progress"} THEN {} ELSE Completed)

\* How the pool may end: by a signal, at a limit, in a failure, or with nothing
\* left to do, tested in this order.  Each of the first three may also end a pool
\* of which a worker crashed: that one leaves its page in progress.
Verdicts ==
    {"failed", "paused", "limit_reached"}
    \cup (IF page \in {"queued", "in_progress"} THEN {} ELSE Completed)

\* The heartbeat stops before finalizeRun.
Leave(p, v) ==
    /\ pc[p] = "live"
    /\ Enter(p, "finalizing", Delay)
    /\ working' = [working EXCEPT ![p] = FALSE]
    /\ verdict' = [verdict EXCEPT ![p] = v]
    /\ KeepRead
    /\ UNCHANGED <<row, late, tardy>>

\* finish and pause name the row by its id alone.
FinishRun(p, r) ==
    /\ pc[p] = "finalizing"
    /\ status' = After(r, status, verdict[p])
    /\ age' = After(r, age, 0)
    /\ IF r = "ok" THEN Exit(p)
       ELSE Enter(p, "fallback", Delay) /\ KeepRead /\ KeepWork
    /\ UNCHANGED <<limits, page>>

\* The last resort, when finalizeRun throws.
Fallback(p, r) ==
    /\ pc[p] = "fallback"
    /\ status' = After(r, status, "failed")
    /\ age' = After(r, age, 0)
    /\ Exit(p)
    /\ UNCHANGED <<limits, page>>

-----------------------------------------------------------------------------
(* Faults and time.                                                        *)

Crash(p) == pc[p] # "idle" /\ Exit(p) /\ UNCHANGED row

\* One unit of time.  Every process whose timer is up has taken its step, or
\* is one of those that are held up.
Tick(held) ==
    /\ held # {} => Suspends
    /\ \A p \in held : Owns(p) /\ ~tardy[p] /\ timer[p] = 0
    /\ \A p \in Procs : pc[p] # "idle" /\ timer[p] = 0 => tardy[p] \/ p \in held
    /\ age' = IF age < AgeCap THEN age + 1 ELSE age
    /\ timer' = [p \in Procs |-> IF timer[p] > 0 THEN timer[p] - 1 ELSE 0]
    /\ cut' = [p \in Procs |->
                  IF pc[p] = "marking" /\ seen[p].status = "running"
                  THEN cut[p] + 1 ELSE cut[p]]
    /\ tardy' = [p \in Procs |-> tardy[p] \/ p \in held]
    /\ UNCHANGED <<status, limits, page, pc, seen, line, working, verdict, late>>

ProcStep(p) ==
    \/ \E env \in Environments, cl \in CommandLines, r \in Reply :
           Create(p, env, cl, r)
    \/ \E cl \in CommandLines : Read(p, cl)
    \/ Claim(p)
    \/ \E outcome \in {"done", "queued"} : Settle(p, outcome)
    \/ \E v \in Verdicts : Leave(p, v)
    \/ \E r \in Reply :
           \/ Seed(p, r) \/ MarkRunning(p, r) \/ Recover(p, r) \/ Heartbeat(p, r)
           \/ FinishRun(p, r) \/ Fallback(p, r)
    \/ Crash(p)

Next ==
    \/ \E p \in Procs : ProcStep(p)
    \/ \E held \in SUBSET Procs : Tick(held)

Spec == Init /\ [][Next]_vars

\* Time goes on; a process that has read the row goes on to its update; and
\* somebody keeps trying to resume the run, and is not always met by a failing
\* statement: nothing in the code resumes a run by itself.
Fairness ==
    /\ WF_vars(Tick({}))
    /\ \A p \in Procs : WF_vars(\E r \in Reply : MarkRunning(p, r))
    /\ WF_vars(\E p \in Procs, cl \in CommandLines : Read(p, cl))
    /\ SF_vars(\E p \in Procs : Matches(p) /\ MarkRunning(p, "ok"))

FairSpec == Spec /\ Fairness

-----------------------------------------------------------------------------
(* Properties.                                                             *)

\* No two processes work on the run: "A live `running` run is treated as already
\* claimed, which prevents two concurrent `--resume <run-id>` processes from
\* owning the same frontier".  It is a claim about processes that keep their
\* timers and statements that never lose an answer.
OneOwner == \A p, q \in Procs : Owns(p) /\ Owns(q) => p = q

\* A page is in the hands of one process, and in progress while it is, although
\* recovery takes every row in progress from whoever has it.
PageExclusive ==
    \A p \in Procs : working[p] =>
        page = "in_progress" /\ \A q \in Procs \ {p} : ~working[q]

\* A run is never taken over from a process that keeps its timers: only one
\* that has died, or was held up, loses it.
TakeoverOfDead ==
    [][\A p \in Procs :
          pc[p] = "marking" /\ pc'[p] = "recovering" /\ status = "running"
          => \A q \in Procs : Owns(q) => tardy[q]]_vars

\* "`completed` [...] remain terminal", whatever the processes read before.
CompleteIsFinal == [][(status \in Completed) => (status' = status)]_vars

\* A run that stopped at a limit goes on only with more room: a limit that is
\* larger than before, or a runtime that is not smaller.  What was not given is
\* as it was.  (It is said of a run that did not move since it was read.)
More(new, old) == old # NoLimit /\ (new = NoLimit \/ new > old)
ResumeRaises ==
    [][\A p \in Procs :
          /\ pc[p] = "marking" /\ pc'[p] = "recovering"
          /\ status = "limit_reached" /\ limits = seen[p].limits
          => /\ \E name \in LimitName :
                    \/ More(limits'[name], limits[name])
                    \/ /\ name = "maxRuntimeSeconds" /\ name \in DOMAIN line[p]
                       /\ limits'[name] = limits[name] /\ limits[name] # NoLimit
             /\ \A name \in LimitName \ DOMAIN line[p] :
                    limits'[name] = limits[name]]_vars

\* The run's row is a lease, although no statement names its holder: it is
\* created once, taken when it is stopped or when all that hold it are late, and
\* ended by those that hold it, with suspended processes and lost answers too.
Held == INSTANCE Lease
    WITH holders <- {p \in Procs : Owns(p)}, overdue <- {p \in Procs : tardy[p]}
ImplementsLease == Held!Spec

\* A run whose process died is taken over in the end, if somebody keeps trying.
CrashedResumable ==
    status = "running" /\ (\A p \in Procs : ~Owns(p))
    ~> status # "running" \/ \E p \in Procs : Owns(p)

=============================================================================
