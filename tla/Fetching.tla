------------------------------ MODULE Fetching ------------------------------
(***************************************************************************)
(* The worker loop in time: the wait before each claim, the pause that a   *)
(* 429 answer puts on all workers, the timer of a request, and the time at *)
(* which a failed URL is due again.                                        *)
(*                                                                         *)
(* Time is discrete and every time is kept as what is left of it.  A timer *)
(* that is up fires before the next unit; statements of the database,      *)
(* bodies and signals take any time.                                       *)
(*                                                                         *)
(* Simplifications                                                         *)
(*  - statements do not fail, limits are not reached, nothing is found:    *)
(*    those are Pool's;                                                    *)
(*  - an answer that settles its URL, whatever it is, makes it "settled";  *)
(*  - a worker that finds nothing ends once every URL is settled, or polls *)
(*    again (Pool has the three counts this is decided on).                *)
(***************************************************************************)
EXTENDS Integers

CONSTANTS
    Workers, Urls,
    BaseDelay,      \* baseDelayMs: the wait before every claim
    Poll,           \* pollMs
    Timeout,        \* timeoutMs of a request
    DefaultPause,   \* defaultPauseMs: the pause without a Retry-After
    Fallback,       \* rateLimitFallbackMs: the delay without a Retry-After
    Headers,        \* Retry-After headers: see ParseRetryAfter
    NoHeader,       \* what parseRetryAfter makes of one it cannot use: null
    RetryBase, RetryMax, Jitter,    \* of the backoff; Jitter in percent
    MaxAttempts,    \* crawl_urls.max_attempts
    LongestTimer,   \* the longest delay setTimeout takes; a longer one is 1
    Skew            \* bound on the clock of the process against the database's

NoTask == "none"

ASSUME FetchingAssumption ==
    /\ NoTask \notin Urls
    /\ {BaseDelay, Poll, DefaultPause, Fallback, RetryBase, RetryMax, Skew} \subseteq Nat
    /\ Jitter \in 0 .. 100
    /\ {Timeout, MaxAttempts, LongestTimer} \subseteq Nat \ {0}
    /\ Headers \subseteq [kind : {"seconds"}, n : Nat] \cup [kind : {"date", "other"}, n : Int]
    /\ NoHeader \notin Nat

VARIABLES
    pause,      \* pausedUntilMs - now, 0 if that is past
    shutdown,   \* shutdownRequested
    pc,         \* where each worker waits
    timer,      \* what is left of the timer it has armed
    task,       \* the URL it holds
    status,     \* crawl_urls.status, by URL
    due,        \* next_attempt_at - now(), by URL
    attempts,   \* crawl_urls.attempt_count, by URL
    plan,       \* the outcome a worker is about to write
    quiet,      \* history: what is left of the longest pause asked for
    asked,      \* history: what is left of the Retry-After last heard for each URL
    lost,       \* history: URLs whose Retry-After died with the process that heard it
    begun       \* history: requests each worker has begun while quiet

\* parseRetryAfter: digits are a delay; a date is what is left until then; one
\* that is missing, blank, negative or neither is null.
ParseRetryAfter(header) ==
    CASE header.kind = "seconds" -> header.n
      [] header.kind = "date" -> IF header.n > 0 THEN header.n ELSE 0
      [] OTHER -> NoHeader

RetryAfters == {ParseRetryAfter(header) : header \in Headers}

control == <<pause, shutdown>>
rows == <<status, due, attempts>>
history == <<quiet, asked, lost, begun>>
vars == <<control, pc, timer, task, rows, plan, history>>

Outcome(to, time) == [status |-> to, due |-> time]
NoPlan == Outcome("none", 0)

Longer(time, other) == IF time >= other THEN time ELSE other
Shorter(time, other) == IF time <= other THEN time ELSE other
Less(time) == IF time > 0 THEN time - 1 ELSE 0

\* Asleep in a timer of its own, or in a request.
Sleeping == {"delay", "paused", "poll"}
Busy == {"headers", "body", "mark"}
Phases == Sleeping \cup Busy \cup {"top", "claim", "ended"}
Status == {"queued", "in_progress", "retryable_failed", "settled"}

Init ==
    /\ pause = 0 /\ shutdown = FALSE
    /\ pc = [w \in Workers |-> "top"]
    /\ timer = [w \in Workers |-> 0]
    /\ task = [w \in Workers |-> NoTask]
    /\ status = [u \in Urls |-> "queued"]
    /\ due = [u \in Urls |-> 0]
    /\ attempts = [u \in Urls |-> 0]
    /\ plan = [w \in Workers |-> NoPlan]
    /\ quiet = 0
    /\ asked = [u \in Urls |-> 0] /\ lost = {}
    /\ begun = [w \in Workers |-> 0]

-----------------------------------------------------------------------------
(* The wait.                                                               *)

Goto(w, phase, time) ==
    /\ pc' = [pc EXCEPT ![w] = phase]
    /\ timer' = [timer EXCEPT ![w] = time]

\* setTimeout: a delay beyond its range fires after one unit.
SetTimeout(time) == IF time > LongestTimer THEN 1 ELSE time

\* The top of the loop: the only place where the signal is looked at.
Loop(w) ==
    /\ pc[w] = "top"
    /\ IF shutdown THEN Goto(w, "ended", 0) ELSE Goto(w, "delay", SetTimeout(BaseDelay))
    /\ UNCHANGED <<control, task, rows, plan, history>>

\* Bug: the end of the pause is not read again after a sleep.
BugWake(w) ==
    /\ pc[w] \in {"delay", "paused"} /\ timer[w] = 0
    /\ IF pause > 0 /\ pc[w] = "delay"
       THEN Goto(w, "paused", SetTimeout(pause)) ELSE Goto(w, "claim", 0)
    /\ UNCHANGED <<control, task, rows, plan, history>>

\* Bug: the base delay is waited for again after every pause.
BugWakeDelays(w) ==
    /\ pc[w] \in {"delay", "paused"} /\ timer[w] = 0
    /\ IF pc[w] = "paused" THEN Goto(w, "delay", SetTimeout(BaseDelay))
       ELSE IF pause > 0 THEN Goto(w, "paused", SetTimeout(pause))
       ELSE Goto(w, "claim", 0)
    /\ UNCHANGED <<control, task, rows, plan, history>>

\* wait: as long as there is a pause, sleep for what is left of it.
Wake(w) ==
    /\ pc[w] \in {"delay", "paused"} /\ timer[w] = 0
    /\ IF pause > 0 THEN Goto(w, "paused", SetTimeout(pause)) ELSE Goto(w, "claim", 0)
    /\ UNCHANGED <<control, task, rows, plan, history>>

-----------------------------------------------------------------------------
(* Claiming and fetching.                                                  *)

Claimable(u) ==
    \/ status[u] = "queued"
    \/ status[u] = "retryable_failed" /\ due[u] = 0

\* The claimed URL is requested at once, with a timer that aborts the request.
Claim(w, u) ==
    /\ pc[w] = "claim" /\ Claimable(u)
    /\ status' = [status EXCEPT ![u] = "in_progress"]
    /\ task' = [task EXCEPT ![w] = u]
    /\ Goto(w, "headers", Timeout)
    /\ begun' = [begun EXCEPT ![w] = IF quiet > 0 THEN @ + 1 ELSE 0]
    /\ UNCHANGED <<control, due, attempts, plan, quiet, asked, lost>>

ClaimNothing(w) ==
    /\ pc[w] = "claim" /\ \A u \in Urls : ~Claimable(u)
    /\ IF \A u \in Urls : status[u] = "settled" THEN Goto(w, "ended", 0)
       ELSE Goto(w, "poll", SetTimeout(Poll))
    /\ UNCHANGED <<control, task, rows, plan, history>>

PollAgain(w) ==
    /\ pc[w] = "poll" /\ timer[w] = 0
    /\ Goto(w, "top", 0)
    /\ UNCHANGED <<control, task, rows, plan, history>>

\* The answer is known; its outcome is about to be written.
Decide(w, outcome) ==
    /\ plan' = [plan EXCEPT ![w] = outcome]
    /\ Goto(w, "mark", 0)
    /\ UNCHANGED <<shutdown, task, rows, begun>>

\* What an answer without a Retry-After leaves as it was.
Unasked == UNCHANGED <<pause, quiet, asked, lost>>

\* Bug: one attempt too many.
BugGivesUp(n) == n >= MaxAttempts

GivesUp(n) == n + 1 >= MaxAttempts

\* computeBackoffMs: doubled with each attempt up to a maximum, with jitter.
Backoff(n) ==
    LET delay == Shorter(RetryBase * 2 ^ n, RetryMax)
        spread == (delay * Jitter) \div 100
    IN  (delay - spread .. delay + spread) \cap Nat

\* A failed fetch: another attempt after a backoff, or none.
Failed(w) ==
    LET n == attempts[task[w]]
    IN  IF GivesUp(n) THEN Decide(w, Outcome("settled", 0))
        ELSE \E delay \in Backoff(n) :
                 Decide(w, Outcome("retryable_failed", delay))

\* The headers of the transport arrive, at the earliest one unit after the
\* request; that clears the timer, and the body is read without one.
HeadersArrive(w) ==
    /\ pc[w] = "headers" /\ timer[w] < Timeout
    /\ Goto(w, "body", 0)
    /\ UNCHANGED <<control, task, rows, plan, history>>

\* No connection, or the transport answers with an error.
RequestFails(w) == pc[w] = "headers" /\ Failed(w) /\ Unasked

\* Bug: the timer is cleared, and the request goes on.
BugAbort(w) ==
    /\ pc[w] = "headers" /\ timer[w] = 0
    /\ Goto(w, "headers", Timeout)
    /\ UNCHANGED <<control, task, rows, plan, history>>

\* The timer fires: kind "timeout".
Abort(w) == pc[w] = "headers" /\ timer[w] = 0 /\ Failed(w) /\ Unasked

\* The envelope is invalid, or says that the page failed in a way that is retried.
BodyFails(w) == pc[w] = "body" /\ Failed(w) /\ Unasked

BodySettles(w) ==
    /\ pc[w] = "body"
    /\ Decide(w, Outcome("settled", 0))
    /\ Unasked

\* Bug: a rate limited URL waits like one that failed.
BugRateLimitDelay(header) == RetryBase

\* decide: the Retry-After, or a delay of its own; no attempt is spent.
RateLimitDelay(header) == IF header = NoHeader THEN Fallback ELSE header

\* A 429, onRateLimited: the pause is the longest that was asked for, and this
\* URL waits on its own account.
RateLimited(w, header) ==
    LET time == IF header = NoHeader THEN DefaultPause ELSE header
    IN  /\ pc[w] = "body"
        /\ pause' = Longer(pause, time)
        /\ quiet' = Longer(quiet, time)
        /\ IF header = NoHeader THEN UNCHANGED <<asked, lost>>
           ELSE asked' = [asked EXCEPT ![task[w]] = header] /\ lost' = lost \ {task[w]}
        /\ Decide(w, Outcome("rate_limited", RateLimitDelay(header)))

\* The outcome is written; next_attempt_at is compared by another clock.
Mark(w) ==
    LET u == task[w]
        p == plan[w]
    IN  /\ pc[w] = "mark"
        /\ status' = [status EXCEPT ![u] =
               IF p.status = "rate_limited" THEN "retryable_failed" ELSE p.status]
        /\ attempts' = [attempts EXCEPT ![u] =
               IF p.status = "retryable_failed" THEN @ + 1 ELSE @]
        /\ IF p.status = "settled" THEN UNCHANGED due
           ELSE \E ahead \in -Skew .. Skew :
                    due' = [due EXCEPT ![u] = Longer(0, p.due + ahead)]
        /\ task' = [task EXCEPT ![w] = NoTask]
        /\ plan' = [plan EXCEPT ![w] = NoPlan]
        /\ Goto(w, "top", 0)
        /\ UNCHANGED <<control, history>>

-----------------------------------------------------------------------------
(* Signals, restarts and time.                                             *)

RequestShutdown ==
    /\ ~shutdown /\ shutdown' = TRUE
    /\ UNCHANGED <<pause, pc, timer, task, rows, plan, history>>

\* The process dies and another resumes the run: rows in progress are reclaimed,
\* the others keep their time; the pause, and a 429 not yet written, were in the
\* memory of the process.
Restart ==
    /\ ~shutdown
    /\ pause' = 0 /\ quiet' = 0
    /\ pc' = [w \in Workers |-> "top"]
    /\ timer' = [w \in Workers |-> 0]
    /\ task' = [w \in Workers |-> NoTask]
    /\ plan' = [w \in Workers |-> NoPlan]
    /\ begun' = [w \in Workers |-> 0]
    /\ status' = [u \in Urls |-> IF status[u] = "in_progress" THEN "queued" ELSE status[u]]
    /\ lost' = lost \cup {u \in Urls : \E w \in Workers :
                                task[w] = u /\ plan[w].status = "rate_limited"}
    /\ UNCHANGED <<shutdown, due, attempts, asked>>

\* One unit of time: no timer that is up is passed.
Tick ==
    /\ \A w \in Workers : pc[w] \in Sleeping \cup {"headers"} => timer[w] > 0
    /\ \E w \in Workers : pc[w] # "ended"
    /\ pause' = Less(pause)
    /\ timer' = [w \in Workers |-> Less(timer[w])]
    /\ due' = [u \in Urls |-> Less(due[u])]
    /\ plan' = [w \in Workers |-> Outcome(plan[w].status, Less(plan[w].due))]
    /\ quiet' = Less(quiet)
    /\ asked' = [u \in Urls |-> Less(asked[u])]
    /\ lost' = {u \in lost : asked[u] > 1}
    /\ begun' = [w \in Workers |-> IF quiet <= 1 THEN 0 ELSE begun[w]]
    /\ UNCHANGED <<shutdown, pc, task, status, attempts>>

\* What a worker does without waiting for the site.
Advance(w) ==
    \/ Loop(w) \/ Wake(w) \/ PollAgain(w)
    \/ \E u \in Urls : Claim(w, u)
    \/ ClaimNothing(w) \/ Abort(w) \/ Mark(w)

Answer(w) ==
    \/ BodyFails(w) \/ BodySettles(w)
    \/ \E header \in RetryAfters : RateLimited(w, header)

Next ==
    \/ \E w \in Workers :
           Advance(w) \/ HeadersArrive(w) \/ RequestFails(w) \/ Answer(w)
    \/ RequestShutdown
    \/ Restart
    \/ Tick

Spec == Init /\ [][Next]_vars

\* The event loop runs timers and resumes workers, and a body that has begun to
\* arrive arrives: the code has no timer for it.  Nothing is assumed of headers.
Fairness ==
    /\ WF_vars(Tick)
    /\ \A w \in Workers : WF_vars(Advance(w)) /\ WF_vars(Answer(w))

FairSpec == Spec /\ Fairness

-----------------------------------------------------------------------------
(* Properties.                                                             *)

\* Every variable has its type; a URL in progress has one worker.
TypeOK ==
    /\ {pause, quiet} \subseteq Nat /\ shutdown \in BOOLEAN
    /\ pc \in [Workers -> Phases] /\ timer \in [Workers -> Nat]
    /\ task \in [Workers -> Urls \cup {NoTask}]
    /\ status \in [Urls -> Status]
    /\ attempts \in [Urls -> 0 .. MaxAttempts - 1]
    /\ \A w \in Workers : pc[w] \in Busy <=> task[w] # NoTask
    /\ \A u \in Urls : status[u] = "in_progress" <=> \E w \in Workers : task[w] = u

\* "[A] present Retry-After pauses all workers until it elapses": not quite.  A
\* worker that had left its wait when the answer came goes on to its request;
\* but it begins only that one before the longest pause asked for is over.
PauseOvershoot == \A w \in Workers : begun[w] <= 1

\* "respect Retry-After": the Retry-After last heard for a URL is over, but for
\* the difference between the two clocks, when the URL is requested again, by
\* whatever process, with one exception: if the process that heard it died
\* before it had written it, the row is reclaimed without a time, and the URL is
\* requested at once.  (A write that fails, which is left out here, loses it to
\* the backoff of the catch block in the same way.)
RetryAfterHonoured ==
    [][\A u \in Urls :
          status[u] # "in_progress" /\ status'[u] = "in_progress"
          => asked[u] <= Skew \/ u \in lost]_vars

\* No worker waits for ever, however often the others are rate limited.
WaitEnds ==
    \A w \in Workers : pc[w] \in {"delay", "paused"} ~> pc[w] \notin {"delay", "paused"}

\* "SIGINT/SIGTERM request shutdown, workers finish in-flight work": they do,
\* though they look at the signal only between two tasks and never in a wait.
ShutdownEnds == shutdown ~> \A w \in Workers : pc[w] = "ended"

=============================================================================
