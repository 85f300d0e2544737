--------------------------- MODULE FetchingProofs ---------------------------
(***************************************************************************)
(* What holds of the worker loop in time for any workers, URLs and times:  *)
(* types, the requests begun in a pause, and the Retry-After of a URL.     *)
(***************************************************************************)
EXTENDS Fetching, TLAPS

Plan == [status : {"none", "settled", "retryable_failed", "rate_limited"},
         due : Nat]

Types ==
    /\ pause \in Nat /\ quiet \in Nat /\ shutdown \in BOOLEAN
    /\ pc \in [Workers -> Phases] /\ timer \in [Workers -> Nat]
    /\ task \in [Workers -> Urls \cup {NoTask}]
    /\ status \in [Urls -> Status]
    /\ due \in [Urls -> Nat] /\ asked \in [Urls -> Nat] /\ lost \subseteq Urls
    /\ attempts \in [Urls -> 0 .. MaxAttempts - 1]
    /\ plan \in [Workers -> Plan]
    /\ begun \in [Workers -> Nat]

\* A URL in progress has exactly one worker, which is busy with it.
Held ==
    /\ \A w \in Workers : pc[w] \in Busy <=> task[w] # NoTask
    /\ \A u \in Urls : status[u] = "in_progress" <=> \E w \in Workers : task[w] = u
    /\ \A v, w \in Workers : task[v] = task[w] /\ task[v] # NoTask => v = w

\* An outcome that is to be written is known; another attempt is planned only
\* if one is left.
Budget ==
    \A w \in Workers : pc[w] = "mark" =>
        /\ plan[w].status # "none"
        /\ plan[w].status = "retryable_failed" => attempts[task[w]] + 1 < MaxAttempts

\* The pause is the longest that was asked for, and a worker that has left its
\* wait has begun no request in it.
Paused ==
    /\ pause = quiet
    /\ quiet = 0 => \A w \in Workers : begun[w] = 0
    /\ \A w \in Workers : begun[w] <= 1 /\ (pc[w] = "claim" => begun[w] = 0)

\* What is left of a Retry-After that was heard is left of the time that is about
\* to be written, or of the row's time but for the difference between the clocks;
\* and none is left once the row was claimed, unless its hearer died.
Planned(u) ==
    \E w \in Workers : /\ pc[w] = "mark" /\ task[w] = u
                      /\ plan[w].status = "rate_limited" /\ asked[u] <= plan[w].due
Written(u) == status[u] = "retryable_failed" /\ asked[u] <= due[u] + Skew
Owed == \A u \in Urls : asked[u] <= Skew \/ u \in lost \/ Planned(u) \/ Written(u)

IInv == Types /\ Held /\ Budget /\ Paused /\ Owed

-----------------------------------------------------------------------------

LEMMA Constants ==
    /\ BaseDelay \in Nat /\ Poll \in Nat /\ Timeout \in Nat /\ DefaultPause \in Nat
    /\ Fallback \in Nat /\ MaxAttempts \in Nat \ {0} /\ LongestTimer \in Nat
    /\ Skew \in Nat /\ RetryAfters \subseteq Nat \cup {NoHeader} /\ NoTask \notin Urls
  <1>1. ASSUME NEW header \in Headers PROVE ParseRetryAfter(header) \in Nat \cup {NoHeader}
    <2>1. \/ header.kind = "seconds" /\ header.n \in Nat
          \/ header.kind \in {"date", "other"} /\ header.n \in Int
      BY <1>1, FetchingAssumption
    <2>2. CASE header.kind = "seconds"
      BY <2>1, <2>2 DEF ParseRetryAfter
    <2>3. CASE header.kind = "date" /\ header.n > 0
      <3>1. header.n \in Nat
        BY <2>1, <2>3, SMT
      <3> QED
        BY <2>3, <3>1 DEF ParseRetryAfter
    <2>4. CASE header.kind = "date" /\ ~(header.n > 0)
      BY <2>4 DEF ParseRetryAfter
    <2>5. CASE header.kind = "other"
      BY <2>5 DEF ParseRetryAfter
    <2> QED
      BY <2>1, <2>2, <2>3, <2>4, <2>5
  <1> QED
    BY <1>1, FetchingAssumption DEF RetryAfters

LEMMA SetTimeoutType == \A time \in Nat : SetTimeout(time) \in Nat
  BY DEF SetTimeout

LEMMA InitIInv == Init => IInv
  <1> SUFFICES ASSUME Init PROVE IInv
    OBVIOUS
  <1> USE Constants DEF Init
  <1>1. Types
    <2>1. 0 \in 0 .. MaxAttempts - 1
      BY SMT
    <2>2. NoPlan \in Plan
      BY DEF NoPlan, Outcome, Plan
    <2> QED
      BY <2>1, <2>2 DEF Types, Phases, Sleeping, Busy, Status
  <1>2. Held
    BY DEF Held, Busy
  <1>3. Budget /\ Paused
    BY DEF Budget, Paused
  <1>4. Owed
    BY SMT DEF Owed, NoPlan, Outcome
  <1> QED
    BY <1>1, <1>2, <1>3, <1>4 DEF IInv

\* The functions that a step of a worker changes keep their types.
LEMMA TypesStep == IInv /\ [Next]_vars => Types'
  <1> SUFFICES ASSUME IInv, [Next]_vars PROVE Types'
    OBVIOUS
  <1> USE Constants, SetTimeoutType DEF IInv, Types, Held, Plan, NoPlan, Outcome, Phases,
          Sleeping, Busy, Status, Goto, Decide, Longer, Less,
          control, rows, history, vars
  <1>1. ASSUME NEW w \in Workers, Loop(w) PROVE Types'
    <2>1. PICK phase \in Phases, time \in Nat : Goto(w, phase, time)
      <3>1. CASE shutdown
        BY <1>1, <3>1 DEF Loop
      <3>2. CASE ~shutdown
        BY <1>1, <3>2 DEF Loop
      <3> QED
        BY <3>1, <3>2
    <2> QED
      BY <1>1, <2>1 DEF Loop
  <1>2. ASSUME NEW w \in Workers, Wake(w) PROVE Types'
    <2>1. PICK phase \in Phases, time \in Nat : Goto(w, phase, time)
      BY <1>2 DEF Wake
    <2> QED
      BY <1>2, <2>1 DEF Wake
  <1>3. ASSUME NEW w \in Workers, NEW u \in Urls, Claim(w, u) PROVE Types'
    BY <1>3, SMT DEF Claim
  <1>4. ASSUME NEW w \in Workers, ClaimNothing(w) PROVE Types'
    <2>1. PICK phase \in Phases, time \in Nat : Goto(w, phase, time)
      BY <1>4 DEF ClaimNothing
    <2> QED
      BY <1>4, <2>1 DEF ClaimNothing
  <1>5. ASSUME NEW w \in Workers, PollAgain(w) PROVE Types'
    BY <1>5, SMT DEF PollAgain
  <1>6. ASSUME NEW w \in Workers, HeadersArrive(w) PROVE Types'
    BY <1>6, SMT DEF HeadersArrive
  <1>7. ASSUME NEW w \in Workers, Failed(w), Unasked PROVE Types'
    <2>1. CASE GivesUp(attempts[task[w]])
      <3>1. Decide(w, Outcome("settled", 0))
        BY <1>7, <2>1 DEF Failed
      <3> QED
        BY <1>7, <3>1 DEF Unasked
    <2>2. CASE ~GivesUp(attempts[task[w]])
      <3>1. PICK delay \in Backoff(attempts[task[w]]) :
                Decide(w, Outcome("retryable_failed", delay))
        BY <1>7, <2>2 DEF Failed
      <3>2. delay \in Nat
        BY <3>1 DEF Backoff
      <3> QED
        BY <1>7, <3>1, <3>2, SMT DEF Unasked
    <2> QED
      BY <2>1, <2>2
  <1>8. ASSUME NEW w \in Workers, BodySettles(w) PROVE Types'
    BY <1>8, SMT DEF BodySettles, Unasked
  <1>9. ASSUME NEW w \in Workers, NEW header \in RetryAfters, RateLimited(w, header)
        PROVE  Types'
    <2>1. /\ pause' \in Nat /\ quiet' \in Nat /\ RateLimitDelay(header) \in Nat
          /\ asked' \in [Urls -> Nat] /\ lost' \subseteq Urls
      BY <1>9, SMT DEF RateLimited, RateLimitDelay
    <2>2. Decide(w, Outcome("rate_limited", RateLimitDelay(header)))
      BY <1>9 DEF RateLimited
    <2> QED
      BY <2>1, <2>2, SMT
  <1>10. ASSUME NEW w \in Workers, Mark(w) PROVE Types'
    <2>1. task[w] \in Urls /\ plan[w] \in Plan
      BY <1>10 DEF Mark
    <2>2. attempts' \in [Urls -> 0 .. MaxAttempts - 1]
      <3>1. attempts[task[w]] \in 0 .. MaxAttempts - 1
        BY <2>1
      <3>2. plan[w].status = "retryable_failed" => attempts[task[w]] + 1 \in 0 .. MaxAttempts - 1
        BY <1>10, <2>1, <3>1, SMT DEF Mark, Budget
      <3> QED
        BY <1>10, <2>1, <3>1, <3>2 DEF Mark
    <2>3. due' \in [Urls -> Nat]
      BY <1>10, <2>1, SMT DEF Mark
    <2>4. /\ status' \in [Urls -> Status]
          /\ task' \in [Workers -> Urls \cup {NoTask}] /\ plan' \in [Workers -> Plan]
      <3>1. NoPlan \in Plan
        OBVIOUS
      <3>2. plan[w].status \in {"settled", "retryable_failed", "rate_limited"}
        BY <1>10, <2>1 DEF Mark, Budget
      <3> QED
        BY <1>10, <2>1, <3>1, <3>2 DEF Mark
    <2> QED
      BY <1>10, <2>2, <2>3, <2>4, SMT DEF Mark
  <1>11. CASE RequestShutdown
    BY <1>11, SMT DEF RequestShutdown
  <1>12. CASE Restart
    BY <1>12, SMT DEF Restart
  <1>13. CASE Tick
    BY <1>13, SMT DEF Tick
  <1>14. CASE UNCHANGED vars
    BY <1>14, SMT
  <1> QED
    BY <1>1, <1>2, <1>3, <1>4, <1>5, <1>6, <1>7, <1>8, <1>9, <1>10, <1>11, <1>12, <1>13, <1>14
       DEF Next, Advance, Answer, RequestFails, Abort, BodyFails

\* A URL passes from hand to hand through its status alone.
LEMMA HeldStep == IInv /\ Types' /\ [Next]_vars => Held'
  <1> SUFFICES ASSUME IInv, Types', [Next]_vars PROVE Held'
    OBVIOUS
  <1> USE Constants DEF IInv, Types, Held, NoTask, Phases, Sleeping, Busy, Status,
          Goto, control, rows, history, vars
  <1>1. ASSUME NEW w \in Workers, Loop(w) \/ Wake(w) \/ ClaimNothing(w) \/ PollAgain(w)
        PROVE  Held'
    BY <1>1, SMT DEF Loop, Wake, ClaimNothing, PollAgain
  <1>2. ASSUME NEW w \in Workers, NEW u \in Urls, Claim(w, u) PROVE Held'
    BY <1>2, SMT DEF Claim, Claimable
  <1>3. ASSUME NEW w \in Workers, HeadersArrive(w) PROVE Held'
    BY <1>3, SMT DEF HeadersArrive
  <1>4. ASSUME NEW w \in Workers, pc[w] \in {"headers", "body"}, NEW p, Decide(w, p)
        PROVE  Held'
    BY <1>4, SMT DEF Decide
  <1>5. ASSUME NEW w \in Workers, Mark(w) PROVE Held'
    BY <1>5, SMT DEF Mark, Plan
  <1>6. CASE Restart
    BY <1>6, SMT DEF Restart
  <1>7. CASE RequestShutdown \/ Tick \/ UNCHANGED vars
    BY <1>7, SMT DEF RequestShutdown, Tick
  <1> QED
    BY <1>1, <1>2, <1>3, <1>4, <1>5, <1>6, <1>7
       DEF Next, Advance, Answer, RequestFails, Abort, BodyFails, Failed, BodySettles,
           RateLimited

LEMMA BudgetStep == IInv /\ Types' /\ Held' /\ [Next]_vars => Budget'
  <1> SUFFICES ASSUME IInv, Types', Held', [Next]_vars PROVE Budget'
    OBVIOUS
  <1> USE Constants DEF IInv, Types, Held, Budget, Plan, NoPlan, Outcome, NoTask, Phases,
          Sleeping, Busy, Goto, control, rows, history, vars
  <1>1. ASSUME NEW w \in Workers, Loop(w) \/ Wake(w) \/ ClaimNothing(w) \/ PollAgain(w)
        PROVE  Budget'
    BY <1>1, SMT DEF Loop, Wake, ClaimNothing, PollAgain
  <1>2. ASSUME NEW w \in Workers, NEW u \in Urls, Claim(w, u) PROVE Budget'
    BY <1>2, SMT DEF Claim
  <1>3. ASSUME NEW w \in Workers, HeadersArrive(w) PROVE Budget'
    BY <1>3, SMT DEF HeadersArrive
  <1>4. ASSUME NEW w \in Workers, NEW to, NEW time,
               Decide(w, Outcome(to, time)), to # "none",
               to = "retryable_failed" => attempts[task[w]] + 1 < MaxAttempts
        PROVE  Budget'
    BY <1>4, SMT DEF Decide
  <1>5. ASSUME NEW w \in Workers, Failed(w), pc[w] \in {"headers", "body"} PROVE Budget'
    <2>1. attempts[task[w]] \in 0 .. MaxAttempts - 1
      BY <1>5
    <2>2. CASE GivesUp(attempts[task[w]])
      <3>1. Decide(w, Outcome("settled", 0))
        BY <1>5, <2>2 DEF Failed
      <3> QED
        BY <1>4, <3>1
    <2>3. CASE ~GivesUp(attempts[task[w]])
      <3>1. PICK delay \in Backoff(attempts[task[w]]) :
                Decide(w, Outcome("retryable_failed", delay))
        BY <1>5, <2>3 DEF Failed
      <3>2. attempts[task[w]] + 1 < MaxAttempts
        BY <2>1, <2>3, SMT DEF GivesUp
      <3> QED
        BY <1>4, <3>1, <3>2
    <2> QED
      BY <2>2, <2>3
  <1>6. ASSUME NEW w \in Workers, Mark(w) PROVE Budget'
    BY <1>6, SMT DEF Mark
  <1>7. CASE Restart
    BY <1>7, SMT DEF Restart
  <1>8. CASE RequestShutdown \/ UNCHANGED vars
    BY <1>8, SMT DEF RequestShutdown
  <1>9. CASE Tick
    BY <1>9, SMT DEF Tick
  <1>10. ASSUME NEW w \in Workers, BodySettles(w) PROVE Budget'
    BY <1>4, <1>10 DEF BodySettles
  <1>11. ASSUME NEW w \in Workers, NEW header \in RetryAfters, RateLimited(w, header)
         PROVE  Budget'
    BY <1>4, <1>11 DEF RateLimited
  <1> QED
    BY <1>1, <1>2, <1>3, <1>5, <1>6, <1>7, <1>8, <1>9, <1>10, <1>11
       DEF Next, Advance, Answer, RequestFails, Abort, BodyFails

LEMMA PausedStep == IInv /\ Types' /\ [Next]_vars => Paused'
  <1> SUFFICES ASSUME IInv, Types', [Next]_vars PROVE Paused'
    OBVIOUS
  <1> USE Constants DEF IInv, Types, Paused, Phases, Sleeping, Busy, Goto,
          control, rows, history, vars
  <1>1. ASSUME NEW w \in Workers, Loop(w) \/ ClaimNothing(w) \/ PollAgain(w)
        PROVE  Paused'
    BY <1>1, SMT DEF Loop, ClaimNothing, PollAgain
  <1>2. ASSUME NEW w \in Workers, Wake(w) PROVE Paused'
    BY <1>2, SMT DEF Wake
  <1>3. ASSUME NEW w \in Workers, NEW u \in Urls, Claim(w, u) PROVE Paused'
    BY <1>3, SMT DEF Claim
  <1>4. ASSUME NEW w \in Workers, HeadersArrive(w) \/ Mark(w) PROVE Paused'
    BY <1>4, SMT DEF HeadersArrive, Mark
  <1>5. ASSUME NEW w \in Workers, NEW p, Decide(w, p), Unasked PROVE Paused'
    BY <1>5, SMT DEF Decide, Unasked
  <1>6. ASSUME NEW w \in Workers, NEW header \in RetryAfters, RateLimited(w, header)
        PROVE  Paused'
    BY <1>6, SMT DEF RateLimited, Decide, Longer
  <1>7. CASE Restart
    BY <1>7, SMT DEF Restart
  <1>8. CASE RequestShutdown \/ UNCHANGED vars
    BY <1>8, SMT DEF RequestShutdown
  <1>9. CASE Tick
    BY <1>9, SMT DEF Tick, Less
  <1> QED
    BY <1>1, <1>2, <1>3, <1>4, <1>5, <1>6, <1>7, <1>8, <1>9
       DEF Next, Advance, Answer, RequestFails, Abort, BodyFails, Failed, BodySettles

\* A step that changes nothing of a URL, or leaves it to the same plan.
LEMMA OwedKept ==
  ASSUME NEW u \in Urls, Types,
         asked[u] <= Skew \/ u \in lost \/ Planned(u) \/ Written(u),
         asked'[u] = asked[u], u \in lost => u \in lost',
         Planned(u) => Planned(u)',
         Written(u) => status'[u] = status[u] /\ due'[u] = due[u]
  PROVE  (asked[u] <= Skew \/ u \in lost \/ Planned(u) \/ Written(u))'
  BY DEF Written

\* The plan of a worker that is not at the mark is nobody's.
LEMMA PlannedKept ==
  ASSUME NEW u \in Urls, NEW v \in Workers, Types, Planned(u),
         asked'[u] = asked[u], pc[v] # "mark",
         \A w \in Workers : w # v => /\ pc'[w] = pc[w] /\ task'[w] = task[w]
                                    /\ plan'[w] = plan[w]
  PROVE  Planned(u)'
  BY DEF Planned

LEMMA OwedStep == IInv /\ Types' /\ [Next]_vars => Owed'
  <1> SUFFICES ASSUME IInv, Types', [Next]_vars, NEW u \in Urls
               PROVE  (asked[u] <= Skew \/ u \in lost \/ Planned(u) \/ Written(u))'
    BY DEF Owed
  <1> DEFINE Fine == asked[u] <= Skew \/ u \in lost \/ Planned(u) \/ Written(u)
  <1>a. Types /\ Fine
    BY DEF IInv, Owed
  <1> USE Constants DEF IInv, Types
  <1>1. ASSUME NEW w \in Workers, Loop(w) \/ Wake(w) \/ ClaimNothing(w) \/ PollAgain(w)
                                 \/ HeadersArrive(w)
        PROVE  Fine'
    <2>1. /\ pc[w] # "mark" /\ UNCHANGED <<task, status, due, plan, asked, lost>>
          /\ \A v \in Workers : v # w => pc'[v] = pc[v]
      BY <1>1 DEF Loop, Wake, ClaimNothing, PollAgain, HeadersArrive, Goto, rows, history
    <2> QED
      BY <1>a, <2>1, OwedKept, PlannedKept
  <1>2. ASSUME NEW w \in Workers, NEW x \in Urls, Claim(w, x) PROVE Fine'
    <2>1. /\ pc[w] # "mark" /\ UNCHANGED <<due, plan, asked, lost>>
          /\ status' = [status EXCEPT ![x] = "in_progress"]
          /\ \A v \in Workers : v # w => pc'[v] = pc[v] /\ task'[v] = task[v]
      BY <1>2 DEF Claim, Goto
    <2>2. CASE u = x /\ Written(u)
      <3>1. due[u] = 0
        BY <1>2, <2>2 DEF Claim, Claimable, Written
      <3> QED
        BY <2>1, <2>2, <3>1, SMT DEF Written
    <2>3. CASE u # x \/ ~Written(u)
      BY <1>a, <2>1, <2>3, OwedKept, PlannedKept
    <2> QED
      BY <2>2, <2>3
  <1>3. ASSUME NEW w \in Workers, pc[w] # "mark", NEW p, Decide(w, p), UNCHANGED <<asked, lost>>
        PROVE  Fine'
    <2>1. /\ UNCHANGED <<task, status, due>>
          /\ \A v \in Workers : v # w => pc'[v] = pc[v] /\ plan'[v] = plan[v]
      BY <1>3 DEF Decide, Goto, rows
    <2> QED
      BY <1>a, <1>3, <2>1, OwedKept, PlannedKept
  <1>4. ASSUME NEW w \in Workers, NEW header \in RetryAfters, RateLimited(w, header)
        PROVE  Fine'
    <2>1. pc[w] = "body" /\ Decide(w, Outcome("rate_limited", RateLimitDelay(header)))
      BY <1>4 DEF RateLimited
    <2>2. CASE header = NoHeader
      BY <1>3, <1>4, <2>1, <2>2 DEF RateLimited
    <2>3. CASE header # NoHeader
      <3>1. /\ asked' = [asked EXCEPT ![task[w]] = header] /\ lost' = lost \ {task[w]}
            /\ header \in Nat
        BY <1>4, <2>3 DEF RateLimited
      <3>2. /\ UNCHANGED <<task, status, due>> /\ pc' = [pc EXCEPT ![w] = "mark"]
            /\ plan' = [plan EXCEPT ![w] = Outcome("rate_limited", header)]
        BY <2>1, <2>3 DEF Decide, Goto, rows, RateLimitDelay
      <3>3. CASE task[w] = u
        <4>1. plan'[w].status = "rate_limited" /\ plan'[w].due = header
          BY <3>2 DEF Outcome
        <4>2. pc'[w] = "mark" /\ task'[w] = u /\ asked'[u] = header
          BY <3>1, <3>2, <3>3
        <4> QED
          BY <3>1, <4>1, <4>2 DEF Planned
      <3>4. CASE task[w] # u
        <4>1. asked'[u] = asked[u] /\ (u \in lost => u \in lost')
          BY <3>1, <3>4
        <4> QED
          BY <1>a, <2>1, <3>2, <4>1, OwedKept, PlannedKept
      <3> QED
        BY <3>3, <3>4
    <2> QED
      BY <2>2, <2>3
  <1>5. ASSUME NEW w \in Workers, Mark(w) PROVE Fine'
    <2>1. task[w] \in Urls /\ plan[w] \in Plan /\ UNCHANGED <<asked, lost>>
      BY <1>5 DEF Mark, Held, Busy, history
    <2>2. CASE task[w] # u
      <3>1. due'[u] = due[u] /\ status'[u] = status[u]
        BY <1>5, <2>2 DEF Mark
      <3>2. \A v \in Workers : v # w => /\ pc'[v] = pc[v] /\ task'[v] = task[v]
                                       /\ plan'[v] = plan[v]
        BY <1>5 DEF Mark, Goto
      <3>3. Planned(u) => Planned(u)'
        BY <2>1, <2>2, <3>2 DEF Planned
      <3> QED
        BY <1>a, <2>1, <3>1, <3>3, OwedKept
    <2>3. CASE task[w] = u
      <3>1. status[u] = "in_progress"
        BY <2>1, <2>3 DEF Held
      <3>2. ASSUME Planned(u) PROVE Fine'
        <4>1. plan[w].status = "rate_limited" /\ asked[u] <= plan[w].due
          BY <2>3, <3>2 DEF Planned, Held
        <4>2. status'[u] = "retryable_failed"
          BY <1>5, <2>3, <4>1 DEF Mark
        <4>3. PICK ahead \in -Skew .. Skew :
                  due' = [due EXCEPT ![u] = Longer(0, plan[w].due + ahead)]
          BY <1>5, <2>3, <4>1 DEF Mark
        <4>4. due'[u] + Skew >= plan[w].due
          BY <2>1, <4>3, SMT DEF Longer, Plan
        <4>5. plan[w].due \in Nat
          BY <2>1 DEF Plan
        <4> QED
          BY <2>1, <4>1, <4>2, <4>4, <4>5, SMT DEF Written
      <3> QED
        BY <1>a, <2>1, <3>1, <3>2 DEF Written
    <2> QED
      BY <2>2, <2>3
  <1>6. CASE Restart
    <2>1. /\ UNCHANGED <<due, asked>> /\ lost \subseteq lost'
          /\ status[u] # "in_progress" => status'[u] = status[u]
      BY <1>6 DEF Restart
    <2>2. Planned(u) => u \in lost'
      BY <1>6 DEF Restart, Planned
    <2> QED
      BY <1>a, <2>1, <2>2 DEF Written
  <1>7. CASE RequestShutdown \/ UNCHANGED vars
    <2>1. UNCHANGED <<pc, task, status, due, plan, asked, lost>>
      BY <1>7 DEF RequestShutdown, vars, rows, history
    <2> QED
      BY <1>a, <2>1 DEF Planned, Written
  <1>8. CASE Tick
    <2>1. /\ UNCHANGED <<pc, task, status>> /\ asked'[u] = Less(asked[u])
          /\ due'[u] = Less(due[u]) /\ lost' = {x \in lost : asked[x] > 1}
      BY <1>8 DEF Tick
    <2>2. asked[u] \in Nat /\ due[u] \in Nat
      OBVIOUS
    <2>3. CASE asked[u] <= Skew \/ u \in lost \/ Written(u)
      BY <2>1, <2>2, <2>3, SMT DEF Less, Written
    <2>4. CASE Planned(u)
      <3>1. PICK w \in Workers : /\ pc[w] = "mark" /\ task[w] = u
                                /\ plan[w].status = "rate_limited" /\ asked[u] <= plan[w].due
        BY <2>4 DEF Planned
      <3>2. plan'[w].status = plan[w].status /\ plan'[w].due = Less(plan[w].due)
        BY <1>8 DEF Tick, Outcome
      <3>3. plan[w].due \in Nat
        BY DEF Plan
      <3>4. Less(asked[u]) <= Less(plan[w].due)
        BY <2>2, <3>1, <3>3, SMT DEF Less
      <3> QED
        BY <2>1, <3>1, <3>2, <3>4 DEF Planned
    <2> QED
      BY <1>a, <2>3, <2>4
  <1>9. ASSUME NEW w \in Workers, Failed(w), Unasked, pc[w] # "mark" PROVE Fine'
    <2>1. PICK p : Decide(w, p)
      BY <1>9 DEF Failed
    <2> QED
      BY <1>3, <1>9, <2>1 DEF Unasked
  <1>10. ASSUME NEW w \in Workers, BodySettles(w) PROVE Fine'
    BY <1>3, <1>10 DEF BodySettles, Unasked
  <1> QED
    BY <1>1, <1>2, <1>4, <1>5, <1>6, <1>7, <1>8, <1>9, <1>10
       DEF Next, Advance, Answer, RequestFails, Abort, BodyFails

LEMMA StepIInv == IInv /\ [Next]_vars => IInv'
  BY TypesStep, HeldStep, BudgetStep, PausedStep, OwedStep DEF IInv

THEOREM Invariance == Spec => []IInv
  BY InitIInv, StepIInv, PTL DEF Spec

-----------------------------------------------------------------------------

\* Every reachable state of the worker loop is well typed, and a URL in progress
\* has a worker, for any workers, URLs and times.
THEOREM TypeTheorem == Spec => []TypeOK
  <1>1. IInv => TypeOK
    BY DEF IInv, Types, Held, TypeOK
  <1> QED
    BY <1>1, Invariance, PTL

\* However many workers and however long the pauses: a worker begins at most one
\* request in a pause.
THEOREM OvershootTheorem == Spec => []PauseOvershoot
  <1>1. IInv => PauseOvershoot
    BY DEF IInv, Paused, PauseOvershoot
  <1> QED
    BY <1>1, Invariance, PTL

\* A URL is not requested again before the Retry-After last heard for it is over,
\* for any delays, workers and restarts, but for the difference between the clocks
\* and unless the process that heard it died before it had written it.
THEOREM RetryAfterTheorem == Spec => RetryAfterHonoured
  <1> DEFINE Honoured ==
         \A u \in Urls : status[u] # "in_progress" /\ status'[u] = "in_progress"
                         => asked[u] <= Skew \/ u \in lost
  <1>1. ASSUME IInv, [Next]_vars, NEW u \in Urls,
               status[u] # "in_progress", status'[u] = "in_progress"
        PROVE  asked[u] <= Skew \/ u \in lost
    <2>1. ASSUME NEW w \in Workers, Mark(w) PROVE FALSE
      BY <1>1, <2>1, SMT DEF Mark, IInv, Types, Plan
    <2>2. PICK w \in Workers : Claim(w, u)
      BY <1>1, <2>1, SMT
         DEF Next, Advance, Answer, Loop, Wake, PollAgain, Claim, ClaimNothing, Abort,
             HeadersArrive, RequestFails, BodyFails, BodySettles, RateLimited, Failed,
             Decide, RequestShutdown, Restart, Tick, Goto, rows, control, history, vars,
             IInv, Types
    <2> QED
      <3>1. ~Planned(u)
        BY <1>1 DEF Planned, IInv, Held
      <3>2. Written(u) => due[u] = 0
        BY <2>2 DEF Written, Claim, Claimable
      <3> QED
        BY <1>1, <3>1, <3>2, Constants, SMT DEF IInv, Types, Owed, Written
  <1> QED
    <2>1. IInv /\ [Next]_vars => [Honoured]_vars
      BY <1>1
    <2> QED
      BY <2>1, Invariance, PTL DEF Spec, RetryAfterHonoured
=============================================================================
