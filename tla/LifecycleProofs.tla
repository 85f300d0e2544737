-------------------------- MODULE LifecycleProofs ---------------------------
(***************************************************************************)
(* What holds of any number of processes on one run, for any times with    *)
(* StaleAfter as large as the assumption asks: the types; no run is taken  *)
(* over from a process that keeps its timers; a run that stopped at a      *)
(* limit is resumed with more room.  And, when processes are not held up   *)
(* and no answer is lost: one process works on a run, its pages are its    *)
(* own, and a completed run stays completed.                               *)
(***************************************************************************)
EXTENDS Lifecycle, TLAPS

LEMMA Constants ==
    /\ Interval \in Nat /\ MaxLate \in Nat /\ Delay \in Nat /\ Skew \in Nat
    /\ StaleAfter \in Nat /\ StaleAfter >= Interval + MaxLate + 3 * Delay + Skew
    /\ AgeCap \in Nat
    /\ NoLimit \notin Int
  BY LifecycleAssumption, NoLimitAssumption, SMT DEF AgeCap

-----------------------------------------------------------------------------
(* The limits.                                                             *)

\* A parser returns limits.
LEMMA ParseType ==
    ASSUME NEW name, NEW a \in Argument
    PROVE  Parse(name, a) \subseteq Limit
  <1>1. NumberOf(a) \subseteq Int
    BY DEF NumberOf, Argument
  <1>2. NoLimit \in Limit /\ Int \subseteq Limit
    BY DEF Limit
  <1> QED
    BY <1>1, <1>2 DEF Parse, ParseMaxUrls, ParseMaxDepth, ParseUnlimitedOrPositive

\* So does the environment.
LEMMA ConfiguredType ==
    ASSUME NEW env \in Environments, NEW name \in LimitName
    PROVE  Configured(env, name) \subseteq Limit
  <1>1. ASSUME NEW other \in DOMAIN env PROVE NumberOf(env[other]) \subseteq Int
    BY <1>1, LifecycleAssumption DEF NumberOf, Argument
  <1>2. Default[name] \in Int /\ Default["maxUrls"] \in Int
    BY DEF Default, LimitName
  <1>3. NoLimit \in Limit /\ Int \subseteq Limit
    BY DEF Limit
  <1>4. ReadNumber(env, name) \subseteq Limit
    BY <1>1, <1>2, <1>3 DEF ReadNumber
  <1>5. ReadMaxUrls(env) \subseteq Limit
    BY <1>1, <1>2, <1>3 DEF ReadMaxUrls
  <1> QED
    BY <1>4, <1>5 DEF Configured

LEMMA OptionValueType ==
    ASSUME NEW env \in Environments, NEW cl \in CommandLines, NEW name \in LimitName
    PROVE  OptionValue(env, cl, name) \subseteq Limit
  <1>1. CASE name \in DOMAIN cl
    BY <1>1, LifecycleAssumption, ParseType DEF OptionValue
  <1>2. CASE name \notin DOMAIN cl
    BY <1>2, ConfiguredType DEF OptionValue
  <1> QED
    BY <1>1, <1>2

LEMMA CreateLimitsType ==
    ASSUME NEW env \in Environments, NEW cl \in CommandLines
    PROVE  CreateLimits(env, cl) \subseteq [LimitName -> Limit]
  <1>1. CASE \E name \in LimitName : Configured(env, name) = {} \/ OptionValue(env, cl, name) = {}
    BY <1>1 DEF CreateLimits
  <1>2. CASE \A name \in LimitName : OptionValue(env, cl, name) # {}
    <2>1. ASSUME NEW name \in LimitName
          PROVE  (CHOOSE v \in OptionValue(env, cl, name) : TRUE) \in Limit
      BY <1>2, <2>1, OptionValueType
    <2> QED
      BY <2>1 DEF CreateLimits
  <1> QED
    BY <1>1, <1>2

\* An override changes the limits into limits.
LEMMA UpdatedType ==
    ASSUME NEW old \in [LimitName -> Limit], NEW cl \in CommandLines \cup {NoLine},
           Accepted(cl)
    PROVE  Updated(old, cl) \in [LimitName -> Limit]
  <1>1. ASSUME NEW name \in LimitName, name \in DOMAIN cl PROVE Given(cl, name) \in Limit
    <2>1. cl \in CommandLines
      BY <1>1 DEF NoLine
    <2>2. Parse(name, cl[name]) \subseteq Limit
      BY <1>1, <2>1, LifecycleAssumption, ParseType
    <2> QED
      BY <1>1, <2>2 DEF Accepted, Given
  <1> QED
    BY <1>1 DEF Updated

-----------------------------------------------------------------------------
(* The invariant.                                                          *)

Types ==
    /\ TypeOK
    /\ \A p \in Procs : Accepted(line[p])
    /\ \A p \in Procs : pc[p] = "marking" => seen[p].status \notin Completed \cup {"none"}
    /\ \A p \in Procs : pc[p] = "finalizing" => verdict[p] \notin {"none", "running"}

\* How old the row may be when a process that keeps its timers takes its next
\* step: it was fresh when the process won the run, and was touched since.
Reach(phase, lost) ==
    IF phase \in {"seeding", "recovering"} THEN Delay
    ELSE IF phase = "live" THEN Delay + Interval + lost
    ELSE IF phase = "finalizing" THEN 2 * Delay + Interval + MaxLate
    ELSE 3 * Delay + Interval + MaxLate

Timely ==
    /\ \A p \in Procs : late[p] <= MaxLate
    /\ \A p \in Procs : Owns(p) => timer[p] <= IF pc[p] = "live" THEN Interval ELSE Delay
    /\ status = "running" =>
           \A p \in Procs : Owns(p) /\ ~tardy[p] => age + timer[p] <= Reach(pc[p], late[p])

\* A takeover looks for a row that is older than that.
Patient ==
    \A p \in Procs : pc[p] = "marking" /\ seen[p].status = "running"
        => cut[p] >= StaleAfter - Skew

\* A process that is about to resume a run that stopped at a limit was given an
\* increase over the limits that it read.
Raising ==
    \A p \in Procs : pc[p] = "marking" /\ seen[p].status = "limit_reached"
        => HasExplicitLimitIncrease(seen[p].limits, line[p])

IInv == Types /\ Timely /\ Patient /\ Raising

-----------------------------------------------------------------------------

LEMMA InitIInv == Init => IInv
  <1> SUFFICES ASSUME Init PROVE IInv
    OBVIOUS
  <1> USE Constants DEF Init, NoLine, NoLimits, NotSeen
  <1>1. NoLimits \in [LimitName -> Limit]
    BY DEF Limit
  <1>2. Types
    BY <1>1 DEF Types, TypeOK, RunStatus, Completed, Phases, Working, Accepted
  <1>3. Timely /\ Patient
    BY SMT DEF Timely, Patient, Owns, Working
  <1>4. Raising
    BY DEF Raising
  <1> QED
    BY <1>2, <1>3, <1>4 DEF IInv

\* Every step keeps the types.
LEMMA TypesStep == IInv /\ [Next]_vars => Types'
  <1> SUFFICES ASSUME IInv, [Next]_vars PROVE Types'
    OBVIOUS
  <1> USE Constants DEF IInv, Types, TypeOK, RunStatus, Completed, Phases, Working,
          Enter, ForgetRead, ForgetWork, KeepRead, KeepWork, Exit, StartPool, After,
          row, session, vars
  <1>1. NoLimits \in [LimitName -> Limit] /\ NotSeen.status = "none" /\ Accepted(NoLine)
        /\ NotSeen \in [status : RunStatus, limits : [LimitName -> Limit]]
    BY DEF NoLimits, NotSeen, NoLine, Limit, Accepted
  <1>2. ASSUME NEW p \in Procs, NEW env \in Environments, NEW cl \in CommandLines,
               NEW r \in Reply, Create(p, env, cl, r)
        PROVE  Types'
    <2>1. limits' \in [LimitName -> Limit]
      BY <1>2, CreateLimitsType DEF Create
    <2>2. PICK phase \in {"seeding", "idle"} : Enter(p, phase, Delay)
      BY <1>2 DEF Create
    <2> QED
      BY <1>2, <2>1, <2>2, SMT DEF Create
  <1>3. ASSUME NEW p \in Procs, NEW cl \in CommandLines, Read(p, cl) PROVE Types'
    <2>1. cut' \in [Procs -> Nat]
      <3>1. CASE status = "running"
        <4>1. PICK ahead \in -Skew .. Skew : cut' = [cut EXCEPT ![p] = StaleAfter - ahead]
          BY <1>3, <3>1 DEF Read
        <4>2. StaleAfter - ahead \in Nat
          BY <4>1, SMT
        <4> QED
          BY <4>1, <4>2
      <3> QED
        BY <1>3, <3>1 DEF Read
    <2>2. [status |-> status, limits |-> limits]
              \in [status : RunStatus, limits : [LimitName -> Limit]]
      OBVIOUS
    <2>3. status \in {"running", "paused", "failed", "limit_reached"} /\ Accepted(cl)
      BY <1>3 DEF Read
    <2>4. /\ seen' \in [Procs -> [status : RunStatus, limits : [LimitName -> Limit]]]
          /\ line' \in [Procs -> CommandLines \cup {NoLine}]
          /\ Enter(p, "marking", Delay) /\ KeepWork /\ UNCHANGED row
      BY <1>3, <2>2 DEF Read
    <2>5. \A q \in Procs : Accepted(line'[q])
      BY <1>3, <2>3 DEF Read
    <2>6. \A q \in Procs : pc'[q] = "marking"
              => seen'[q].status \notin Completed \cup {"none"}
      BY <1>3, <2>3 DEF Read
    <2> QED
      BY <2>1, <2>4, <2>5, <2>6
  <1>4. ASSUME NEW p \in Procs, Claim(p) PROVE Types'
    BY <1>4 DEF Claim
  <1>5. ASSUME NEW p \in Procs, NEW outcome \in {"done", "queued"}, Settle(p, outcome)
        PROVE  Types'
    BY <1>5, SMT DEF Settle
  <1>6. ASSUME NEW p \in Procs, NEW v \in Verdicts, Leave(p, v) PROVE Types'
    <2>1. v \in RunStatus \ {"none", "running"}
      BY DEF Verdicts
    <2> QED
      BY <1>6, <2>1 DEF Leave
  <1>7. ASSUME NEW p \in Procs, Exit(p) PROVE
          /\ pc' \in [Procs -> Phases] /\ timer' \in [Procs -> Nat]
          /\ seen' \in [Procs -> [status : RunStatus, limits : [LimitName -> Limit]]]
          /\ line' \in [Procs -> CommandLines \cup {NoLine}]
          /\ cut' \in [Procs -> Nat] /\ working' \in [Procs -> BOOLEAN]
          /\ verdict' \in [Procs -> RunStatus] /\ late' \in [Procs -> Nat]
          /\ tardy' \in [Procs -> BOOLEAN]
          /\ \A q \in Procs : Accepted(line'[q])
          /\ \A q \in Procs : pc'[q] = "marking" => seen'[q].status \notin Completed \cup {"none"}
          /\ \A q \in Procs : pc'[q] = "finalizing" => verdict'[q] \notin {"none", "running"}
    BY <1>1, <1>7
  <1>start. ASSUME NEW p \in Procs, NEW phase \in Phases \ {"marking", "finalizing"},
                NEW time \in Nat, Enter(p, phase, time), KeepRead, KeepWork,
                status' \in RunStatus, limits' = limits, age' \in 0 .. AgeCap,
                page' \in {"absent", "queued", "in_progress", "done"}
         PROVE  Types'
    BY <1>start
  <1>8. ASSUME NEW p \in Procs, NEW r \in Reply, Seed(p, r) PROVE Types'
    <2>1. page' \in {"absent", "queued", "in_progress", "done"} /\ age' \in 0 .. AgeCap
      BY <1>8, SMT DEF Seed
    <2>2. CASE r = "ok"
      BY <1>8, <1>start, <2>1, <2>2 DEF Seed
    <2>3. CASE r # "ok"
      BY <1>7, <1>8, <2>1, <2>3 DEF Seed
    <2> QED
      BY <2>2, <2>3
  <1>9. ASSUME NEW p \in Procs, NEW r \in Reply, MarkRunning(p, r) PROVE Types'
    <2>1. limits' \in [LimitName -> Limit]
      <3>1. line[p] \in CommandLines \cup {NoLine} /\ Accepted(line[p])
        OBVIOUS
      <3>2. Updated(limits, line[p]) \in [LimitName -> Limit]
        BY <3>1, UpdatedType
      <3>3. limits' = limits \/ limits' = Updated(limits, line[p])
        BY <1>9 DEF MarkRunning
      <3> QED
        BY <3>2, <3>3
    <2>2. status' \in RunStatus /\ age' \in 0 .. AgeCap /\ page' = page
      BY <1>9, SMT DEF MarkRunning
    <2>3. CASE Matches(p) /\ r = "ok"
      <3>1. Enter(p, "recovering", Delay) /\ ForgetRead(p) /\ KeepWork
        BY <1>9, <2>3 DEF MarkRunning
      <3> QED
        BY <1>1, <2>1, <2>2, <3>1
    <2>4. CASE ~(Matches(p) /\ r = "ok")
      BY <1>7, <1>9, <2>1, <2>2, <2>4 DEF MarkRunning
    <2> QED
      BY <2>3, <2>4
  <1>10. ASSUME NEW p \in Procs, NEW r \in Reply, Recover(p, r) PROVE Types'
    <2>1. page' \in {"absent", "queued", "in_progress", "done"}
      BY <1>10 DEF Recover
    <2>2. CASE r = "ok"
      BY <1>10, <1>start, <2>1, <2>2 DEF Recover
    <2>3. CASE r # "ok"
      BY <1>7, <1>10, <2>1, <2>3 DEF Recover
    <2> QED
      BY <2>2, <2>3
  <1>11. ASSUME NEW p \in Procs, NEW r \in Reply, Heartbeat(p, r) PROVE Types'
    <2>1. late' \in [Procs -> Nat] /\ age' \in 0 .. AgeCap
      BY <1>11, SMT DEF Heartbeat
    <2> QED
      BY <1>11, <2>1, SMT DEF Heartbeat
  <1>12. ASSUME NEW p \in Procs, NEW r \in Reply, FinishRun(p, r) PROVE Types'
    <2>1. status' \in RunStatus /\ age' \in 0 .. AgeCap
      BY <1>12, SMT DEF FinishRun
    <2>2. CASE r = "ok"
      BY <1>7, <1>12, <2>1, <2>2 DEF FinishRun
    <2>3. CASE r # "ok"
      BY <1>12, <1>start, <2>1, <2>3 DEF FinishRun
    <2> QED
      BY <2>2, <2>3
  <1>13. ASSUME NEW p \in Procs, NEW r \in Reply, Fallback(p, r) PROVE Types'
    <2>1. status' \in RunStatus /\ age' \in 0 .. AgeCap
      BY <1>13, SMT DEF Fallback
    <2> QED
      BY <1>7, <1>13, <2>1 DEF Fallback
  <1>14. ASSUME NEW p \in Procs, Crash(p) PROVE Types'
    BY <1>7, <1>14 DEF Crash
  <1>15. ASSUME NEW held \in SUBSET Procs, Tick(held) PROVE Types'
    <2>1. age' \in 0 .. AgeCap
      BY <1>15, SMT DEF Tick
    <2>2. timer' \in [Procs -> Nat] /\ cut' \in [Procs -> Nat]
      BY <1>15, SMT DEF Tick
    <2>3. tardy' \in [Procs -> BOOLEAN]
      BY <1>15 DEF Tick
    <2> QED
      BY <1>15, <2>1, <2>2, <2>3 DEF Tick
  <1>16. CASE UNCHANGED vars
    BY <1>16
  <1> QED
    BY <1>2, <1>3, <1>4, <1>5, <1>6, <1>8, <1>9, <1>10, <1>11, <1>12, <1>13, <1>14, <1>15, <1>16
       DEF Next, ProcStep

\* Every step leaves a process that keeps its timers within its reach.
LEMMA TimelyStep == IInv /\ Types' /\ [Next]_vars => Timely'
  <1> SUFFICES ASSUME IInv, Types', [Next]_vars PROVE Timely'
    OBVIOUS
  <1> USE Constants DEF IInv, Types, TypeOK, Timely, Reach, Owns, Working, Phases,
          Enter, ForgetWork, KeepWork, Exit, StartPool, After, row, session, vars
  <1>1. ASSUME NEW p \in Procs, Exit(p), status' = "running" => status = "running" /\ age' <= age
        PROVE  Timely'
    BY <1>1, SMT
  <1>start. ASSUME NEW p \in Procs, pc[p] \in {"seeding", "recovering"}, StartPool(p),
                status' = status, age' = age \/ age' = 0
         PROVE  Timely'
    <2>1. age \in Nat /\ age' \in Nat
      BY SMT
    <2>2. ASSUME NEW q \in Procs, Owns(q)' PROVE
             /\ timer'[q] <= IF pc'[q] = "live" THEN Interval ELSE Delay
             /\ status = "running" /\ ~tardy[q] => age' + timer'[q] <= Reach(pc'[q], late[q])
      <3>1. CASE q = p
        BY <1>start, <2>1, <2>2, <3>1, SMT
      <3>2. CASE q # p
        BY <1>start, <2>1, <2>2, <3>2, SMT
      <3> QED
        BY <3>1, <3>2
    <2> QED
      BY <1>start, <2>2
  <1>2. ASSUME NEW p \in Procs, NEW env \in Environments, NEW cl \in CommandLines,
               NEW r \in Reply, Create(p, env, cl, r)
        PROVE  Timely'
    <2>1. PICK phase \in {"seeding", "idle"} : Enter(p, phase, Delay)
      BY <1>2 DEF Create
    <2> QED
      BY <1>2, <2>1, SMT DEF Create
  <1>3. ASSUME NEW p \in Procs, NEW cl \in CommandLines, Read(p, cl) PROVE Timely'
    BY <1>3, SMT DEF Read
  <1>4. ASSUME NEW p \in Procs, Claim(p) PROVE Timely'
    BY <1>4, SMT DEF Claim
  <1>5. ASSUME NEW p \in Procs, NEW outcome \in {"done", "queued"}, Settle(p, outcome)
        PROVE  Timely'
    BY <1>5, SMT DEF Settle
  <1>6. ASSUME NEW p \in Procs, NEW v \in Verdicts, Leave(p, v) PROVE Timely'
    BY <1>6, SMT DEF Leave
  <1>7. ASSUME NEW p \in Procs, NEW r \in Reply, Seed(p, r) PROVE Timely'
    <2>1. status' = status /\ (age' = age \/ age' = 0)
      BY <1>7 DEF Seed
    <2>2. CASE r = "ok"
      <3>1. StartPool(p) /\ pc[p] = "seeding"
        BY <1>7, <2>2 DEF Seed
      <3> QED
        BY <1>start, <2>1, <3>1
    <2>3. CASE r # "ok"
      <3>1. Exit(p) /\ age' <= age
        BY <1>7, <2>1, <2>3, SMT DEF Seed
      <3> QED
        BY <1>1, <2>1, <3>1
    <2> QED
      BY <2>2, <2>3
  <1>8. ASSUME NEW p \in Procs, NEW r \in Reply, MarkRunning(p, r) PROVE Timely'
    <2>1. CASE Matches(p) /\ r # "failed"
      <3>1. age' = 0
        BY <1>8, <2>1 DEF MarkRunning
      <3>2. CASE r = "ok"
        <4>1. Enter(p, "recovering", Delay) /\ KeepWork
          BY <1>8, <2>1, <3>2 DEF MarkRunning
        <4> QED
          BY <3>1, <4>1, SMT
      <3>3. CASE r # "ok"
        <4>1. Exit(p)
          BY <1>8, <3>3 DEF MarkRunning
        <4> QED
          BY <3>1, <4>1, SMT
      <3> QED
        BY <3>2, <3>3
    <2>2. CASE ~(Matches(p) /\ r # "failed")
      <3>1. Exit(p) /\ status' = status /\ age' = age
        BY <1>8, <2>2 DEF MarkRunning
      <3> QED
        BY <1>1, <3>1, SMT
    <2> QED
      BY <2>1, <2>2
  <1>9. ASSUME NEW p \in Procs, NEW r \in Reply, Recover(p, r) PROVE Timely'
    <2>1. CASE r = "ok"
      <3>1. StartPool(p) /\ pc[p] = "recovering" /\ status' = status /\ age' = age
        BY <1>9, <2>1 DEF Recover
      <3> QED
        BY <1>start, <3>1
    <2>2. CASE r # "ok"
      <3>1. Exit(p) /\ status' = status /\ age' <= age
        BY <1>9, <2>2, SMT DEF Recover
      <3> QED
        BY <1>1, <3>1
    <2> QED
      BY <2>1, <2>2
  <1>10. ASSUME NEW p \in Procs, NEW r \in Reply, Heartbeat(p, r) PROVE Timely'
    <2>1. CASE r = "ok"
      BY <1>10, <2>1, SMT DEF Heartbeat
    <2>2. CASE r # "ok"
      <3>1. r = "failed"
        BY <1>10, <2>2 DEF Heartbeat, Reply
      <3> QED
        BY <1>10, <3>1, SMT DEF Heartbeat
    <2> QED
      BY <2>1, <2>2
  <1>11. ASSUME NEW p \in Procs, NEW r \in Reply, FinishRun(p, r) PROVE Timely'
    <2>1. verdict[p] # "running"
      BY <1>11 DEF FinishRun
    <2>2. CASE r = "ok"
      BY <1>1, <1>11, <2>1, <2>2 DEF FinishRun
    <2>3. CASE r # "ok"
      <3>1. /\ Enter(p, "fallback", Delay) /\ KeepWork /\ pc[p] = "finalizing"
            /\ r = "failed" => status' = status /\ age' = age
            /\ r # "failed" => status' = verdict[p]
        BY <1>11, <2>3 DEF FinishRun
      <3> QED
        BY <2>1, <3>1, SMT
    <2> QED
      BY <2>2, <2>3
  <1>12. ASSUME NEW p \in Procs, NEW r \in Reply, Fallback(p, r) PROVE Timely'
    BY <1>1, <1>12, SMT DEF Fallback
  <1>13. ASSUME NEW p \in Procs, Crash(p) PROVE Timely'
    BY <1>1, <1>13, SMT DEF Crash
  <1>14. ASSUME NEW held \in SUBSET Procs, Tick(held) PROVE Timely'
    <2>1. /\ status' = status /\ late' = late /\ pc' = pc
          /\ age' <= age + 1
      BY <1>14, SMT DEF Tick
    <2>2. ASSUME NEW p \in Procs PROVE timer'[p] = IF timer[p] > 0 THEN timer[p] - 1 ELSE 0
      BY <1>14 DEF Tick
    <2>3. ASSUME NEW p \in Procs, Owns(p), ~tardy'[p] PROVE ~tardy[p] /\ timer[p] # 0
      BY <1>14, <2>3 DEF Tick
    <2>4. ASSUME NEW p \in Procs, Owns(p) PROVE
             /\ timer'[p] <= IF pc[p] = "live" THEN Interval ELSE Delay
             /\ status = "running" /\ ~tardy'[p] => age' + timer'[p] <= Reach(pc[p], late[p])
      <3>1. age \in Nat /\ age' \in Nat /\ timer[p] \in Nat
        BY SMT
      <3>tick. timer'[p] = IF timer[p] > 0 THEN timer[p] - 1 ELSE 0
        BY <2>2
      <3>2. timer'[p] <= timer[p] /\ (timer[p] # 0 => timer'[p] = timer[p] - 1)
        BY <3>1, <3>tick, SMT
      <3>3. status = "running" /\ ~tardy'[p] => age' + timer'[p] <= age + timer[p]
        <4>1. ~tardy'[p] => timer[p] # 0
          BY <2>3, <2>4
        <4>2. timer'[p] \in Nat
          BY SMT
        <4> QED
          BY <2>1, <3>1, <3>2, <4>1, <4>2, SMT
      <3>4. Reach(pc[p], late[p]) \in Nat
        BY SMT
      <3> HIDE DEF Reach
      <3>5. timer[p] <= IF pc[p] = "live" THEN Interval ELSE Delay
        BY <2>4
      <3>6. status = "running" /\ ~tardy'[p] => age + timer[p] <= Reach(pc[p], late[p])
        BY <2>3, <2>4
      <3>7. timer'[p] \in Nat
        BY SMT
      <3> QED
        BY <3>1, <3>2, <3>3, <3>4, <3>5, <3>6, <3>7, SMT
    <2> QED
      BY <2>1, <2>4
  <1>15. CASE UNCHANGED vars
    BY <1>15, SMT
  <1> QED
    BY <1>2, <1>3, <1>4, <1>5, <1>6, <1>7, <1>8, <1>9, <1>10, <1>11, <1>12, <1>13, <1>14, <1>15
       DEF Next, ProcStep

\* A process that is about to take over waits for a row that is old enough.
LEMMA PatientStep == IInv /\ [Next]_vars => Patient'
  <1> SUFFICES ASSUME IInv, [Next]_vars PROVE Patient'
    OBVIOUS
  <1> USE Constants DEF IInv, Types, TypeOK, Patient, Phases, Working, Enter,
          KeepRead, ForgetRead, Exit, StartPool, row, session, vars
  <1>1. ASSUME NEW p \in Procs, NEW phase \in Phases \ {"marking"}, NEW time, Enter(p, phase, time),
               KeepRead \/ ForgetRead(p)
        PROVE  Patient'
    BY <1>1, SMT DEF NotSeen
  <1>2. ASSUME NEW p \in Procs, NEW cl \in CommandLines, Read(p, cl) PROVE Patient'
    <2>1. CASE status = "running"
      <3>1. PICK ahead \in -Skew .. Skew : cut' = [cut EXCEPT ![p] = StaleAfter - ahead]
        BY <1>2, <2>1 DEF Read
      <3>2. StaleAfter - ahead >= StaleAfter - Skew
        BY <3>1, SMT
      <3> QED
        BY <1>2, <3>1, <3>2, SMT DEF Read
    <2>2. CASE status # "running"
      BY <1>2, <2>2, SMT DEF Read
    <2> QED
      BY <2>1, <2>2
  <1>3. ASSUME NEW p \in Procs, NEW r \in Reply, MarkRunning(p, r) PROVE Patient'
    BY <1>1, <1>3 DEF MarkRunning
  <1>4. ASSUME NEW p \in Procs, UNCHANGED <<pc, seen, cut>> PROVE Patient'
    BY <1>4, SMT
  <1>5. ASSUME NEW held \in SUBSET Procs, Tick(held) PROVE Patient'
    BY <1>5, SMT DEF Tick
  <1>6. CASE UNCHANGED vars
    BY <1>6, SMT
  <1>7. ASSUME NEW p \in Procs, NEW r \in Reply,
               Seed(p, r) \/ Recover(p, r) \/ FinishRun(p, r) \/ Fallback(p, r)
        PROVE  Patient'
    BY <1>1, <1>7 DEF Seed, Recover, FinishRun, Fallback
  <1>8. ASSUME NEW p \in Procs, NEW env \in Environments, NEW cl \in CommandLines,
               NEW r \in Reply, Create(p, env, cl, r)
        PROVE  Patient'
    BY <1>1, <1>8 DEF Create
  <1>9. ASSUME NEW p \in Procs, NEW v \in Verdicts, Leave(p, v) PROVE Patient'
    BY <1>1, <1>9 DEF Leave
  <1>10. ASSUME NEW p \in Procs, Crash(p) PROVE Patient'
    BY <1>1, <1>10 DEF Crash
  <1> QED
    BY <1>2, <1>3, <1>4, <1>5, <1>6, <1>7, <1>8, <1>9, <1>10
       DEF Next, ProcStep, Claim, Settle, Heartbeat

\* What a process read, and what it was given, stay until it has tried.
LEMMA RaisingStep == IInv /\ [Next]_vars => Raising'
  <1> SUFFICES ASSUME IInv, [Next]_vars PROVE Raising'
    OBVIOUS
  <1> USE DEF IInv, Types, TypeOK, Raising, Phases, Working, Enter,
          KeepRead, ForgetRead, Exit, StartPool, row, session, vars
  <1>1. ASSUME NEW p \in Procs, NEW phase \in Phases \ {"marking"}, NEW time, Enter(p, phase, time),
               KeepRead \/ ForgetRead(p)
        PROVE  Raising'
    BY <1>1 DEF NotSeen
  <1>2. ASSUME NEW p \in Procs, NEW cl \in CommandLines, Read(p, cl) PROVE Raising'
    <2>1. /\ pc' = [pc EXCEPT ![p] = "marking"]
          /\ seen' = [seen EXCEPT ![p] = [status |-> status, limits |-> limits]]
          /\ line' = [line EXCEPT ![p] = cl]
          /\ status = "limit_reached" => HasExplicitLimitIncrease(limits, cl)
      BY <1>2 DEF Read
    <2> QED
      BY <2>1
  <1>3. ASSUME NEW p \in Procs, NEW r \in Reply, MarkRunning(p, r) PROVE Raising'
    BY <1>1, <1>3 DEF MarkRunning
  <1>4. ASSUME UNCHANGED <<pc, seen, line>> PROVE Raising'
    BY <1>4
  <1>5. ASSUME NEW p \in Procs, NEW r \in Reply,
               Seed(p, r) \/ Recover(p, r) \/ FinishRun(p, r) \/ Fallback(p, r)
        PROVE  Raising'
    BY <1>1, <1>5 DEF Seed, Recover, FinishRun, Fallback
  <1>6. ASSUME NEW p \in Procs, NEW env \in Environments, NEW cl \in CommandLines,
               NEW r \in Reply, Create(p, env, cl, r)
        PROVE  Raising'
    BY <1>1, <1>6 DEF Create
  <1>7. ASSUME NEW p \in Procs, NEW v \in Verdicts, Leave(p, v) PROVE Raising'
    BY <1>1, <1>7 DEF Leave
  <1>8. ASSUME NEW p \in Procs, Crash(p) PROVE Raising'
    BY <1>1, <1>8 DEF Crash
  <1> QED
    BY <1>2, <1>3, <1>4, <1>5, <1>6, <1>7, <1>8
       DEF Next, ProcStep, Claim, Settle, Heartbeat, Tick

LEMMA Invariance == Spec => []IInv
  <1>1. IInv /\ [Next]_vars => IInv'
    BY TypesStep, TimelyStep, PatientStep, RaisingStep DEF IInv
  <1> QED
    BY <1>1, InitIInv, PTL DEF Spec

-----------------------------------------------------------------------------
(* What follows for every number of processes and all times.               *)

\* The variables have their types: a row's status is one the schema knows, its
\* limits are numbers or none.
THEOREM TypeTheorem == Spec => []TypeOK
  <1>1. IInv => TypeOK
    BY DEF IInv, Types
  <1> QED
    BY <1>1, Invariance, PTL

\* Only markRunning takes a process from marking to recovering.
LEMMA WinnerMarks ==
    ASSUME IInv, [Next]_vars, NEW p \in Procs, pc[p] = "marking", pc'[p] = "recovering"
    PROVE  \E r \in Reply : MarkRunning(p, r)
  <1> USE DEF IInv, Types, TypeOK, Phases, Working, Enter, Exit, StartPool, row, session, vars
  <1>1. ASSUME NEW q \in Procs, Crash(q) \/ Claim(q) \/ \E r \in Reply : Fallback(q, r)
        PROVE  FALSE
    BY <1>1 DEF Crash, Claim, Fallback
  <1>2. ASSUME NEW q \in Procs, NEW r \in Reply, Seed(q, r) \/ Recover(q, r)
        PROVE  FALSE
    BY <1>2 DEF Seed, Recover
  <1>3. ASSUME NEW q \in Procs, NEW r \in Reply, Heartbeat(q, r) \/ FinishRun(q, r)
        PROVE  FALSE
    BY <1>3 DEF Heartbeat, FinishRun
  <1>4. ASSUME NEW q \in Procs, NEW env \in Environments, NEW cl \in CommandLines,
               NEW r \in Reply, Create(q, env, cl, r) \/ Read(q, cl)
        PROVE  FALSE
    BY <1>4 DEF Create, Read
  <1>5. ASSUME NEW q \in Procs, NEW o, Settle(q, o) \/ Leave(q, o) PROVE FALSE
    BY <1>5 DEF Settle, Leave
  <1>6. ASSUME NEW held, Tick(held) PROVE FALSE
    BY <1>6 DEF Tick
  <1>7. ASSUME NEW q \in Procs, NEW cl \in CommandLines, Read(q, cl) PROVE FALSE
    BY <1>7 DEF Read
  <1>8. ASSUME NEW q \in Procs, NEW r \in Reply, MarkRunning(q, r) PROVE q = p
    BY <1>8 DEF MarkRunning
  <1> QED
    BY <1>1, <1>2, <1>3, <1>4, <1>5, <1>6, <1>7, <1>8 DEF Next, ProcStep

\* When a running run is old enough for a process to take it over, every process
\* that still works on it has missed a timer.
LEMMA TakenLate ==
    ASSUME IInv, NEW p \in Procs, pc[p] = "marking", Matches(p), status = "running",
           NEW q \in Procs, Owns(q)
    PROVE  tardy[q]
  <1> USE DEF IInv, Types, TypeOK, Phases, Working
  <1>1. age > cut[p] /\ seen[p].status = "running"
    BY DEF Matches
  <1>2. cut[p] >= StaleAfter - Skew /\ cut[p] \in Nat /\ age \in Nat
    BY <1>1, Constants, SMT DEF Patient
  <1>3. age > StaleAfter - Skew
    BY <1>1, <1>2, Constants, SMT
  <1>4. Reach(pc[q], late[q]) <= Interval + MaxLate + 3 * Delay
    BY Constants, SMT DEF Reach, Timely
  <1> QED
    BY <1>3, <1>4, Constants, SMT DEF Timely, Reach

LEMMA TakeoverStep ==
    ASSUME IInv, [Next]_vars, NEW p \in Procs, pc[p] = "marking",
           pc'[p] = "recovering", status = "running", NEW q \in Procs, Owns(q)
    PROVE  tardy[q]
  <1>1. PICK r \in Reply : MarkRunning(p, r)
    BY WinnerMarks
  <1>2. Matches(p)
    BY <1>1 DEF MarkRunning, Exit, Enter, IInv, Types, TypeOK
  <1> QED
    BY <1>2, TakenLate

\* No run is taken over from a process that keeps its timers, whatever the
\* number of processes and whatever answers are lost.
THEOREM TakeoverTheorem == Spec => TakeoverOfDead
  <1>1. IInv /\ [Next]_vars =>
            [\A p \in Procs :
                pc[p] = "marking" /\ pc'[p] = "recovering" /\ status = "running"
                => \A q \in Procs : Owns(q) => tardy[q]]_vars
    BY TakeoverStep
  <1> QED
    BY <1>1, Invariance, PTL DEF Spec, TakeoverOfDead

\* A run that stopped at a limit is resumed only with more room than it had, and
\* keeps every limit that was not given.
THEOREM ResumeRaisesTheorem == Spec => ResumeRaises
  <1> DEFINE Raised(p) ==
          /\ \E name \in LimitName :
                 \/ More(limits'[name], limits[name])
                 \/ /\ name = "maxRuntimeSeconds" /\ name \in DOMAIN line[p]
                    /\ limits'[name] = limits[name] /\ limits[name] # NoLimit
          /\ \A name \in LimitName \ DOMAIN line[p] : limits'[name] = limits[name]
  <1>1. ASSUME IInv, [Next]_vars, NEW p \in Procs, pc[p] = "marking", pc'[p] = "recovering",
               status = "limit_reached", limits = seen[p].limits
        PROVE  Raised(p)
    <2>1. PICK r \in Reply : MarkRunning(p, r)
      BY <1>1, WinnerMarks
    <2>2. Matches(p)
      BY <1>1, <2>1 DEF MarkRunning, Exit, Enter, IInv, Types, TypeOK
    <2>3. limits' = Updated(limits, line[p])
      BY <1>1, <2>1, <2>2 DEF MarkRunning, Exit, Enter, IInv, Types, TypeOK
    <2>4. HasExplicitLimitIncrease(limits, line[p])
      BY <1>1, <2>2 DEF Matches, IInv, Raising
    <2>5. DOMAIN line[p] \subseteq LimitName
      <3>1. line[p] \in CommandLines \cup {NoLine}
        BY <1>1 DEF IInv, Types, TypeOK
      <3>2. \A given \in CommandLines : DOMAIN given \subseteq LimitName
        BY LifecycleAssumption
      <3> QED
        BY <3>1, <3>2 DEF NoLine
    <2>6. PICK name \in DOMAIN line[p] :
              IsFiniteLimitIncrease(limits[name], Given(line[p], name),
                                    name = "maxRuntimeSeconds")
      BY <2>4 DEF HasExplicitLimitIncrease
    <2>7. limits'[name] = Given(line[p], name) /\ name \in LimitName
      BY <2>3, <2>5, <2>6 DEF Updated
    <2>8. \/ More(limits'[name], limits[name])
          \/ /\ name = "maxRuntimeSeconds" /\ limits'[name] = limits[name]
             /\ limits[name] # NoLimit
      BY <2>6, <2>7 DEF IsFiniteLimitIncrease, More
    <2>9. \A other \in LimitName \ DOMAIN line[p] : limits'[other] = limits[other]
      BY <2>3 DEF Updated
    <2> QED
      BY <2>6, <2>7, <2>8, <2>9
  <1>2. IInv /\ [Next]_vars =>
            [\A p \in Procs :
                /\ pc[p] = "marking" /\ pc'[p] = "recovering"
                /\ status = "limit_reached" /\ limits = seen[p].limits
                => Raised(p)]_vars
    BY <1>1
  <1> QED
    BY <1>2, Invariance, PTL DEF Spec, ResumeRaises

-----------------------------------------------------------------------------
(* What follows when no process is held up and no answer is lost.          *)

Prompt == ~Suspends /\ ~LostAcks

Sole ==
    /\ \A p \in Procs : ~tardy[p]
    /\ \A p \in Procs : Owns(p) => status = "running"
    /\ OneOwner
    /\ \A p \in Procs : working[p] => pc[p] = "live" /\ page = "in_progress"

LEMMA PromptReply == ASSUME Prompt PROVE Reply = {"ok", "failed"}
  BY DEF Prompt, Reply

\* A process that wins the run finds nobody on it.
LEMMA WonAlone ==
    ASSUME IInv, Sole, NEW p \in Procs, NEW r \in Reply, MarkRunning(p, r), Matches(p),
           [Next]_vars, pc'[p] = "recovering"
    PROVE  \A q \in Procs : ~Owns(q)
  <1> SUFFICES ASSUME NEW q \in Procs, Owns(q) PROVE FALSE
    OBVIOUS
  <1>1. status = "running"
    BY DEF Sole
  <1>2. pc[p] = "marking"
    BY DEF MarkRunning
  <1> QED
    BY <1>1, <1>2, TakeoverStep DEF Sole

LEMMA SoleStep == ASSUME Prompt PROVE IInv /\ Sole /\ [Next]_vars => Sole'
  <1> SUFFICES ASSUME IInv, Sole, [Next]_vars PROVE Sole'
    OBVIOUS
  <1> USE PromptReply DEF IInv, Types, TypeOK, Sole, OneOwner, Owns, Working, Phases,
          Enter, ForgetWork, KeepWork, Exit, StartPool, After, row, session, vars
  <1>1. ASSUME NEW p \in Procs, Exit(p), status' = status \/ Owns(p),
               page' = page
        PROVE  Sole'
    BY <1>1
  <1>2. ASSUME NEW p \in Procs, NEW env \in Environments, NEW cl \in CommandLines,
               NEW r \in Reply, Create(p, env, cl, r)
        PROVE  Sole'
    <2>1. r = "ok" /\ status = "none"
      BY <1>2 DEF Create
    <2>2. \A q \in Procs : ~Owns(q)
      BY <2>1
    <2> QED
      BY <1>2, <2>1, <2>2 DEF Create
  <1>3. ASSUME NEW p \in Procs, NEW cl \in CommandLines, Read(p, cl) PROVE Sole'
    BY <1>3 DEF Read
  <1>4. ASSUME NEW p \in Procs, Claim(p) PROVE Sole'
    BY <1>4 DEF Claim
  <1>5. ASSUME NEW p \in Procs, NEW outcome \in {"done", "queued"}, Settle(p, outcome)
        PROVE  Sole'
    BY <1>5 DEF Settle
  <1>6. ASSUME NEW p \in Procs, NEW v \in Verdicts, Leave(p, v) PROVE Sole'
    BY <1>6 DEF Leave
  <1>7. ASSUME NEW p \in Procs, NEW r \in Reply, Seed(p, r) PROVE Sole'
    <2>1. /\ pc[p] = "seeding" /\ status' = status
          /\ \A q \in Procs : ~working[q]
      BY <1>7 DEF Seed
    <2>2. CASE r = "ok"
      BY <1>7, <2>1, <2>2 DEF Seed
    <2>3. CASE r # "ok"
      BY <1>7, <2>1, <2>3 DEF Seed
    <2> QED
      BY <2>2, <2>3
  <1>8. ASSUME NEW p \in Procs, NEW r \in Reply, MarkRunning(p, r) PROVE Sole'
    <2>1. CASE Matches(p) /\ r = "ok"
      <3>1. Enter(p, "recovering", Delay) /\ KeepWork /\ status' = "running" /\ page' = page
        BY <1>8, <2>1 DEF MarkRunning
      <3>2. \A q \in Procs : ~Owns(q)
        BY <1>8, <2>1, <3>1, WonAlone
      <3> QED
        BY <3>1, <3>2
    <2>2. CASE ~(Matches(p) /\ r = "ok")
      <3>1. Exit(p) /\ status' = status /\ page' = page
        BY <1>8, <2>2 DEF MarkRunning
      <3> QED
        BY <1>1, <3>1
    <2> QED
      BY <2>1, <2>2
  <1>9. ASSUME NEW p \in Procs, NEW r \in Reply, Recover(p, r) PROVE Sole'
    <2>1. /\ pc[p] = "recovering" /\ status' = status
          /\ \A q \in Procs : ~working[q]
      BY <1>9 DEF Recover
    <2>2. CASE r = "ok"
      BY <1>9, <2>1, <2>2 DEF Recover
    <2>3. CASE r # "ok"
      BY <1>9, <2>1, <2>3 DEF Recover
    <2> QED
      BY <2>2, <2>3
  <1>10. ASSUME NEW p \in Procs, NEW r \in Reply, Heartbeat(p, r) PROVE Sole'
    BY <1>10 DEF Heartbeat
  <1>11. ASSUME NEW p \in Procs, NEW r \in Reply, FinishRun(p, r) PROVE Sole'
    <2>1. CASE r = "ok"
      BY <1>1, <1>11, <2>1 DEF FinishRun
    <2>2. CASE r # "ok"
      BY <1>11, <2>2 DEF FinishRun
    <2> QED
      BY <2>1, <2>2
  <1>12. ASSUME NEW p \in Procs, NEW r \in Reply, Fallback(p, r) PROVE Sole'
    BY <1>1, <1>12 DEF Fallback
  <1>13. ASSUME NEW p \in Procs, Crash(p) PROVE Sole'
    BY <1>1, <1>13 DEF Crash
  <1>14. ASSUME NEW held \in SUBSET Procs, Tick(held) PROVE Sole'
    BY <1>14 DEF Tick, Prompt
  <1>15. CASE UNCHANGED vars
    BY <1>15
  <1> QED
    BY <1>2, <1>3, <1>4, <1>5, <1>6, <1>7, <1>8, <1>9, <1>10, <1>11, <1>12, <1>13, <1>14, <1>15
       DEF Next, ProcStep

LEMMA SoleInvariance == ASSUME Prompt PROVE Spec => []Sole
  <1>1. Init => Sole
    BY DEF Init, Sole, OneOwner, Owns, Working
  <1> QED
    BY <1>1, SoleStep, Invariance, PTL DEF Spec

\* One process works on the run at a time.
THEOREM OneOwnerTheorem == ASSUME Prompt PROVE Spec => []OneOwner
  <1>1. Sole => OneOwner
    BY DEF Sole
  <1> QED
    BY <1>1, SoleInvariance, PTL

\* A page in hand is in progress, and in the hands of one process.
THEOREM PageExclusiveTheorem == ASSUME Prompt PROVE Spec => []PageExclusive
  <1>1. Sole => PageExclusive
    BY DEF Sole, OneOwner, PageExclusive, Owns, Working
  <1> QED
    BY <1>1, SoleInvariance, PTL

\* A completed run is resumed, finished or failed by no process, whatever each read
\* before it completed.
THEOREM CompleteIsFinalTheorem == ASSUME Prompt PROVE Spec => CompleteIsFinal
  <1>1. IInv /\ Sole /\ [Next]_vars => [(status \in Completed) => status' = status]_vars
    <2> SUFFICES ASSUME IInv, Sole, Next, status \in Completed PROVE status' = status
      OBVIOUS
    <2>1. status \notin {"none", "running"} /\ \A p \in Procs : ~Owns(p)
      BY DEF Completed, Sole
    <2>2. ASSUME NEW p \in Procs, NEW r \in Reply, MarkRunning(p, r) PROVE status' = status
      <3>1. ~Matches(p)
        BY <2>2 DEF MarkRunning, Matches, IInv, Types
      <3> QED
        BY <2>2, <3>1 DEF MarkRunning
    <2>3. ASSUME NEW p \in Procs, NEW r \in Reply, FinishRun(p, r) \/ Fallback(p, r)
          PROVE  FALSE
      BY <2>1, <2>3 DEF FinishRun, Fallback, Owns, Working
    <2> QED
      BY <2>1, <2>2, <2>3 DEF Next, ProcStep, Create, Read, Claim, Settle, Leave, Seed,
         Recover, Heartbeat, Crash, Tick, row, session
  <1> QED
    BY <1>1, SoleInvariance, Invariance, PTL DEF Spec, CompleteIsFinal

-----------------------------------------------------------------------------
(* The row as a lease, whoever is late and whatever answers are lost.      *)

Holders == {p \in Procs : Owns(p)}
Late == {p \in Procs : tardy[p]}

\* Who is late holds the run, and who holds it holds one that exists.
Leased ==
    /\ Late \subseteq Holders
    /\ status = "none" => Holders = {}

\* How the steps of a process move the two sets.
LEMMA Moves ==
    ASSUME TypeOK, NEW p \in Procs
    PROVE  /\ \A phase \in Working : \A time :
                 Enter(p, phase, time) => Holders' = Holders \cup {p}
           /\ \A phase \in {"idle", "marking"} : \A time :
                 Enter(p, phase, time) => Holders' = Holders \ {p}
           /\ ForgetWork(p) => Late' = Late \ {p}
           /\ Exit(p) => Holders' = Holders \ {p} /\ Late' = Late \ {p}
           /\ KeepWork => Late' = Late
           /\ p \in Holders <=> pc[p] \in Working
  <1> USE DEF TypeOK, Holders, Late, Owns, Enter, ForgetWork, KeepWork
  <1>1. ASSUME NEW phase \in Working, NEW time, Enter(p, phase, time)
        PROVE  Holders' = Holders \cup {p}
    BY <1>1
  <1>2. ASSUME NEW phase \in {"idle", "marking"}, NEW time, Enter(p, phase, time)
        PROVE  Holders' = Holders \ {p}
    BY <1>2 DEF Working
  <1>3. ASSUME ForgetWork(p) PROVE Late' = Late \ {p}
    BY <1>3
  <1>4. ASSUME Exit(p) PROVE Holders' = Holders \ {p} /\ Late' = Late \ {p}
    BY <1>2, <1>3, <1>4 DEF Exit
  <1>5. KeepWork => Late' = Late
    OBVIOUS
  <1> QED
    BY <1>1, <1>2, <1>3, <1>4, <1>5

\* What a step of Lifecycle is to the lease.
LeaseMove ==
    \/ \E p \in Procs :
           \/ /\ status = "none" /\ Holders = {} /\ status' = "running"
              /\ p \notin Holders /\ Late' = Late
              /\ (Holders' = Holders \cup {p} \/ (LostAcks /\ Holders' = Holders))
           \/ /\ status \in {"paused", "limit_reached", "failed", "running"}
              /\ status = "running" => Holders \subseteq Late
              /\ status' = "running"
              /\ p \notin Holders /\ Late' = Late
              /\ (Holders' = Holders \cup {p} \/ (LostAcks /\ Holders' = Holders))
           \/ /\ status' \in {"paused", "limit_reached", "failed", "completed"}
              /\ p \in Holders
              /\ \/ Holders' = Holders \ {p} /\ Late' = Late \ {p}
                 \/ LostAcks /\ Holders' = Holders /\ Late' = Late
           \/ /\ status' = status /\ p \in Holders
              /\ Holders' = Holders \ {p} /\ Late' = Late \ {p}
    \/ \E held \in SUBSET Procs :
           /\ Suspends /\ held \subseteq Holders /\ Late' = Late \cup held
           /\ status' = status /\ Holders' = Holders
    \/ status' = status /\ Holders' = Holders /\ Late' = Late

LEMMA ProcMoves ==
    ASSUME IInv, Leased, NEW p \in Procs, ProcStep(p)
    PROVE  LeaseMove
  <1> USE DEF IInv, Types, row, session
  <1>1. \A r \in Reply : r \in {"ok", "failed"} \/ (LostAcks /\ r = "lost")
    BY DEF Reply
  <1>2. ASSUME NEW env \in Environments, NEW cl \in CommandLines, NEW r \in Reply,
               Create(p, env, cl, r)
        PROVE  LeaseMove
    <2>1. /\ status = "none" /\ status' = "running" /\ Holders = {} /\ Late' = Late
          /\ pc[p] = "idle" /\ r # "failed"
      BY <1>2, Moves DEF Create, Leased
    <2>2. (Holders' = Holders \cup {p} \/ (LostAcks /\ Holders' = Holders))
      <3>1. CASE r = "ok"
        <4>1. "seeding" \in Working
          BY DEF Working
        <4>2. Enter(p, "seeding", Delay)
          BY <1>2, <3>1 DEF Create
        <4> QED
          BY <4>1, <4>2, Moves
      <3>2. CASE r # "ok"
        <4>1. Enter(p, "idle", Delay) /\ LostAcks
          BY <1>1, <1>2, <3>2 DEF Create
        <4> QED
          BY <2>1, <4>1, Moves
      <3> QED
        BY <3>1, <3>2
    <2> QED
      BY <2>1, <2>2 DEF LeaseMove
  <1>3. ASSUME NEW cl \in CommandLines, Read(p, cl) PROVE LeaseMove
    <2>1. Enter(p, "marking", Delay) /\ KeepWork /\ status' = status /\ pc[p] = "idle"
      BY <1>3 DEF Read
    <2>2. p \notin Holders
      BY <2>1 DEF Holders, Owns, Working
    <2> QED
      BY <2>1, <2>2, Moves DEF LeaseMove
  <1>4. ASSUME UNCHANGED <<status, pc, tardy>> PROVE LeaseMove
    BY <1>4 DEF LeaseMove, Holders, Late, Owns
  <1>5. ASSUME Claim(p) \/ (\E o \in {"done", "queued"} : Settle(p, o))
               \/ (\E r \in Reply : Heartbeat(p, r))
        PROVE  LeaseMove
    BY <1>4, <1>5 DEF Claim, Settle, Heartbeat
  <1>6. ASSUME NEW phase \in Working, NEW time, Enter(p, phase, time), status' = status,
               p \in Holders, Late' = Late
        PROVE  LeaseMove
    BY <1>6, Moves DEF LeaseMove
  <1>7. ASSUME Exit(p), status' = status PROVE LeaseMove
    <2>1. Holders' = Holders \ {p} /\ Late' = Late \ {p}
      BY <1>7, Moves
    <2>2. CASE p \in Holders
      BY <1>7, <2>1, <2>2 DEF LeaseMove
    <2>3. CASE p \notin Holders
      BY <1>7, <2>1, <2>3 DEF LeaseMove, Leased
    <2> QED
      BY <2>2, <2>3
  <1>8. ASSUME NEW v \in Verdicts, Leave(p, v) PROVE LeaseMove
    <2>1. /\ Enter(p, "finalizing", Delay) /\ status' = status /\ tardy' = tardy
          /\ pc[p] = "live"
      BY <1>8 DEF Leave
    <2>2. Late' = Late /\ p \in Holders
      BY <2>1 DEF Late, Holders, Owns, Working
    <2> QED
      BY <1>6, <2>1, <2>2 DEF Working
  <1>9. ASSUME NEW r \in Reply, Seed(p, r) \/ Recover(p, r) PROVE LeaseMove
    <2>1. pc[p] \in Working /\ status' = status
      BY <1>9 DEF Seed, Recover, Working
    <2>2. StartPool(p) \/ Exit(p)
      BY <1>9 DEF Seed, Recover
    <2>3. CASE StartPool(p)
      BY <1>6, <2>1, <2>3, Moves DEF StartPool, Working
    <2> QED
      BY <1>7, <2>1, <2>2, <2>3
  <1>10. ASSUME NEW r \in Reply, MarkRunning(p, r) PROVE LeaseMove
    <2>1. pc[p] = "marking" /\ p \notin Holders
      BY <1>10 DEF MarkRunning, Holders, Owns, Working
    <2>2. CASE Matches(p) /\ r # "failed"
      <3>1. status' = "running" /\ status \in {"paused", "limit_reached", "failed", "running"}
        BY <1>10, <2>1, <2>2 DEF MarkRunning, Matches, RunStatus, Completed, TypeOK
      <3>2. status = "running" => Holders \subseteq Late
        BY <2>1, <2>2, TakenLate DEF Holders, Late
      <3>3. /\ Late' = Late
            /\ (Holders' = Holders \cup {p} \/ (LostAcks /\ Holders' = Holders))
        <4>1. CASE r = "ok"
          <5>1. "recovering" \in Working
            BY DEF Working
          <5>2. Enter(p, "recovering", Delay) /\ KeepWork
            BY <1>10, <2>2, <4>1 DEF MarkRunning
          <5> QED
            BY <5>1, <5>2, Moves
        <4>2. CASE r # "ok"
          <5>1. Exit(p) /\ LostAcks
            BY <1>1, <1>10, <2>2, <4>2 DEF MarkRunning
          <5>2. Holders' = Holders \ {p} /\ Late' = Late \ {p}
            BY <5>1, Moves
          <5>3. Holders' = Holders /\ Late' = Late
            BY <2>1, <5>2 DEF Leased
          <5> QED
            BY <5>1, <5>3
        <4> QED
          BY <4>1, <4>2
      <3> QED
        BY <2>1, <3>1, <3>2, <3>3 DEF LeaseMove
    <2>3. CASE ~(Matches(p) /\ r # "failed")
      BY <1>7, <1>10, <2>3 DEF MarkRunning
    <2> QED
      BY <2>2, <2>3
  <1>11. ASSUME NEW r \in Reply, FinishRun(p, r) PROVE LeaseMove
    <2>1. /\ pc[p] = "finalizing" /\ p \in Holders
          /\ verdict[p] \in {"paused", "limit_reached", "failed", "completed"}
      BY <1>11 DEF FinishRun, TypeOK, RunStatus, Completed, Holders, Owns, Working
    <2>2. status' = After(r, status, verdict[p])
      BY <1>11 DEF FinishRun
    <2>3. CASE r = "ok"
      BY <1>11, <2>1, <2>2, <2>3, Moves DEF FinishRun, After, LeaseMove
    <2>4. CASE r # "ok"
      <3>1. Enter(p, "fallback", Delay) /\ KeepWork
        BY <1>11, <2>4 DEF FinishRun
      <3>2. Holders' = Holders /\ Late' = Late
        BY <2>1, <3>1, Moves DEF Working
      <3> QED
        BY <1>1, <2>1, <2>2, <2>4, <3>2 DEF After, LeaseMove
    <2> QED
      BY <2>3, <2>4
  <1>12. ASSUME NEW r \in Reply, Fallback(p, r) PROVE LeaseMove
    <2>1. pc[p] = "fallback" /\ p \in Holders /\ Exit(p)
      BY <1>12 DEF Fallback, Holders, Owns, Working
    <2>2. status' = After(r, status, "failed")
      BY <1>12 DEF Fallback
    <2>3. status' = status \/ status' = "failed"
      BY <2>2 DEF After
    <2> QED
      BY <2>1, <2>3, Moves DEF LeaseMove
  <1>13. ASSUME Crash(p) PROVE LeaseMove
    BY <1>7, <1>13 DEF Crash
  <1> QED
    BY <1>2, <1>3, <1>5, <1>8, <1>9, <1>10, <1>11, <1>12, <1>13 DEF ProcStep

LEMMA TickMoves ==
    ASSUME TypeOK, NEW held \in SUBSET Procs, Tick(held)
    PROVE  LeaseMove
  <1>1. Holders' = Holders /\ status' = status
    BY DEF Tick, Holders, Owns
  <1>2. held \subseteq Holders /\ (held # {} => Suspends)
    BY DEF Tick, Holders
  <1>3. Late' = Late \cup held
    BY DEF Tick, Late, TypeOK
  <1>4. CASE held = {}
    BY <1>1, <1>3, <1>4 DEF LeaseMove
  <1> QED
    BY <1>1, <1>2, <1>3, <1>4 DEF LeaseMove

LEMMA EveryMove ==
    ASSUME IInv, Leased, [Next]_vars
    PROVE  LeaseMove
  <1>1. CASE UNCHANGED vars
    BY <1>1 DEF vars, row, session, LeaseMove, Holders, Late, Owns
  <1> QED
    BY <1>1, ProcMoves, TickMoves DEF Next, IInv, Types

LEMMA LeasedInvariance == Spec => []Leased
  <1>1. Init => Leased
    BY DEF Init, Leased, Holders, Late, Owns, Working
  <1>2. IInv /\ Leased /\ [Next]_vars => Leased'
    <2> SUFFICES ASSUME IInv, Leased, [Next]_vars PROVE Leased'
      OBVIOUS
    <2>1. LeaseMove
      BY EveryMove
    <2> HIDE DEF Holders, Late
    <2> QED
      BY <2>1 DEF LeaseMove, Leased
  <1> QED
    BY <1>1, <1>2, Invariance, PTL DEF Spec

\* The run's row is a lease, however late a process is and whatever answers are
\* lost: it is created once; it is taken when it is stopped, or from processes
\* that are all late; only a process that holds it ends it.
THEOREM LeaseTheorem == Spec => ImplementsLease
  <1>1. Init => Held!Init
    BY DEF Init, Held!Init, Owns, Working
  <1>2. IInv /\ Leased /\ [Next]_vars => [Held!Next]_(Held!vars)
    <2> SUFFICES ASSUME IInv, Leased, [Next]_vars PROVE [Held!Next]_(Held!vars)
      OBVIOUS
    <2>1. LeaseMove
      BY EveryMove
    <2> QED
      BY <2>1 DEF LeaseMove, Held!Next, Held!vars, Held!Create, Held!Take, Held!End,
         Held!Release, Held!Join, Held!Leave, Held!BeLate, Held!Stopped, Held!Final,
         Holders, Late
  <1> QED
    BY <1>1, <1>2, Invariance, LeasedInvariance, PTL DEF Spec, ImplementsLease, Held!Spec

=============================================================================
