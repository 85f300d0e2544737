------------------------------- MODULE Limits -------------------------------
(***************************************************************************)
(* The four limits of a run: how a command line or the environment gives   *)
(* them, and when an override counts as an increase.  A limit is a number  *)
(* or NoLimit (null).  An argument is what a string says to the parsers: a *)
(* number or one of a few words; refusing an argument is returning no      *)
(* limit, so that a parser's value is a set of at most one limit.          *)
(***************************************************************************)
EXTENDS Integers

CONSTANT NoLimit    \* null: no limit

ASSUME NoLimitAssumption == NoLimit \notin Int

LimitName == {"maxUrls", "maxDepth", "maxBytes", "maxRuntimeSeconds"}

Limit == Int \cup {NoLimit}

Argument == [word : {"number"}, n : Int]
            \cup [word : {"unlimited", "none", "empty", "junk"}, n : {0}]

Words == {"unlimited", "none"}

\* The number JavaScript's Number() makes of an argument, if it is finite.
NumberOf(a) == IF a.word \in {"number", "empty"} THEN {a.n} ELSE {}

-----------------------------------------------------------------------------
(* The command line: a function from the options given on it to arguments. *)

ParseMaxUrls(a) ==
    IF a.word \in Words \cup {"empty"} \/ (a.word = "number" /\ a.n = 0)
    THEN {NoLimit} ELSE {n \in NumberOf(a) : n >= 1}

ParseMaxDepth(a) ==
    IF a.word \in Words THEN {NoLimit} ELSE {n \in NumberOf(a) : n >= 0}

ParseUnlimitedOrPositive(a) ==
    IF a.word \in Words THEN {NoLimit} ELSE {n \in NumberOf(a) : n > 0}

Parse(name, a) ==
    CASE name = "maxUrls"  -> ParseMaxUrls(a)
      [] name = "maxDepth" -> ParseMaxDepth(a)
      [] OTHER             -> ParseUnlimitedOrPositive(a)

Accepted(cl) == \A name \in DOMAIN cl : Parse(name, cl[name]) # {}

\* The value an accepted command line gives to an option on it.
Given(cl, name) == CHOOSE v \in Parse(name, cl[name]) : TRUE

-----------------------------------------------------------------------------
(* The environment: a function from the variables that are set.  Commander *)
(* takes the configured value as the option's default without parsing it,  *)
(* so that resolveConfiguredLimit finds a value and parses nothing either. *)

Default == [name \in LimitName |->
    CASE name = "maxUrls" -> 1000 [] name = "maxDepth" -> 5
      [] name = "maxBytes" -> 104857600 [] OTHER -> 3600]

ReadNumber(env, name) ==
    IF name \notin DOMAIN env \/ env[name].word = "empty" THEN {Default[name]}
    ELSE NumberOf(env[name])

ReadMaxUrls(env) ==
    IF "maxUrls" \notin DOMAIN env THEN {Default["maxUrls"]}
    ELSE IF env["maxUrls"].word = "empty" \/ 0 \in NumberOf(env["maxUrls"])
    THEN {NoLimit} ELSE {n \in NumberOf(env["maxUrls"]) : n > 0}

Configured(env, name) ==
    IF name = "maxUrls" THEN ReadMaxUrls(env) ELSE ReadNumber(env, name)

OptionValue(env, cl, name) ==
    IF name \in DOMAIN cl THEN Parse(name, cl[name]) ELSE Configured(env, name)

\* The limits of a new run: none if an argument or a variable is refused.
CreateLimits(env, cl) ==
    IF \E name \in LimitName :
           Configured(env, name) = {} \/ OptionValue(env, cl, name) = {}
    THEN {}
    ELSE {[name \in LimitName |-> CHOOSE v \in OptionValue(env, cl, name) : TRUE]}

-----------------------------------------------------------------------------
(* Resuming.                                                               *)

\* Bug: no limit is taken for more than anything, no limit included.
BugIncrease(current, next, allowEqual) ==
    IF next = NoLimit THEN TRUE
    ELSE IF current = NoLimit THEN FALSE
    ELSE next > current \/ (allowEqual /\ next = current)

IsFiniteLimitIncrease(current, next, allowEqual) ==
    IF next = NoLimit THEN current # NoLimit
    ELSE IF current = NoLimit THEN FALSE
    ELSE next > current \/ (allowEqual /\ next = current)

HasExplicitLimitIncrease(limits, cl) ==
    \E name \in DOMAIN cl :
        IsFiniteLimitIncrease(limits[name], Given(cl, name),
                              name = "maxRuntimeSeconds")

\* configUpdates: what was not given keeps its persisted value.
Updated(limits, cl) ==
    [name \in LimitName |->
        IF name \in DOMAIN cl THEN Given(cl, name) ELSE limits[name]]

=============================================================================
