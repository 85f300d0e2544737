---------------------------- MODULE MCLifecycle -----------------------------
(* Two processes with two names, which are used again after a crash, an exit *)
(* or a refusal; one option, or none, on each command line.                *)
EXTENDS Lifecycle

CONSTANTS p1, p2

Number(k) == [word |-> "number", n |-> k]
Word(w) == [word |-> w, n |-> 0]
Only(name, a) == [o \in {name} |-> a]

\* Nothing, more URLs, no URL limit, less depth, and the runtime.
RaisingLines == {NoLine, Only("maxUrls", Number(2)), Only("maxUrls", Word("empty")),
                 Only("maxRuntimeSeconds", Number(1))}

\* A small crawl: one URL, depth 0, no byte limit, a runtime of 1.
SmallRun == {[name \in LimitName |-> IF name = "maxDepth" THEN Number(0) ELSE Number(1)]}
=============================================================================
