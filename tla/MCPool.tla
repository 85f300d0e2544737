------------------------------- MODULE MCPool -------------------------------
(* The instances of Pool that TLC checks: two workers, a site of up to five *)
(* URLs.  The cfg files choose among the sites below.                      *)
EXTENDS Pool, TLC

CONSTANTS w1, w2, s, a, b, c, x

\* The wide site: every kind of answer but a throw, a link out of scope, one
\* too deep, one that finds the frontier full, a redirect to another URL, to
\* itself, and back to where it came from.
WideLinks == [u \in Urls |->
    IF u = s THEN {a, b, c, x} ELSE IF u = a THEN {c} ELSE IF u = c THEN {a} ELSE {}]
WideLocation == [u \in Urls |-> IF u = a THEN b ELSE IF u = b THEN b ELSE a]
WideAnswers == [u \in Urls |->
    IF u = s THEN {"page", "redirect"}
    ELSE IF u = a THEN {"page", "transient", "redirect", "unsupported"}
    ELSE IF u = b THEN {"page", "rate_limited", "redirect", "not_found", "forbidden"}
    ELSE {"page", "bad_location"}]

\* The small site: s links to the rest, which may answer anything that leads to
\* a write, and may redirect back to s.
SmallLinks == [u \in Urls |-> IF u = s THEN Urls \ {s} ELSE {}]
SmallLocation == [u \in Urls |-> s]
SmallAnswers == [u \in Urls |->
    IF u = s THEN {"page"}
    ELSE {"page", "transient", "redirect", "storage_error", "processing_bug"}]

\* The slow site: a is rate limited now and then, b fails now and then.
SlowAnswers == [u \in Urls |->
    IF u = s THEN {"page"}
    ELSE IF u = a THEN {"page", "rate_limited"} ELSE {"page", "transient"}]

\* The workers take the same steps: their permutations are symmetries of every
\* safety property (the runs that check liveness do not use them).
Symmetry == Permutations(Workers)
=============================================================================
