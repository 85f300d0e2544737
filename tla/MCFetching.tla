----------------------------- MODULE MCFetching -----------------------------
(* Two workers and two URLs; pauses that overlap, and one that is longer   *)
(* than a timer can be.                                                    *)
EXTENDS Fetching

CONSTANTS w1, w2, u1, u2

SomeHeaders == [kind : {"seconds"}, n : {1, 3}] \cup [kind : {"date"}, n : {-1}]
               \cup [kind : {"other"}, n : {0}]

=============================================================================
