----------------------------- MODULE WorkQueue ------------------------------
(***************************************************************************)
(* What the frontier promises to its workers: a queue whose items are in   *)
(* the hands of one worker at a time.  An item is added once; it is taken  *)
(* when it is ready; then the worker that has it, and no other, settles it *)
(* or gives it back, for now or for later.  A worker may keep in hand what *)
(* it has settled, and change its mind, if something fails meanwhile.      *)
(* What a worker drops unsettled stays taken until all have dropped what   *)
(* they had.                                                               *)
(***************************************************************************)
CONSTANTS
    Items,
    NoItem,
    Workers,
    Faults,     \* may a worker fail?
    Crashes     \* may all of them die?

VARIABLES
    state,      \* absent, ready, waiting, taken or settled
    hand        \* the item each worker has

vars == <<state, hand>>

Init ==
    /\ state = [i \in Items |-> "absent"]
    /\ hand = [w \in Workers |-> NoItem]

Add(i) ==
    /\ state[i] = "absent"
    /\ state' = [state EXCEPT ![i] = "ready"]
    /\ UNCHANGED hand

Take(w, i) ==
    /\ hand[w] = NoItem /\ state[i] = "ready"
    /\ state' = [state EXCEPT ![i] = "taken"]
    /\ hand' = [hand EXCEPT ![w] = i]

\* The worker gives back what it has, or settles it.
Put(w, s) ==
    /\ hand[w] # NoItem
    /\ state[hand[w]] = "taken" \/ (Faults /\ state[hand[w]] = "settled")
    /\ state' = [state EXCEPT ![hand[w]] = s]
    /\ \/ hand' = [hand EXCEPT ![w] = NoItem]
       \/ s = "settled" /\ UNCHANGED hand

Drop(w) ==
    /\ hand[w] # NoItem
    /\ state[hand[w]] = "settled" \/ Faults
    /\ hand' = [hand EXCEPT ![w] = NoItem]
    /\ UNCHANGED state

Die ==
    /\ Crashes
    /\ hand' = [w \in Workers |-> NoItem]
    /\ UNCHANGED state

\* What was dropped is ready again.
Recover ==
    /\ \A w \in Workers : hand[w] = NoItem
    /\ state' = [i \in Items |-> IF state[i] = "taken" THEN "ready" ELSE state[i]]
    /\ UNCHANGED hand

ComeDue(i) ==
    /\ state[i] = "waiting"
    /\ state' = [state EXCEPT ![i] = "ready"]
    /\ UNCHANGED hand

Next ==
    \/ \E i \in Items : Add(i) \/ ComeDue(i)
    \/ \E w \in Workers, i \in Items : Take(w, i)
    \/ \E w \in Workers, s \in {"ready", "waiting", "settled"} : Put(w, s)
    \/ \E w \in Workers : Drop(w)
    \/ Die \/ Recover

Spec == Init /\ [][Next]_vars

=============================================================================
