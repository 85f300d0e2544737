--------------------------- MODULE AdmissionProofs ---------------------------
(***************************************************************************)
(* Theorems about enqueueUrl for any number of callers and URLs: the       *)
(* counter agrees with the rows, concurrent callers pass max_urls by less  *)
(* than their number, and the transaction implements its contract.         *)
(***************************************************************************)
EXTENDS Admission, FiniteSetTheorems, TLAPS

\* The callers that are past the gate and may still raise the counter.
Passed == {c \in Callers : pc[c] \in {"insert", "bump", "commit"}}

\* The gate leaves MaxUrls - 1 at most, and each caller past it adds one.
GateBound == counter + Cardinality(Passed) <= MaxUrls - 1 + Cardinality(Callers)

\* An uncommitted row is nobody else's, and not there yet.
RowsPrivate ==
    /\ \A c \in Inserted : arg[c] \notin rows
    /\ \A c, d \in Inserted : arg[c] = arg[d] => c = d
    /\ \A c, d \in Callers : pc[c] = "commit" /\ pc[d] = "commit" => c = d

\* A caller that looks its URL up met the row or a closed gate.
LimitTrue ==
    \A c \in Callers : pc[c] = "lookup" => arg[c] \in rows \/ counter >= MaxUrls

IInv == TypeOK /\ GateBound /\ RowsPrivate /\ LimitTrue /\ CounterMatchesRows

-----------------------------------------------------------------------------
LEMMA CallersFinite ==
    /\ Cardinality(Callers) \in Nat
    /\ \A S \in SUBSET Callers :
           /\ IsFiniteSet(S)
           /\ Cardinality(S) \in Nat
           /\ Cardinality(S) <= Cardinality(Callers)
BY AdmissionAssumption, FS_Subset, FS_CardinalityType

\* Types: the shape of the state every step keeps.
LEMMA TypeStep == TypeOK /\ [Next]_vars => TypeOK'
<1> SUFFICES ASSUME TypeOK, [Next]_vars PROVE TypeOK'
  OBVIOUS
<1> USE AdmissionAssumption DEF TypeOK, PC, Answer
<1>1. ASSUME NEW c \in Callers, Gate(c) PROVE TypeOK'
  BY <1>1 DEF Gate, Goto
<1>2. ASSUME NEW c \in Callers, Insert(c) PROVE TypeOK'
  BY <1>2 DEF Insert, Goto
<1>3. ASSUME NEW c \in Callers, Bump(c) PROVE TypeOK'
  BY <1>3 DEF Bump, Goto
<1>4. ASSUME NEW c \in Callers, Commit(c) PROVE TypeOK'
  BY <1>4 DEF Commit, Return
<1>5. ASSUME NEW c \in Callers, Lookup(c) PROVE TypeOK'
  BY <1>5 DEF Lookup, Return
<1>6. ASSUME NEW c \in Callers, Abort(c) PROVE TypeOK'
  BY <1>6 DEF Abort, Return
<1>7. ASSUME NEW c \in Callers, NEW u \in Urls, Begin(c, u) PROVE TypeOK'
  BY <1>7 DEF Begin
<1>8. CASE UNCHANGED vars
  BY <1>8 DEF vars
<1> QED
  BY <1>1, <1>2, <1>3, <1>4, <1>5, <1>6, <1>7, <1>8 DEF Next, Step

\* A caller that passes the gate saw the counter below max_urls, and there are
\* no more callers than callers; one that commits leaves the gate's set.
LEMMA GateStep == TypeOK /\ GateBound /\ [Next]_vars => GateBound'
<1> SUFFICES ASSUME TypeOK, GateBound, [Next]_vars PROVE GateBound'
  OBVIOUS
<1> USE AdmissionAssumption, CallersFinite DEF TypeOK
<1>a. /\ IsFiniteSet(Passed) /\ Cardinality(Passed) \in Nat
      /\ IsFiniteSet(Passed') /\ Cardinality(Passed') \in Nat
      /\ Cardinality(Passed') <= Cardinality(Callers)
  <2>1. Passed \in SUBSET Callers /\ Passed' \in SUBSET Callers
    BY DEF Passed
  <2> QED
    BY <2>1
\* A step that adds no caller to the set and keeps the counter.
<1>b. ASSUME counter' = counter, Passed' \subseteq Passed PROVE GateBound'
  <2>1. Cardinality(Passed') <= Cardinality(Passed)
    BY <1>a, <1>b, FS_Subset
  <2> QED
    BY <2>1, <1>a, <1>b DEF GateBound
<1>1. ASSUME NEW c \in Callers, Gate(c) PROVE GateBound'
  <2>1. CASE counter < MaxUrls
    BY <2>1, <1>1, <1>a DEF Gate, GateBound
  <2>2. CASE ~(counter < MaxUrls)
    <3>1. Passed' \subseteq Passed
      BY <2>2, <1>1 DEF Gate, Goto, Passed, PC
    <3> QED
      BY <3>1, <1>1, <1>b DEF Gate
  <2> QED
    BY <2>1, <2>2
<1>2. ASSUME NEW c \in Callers, Insert(c) PROVE GateBound'
  BY <1>2, <1>b DEF Insert, Goto, Passed, PC
<1>3. ASSUME NEW c \in Callers, Bump(c) PROVE GateBound'
  BY <1>3, <1>b DEF Bump, Goto, Passed, PC
<1>4. ASSUME NEW c \in Callers, Commit(c) PROVE GateBound'
  <2>1. c \in Passed /\ Passed' = Passed \ {c}
    BY <1>4 DEF Commit, Return, Passed, PC
  <2>2. Cardinality(Passed') = Cardinality(Passed) - 1
    BY <2>1, <1>a, FS_RemoveElement
  <2>3. counter' = counter + 1
    BY <1>4 DEF Commit
  <2> QED
    BY <2>2, <2>3, <1>a DEF GateBound
<1>5. ASSUME NEW c \in Callers, Lookup(c) PROVE GateBound'
  BY <1>5, <1>b DEF Lookup, Return, Passed, PC
<1>6. ASSUME NEW c \in Callers, Abort(c) PROVE GateBound'
  BY <1>6, <1>b DEF Abort, Return, Passed, PC
<1>7. ASSUME NEW c \in Callers, NEW u \in Urls, Begin(c, u) PROVE GateBound'
  BY <1>7, <1>b DEF Begin, Passed, PC
<1>8. CASE UNCHANGED vars
  BY <1>8, <1>b DEF vars, Passed
<1> QED
  BY <1>1, <1>2, <1>3, <1>4, <1>5, <1>6, <1>7, <1>8 DEF Next, Step

\* The wait at the unique index keeps uncommitted rows apart, the wait for the
\* run's row leaves one transaction at its commit.
LEMMA PrivateStep == TypeOK /\ RowsPrivate /\ [Next]_vars => RowsPrivate'
<1> SUFFICES ASSUME TypeOK, RowsPrivate, [Next]_vars PROVE RowsPrivate'
  OBVIOUS
<1> USE DEF TypeOK, RowsPrivate, Inserted, PC
<1>1. ASSUME NEW c \in Callers, Gate(c) PROVE RowsPrivate'
  BY <1>1 DEF Gate, Goto
<1>2. ASSUME NEW c \in Callers, Insert(c) PROVE RowsPrivate'
  BY <1>2 DEF Insert, Goto
<1>3. ASSUME NEW c \in Callers, Bump(c) PROVE RowsPrivate'
  BY <1>3 DEF Bump, Goto, RunLocked
<1>4. ASSUME NEW c \in Callers, Commit(c) PROVE RowsPrivate'
  BY <1>4 DEF Commit, Return
<1>5. ASSUME NEW c \in Callers, Lookup(c) PROVE RowsPrivate'
  BY <1>5 DEF Lookup, Return
<1>6. ASSUME NEW c \in Callers, Abort(c) PROVE RowsPrivate'
  BY <1>6 DEF Abort, Return
<1>7. ASSUME NEW c \in Callers, NEW u \in Urls, Begin(c, u) PROVE RowsPrivate'
  BY <1>7 DEF Begin
<1>8. CASE UNCHANGED vars
  BY <1>8 DEF vars
<1> QED
  BY <1>1, <1>2, <1>3, <1>4, <1>5, <1>6, <1>7, <1>8 DEF Next, Step

\* Rows stay and the counter never falls.
LEMMA LimitStep == TypeOK /\ LimitTrue /\ [Next]_vars => LimitTrue'
<1> SUFFICES ASSUME TypeOK, LimitTrue, [Next]_vars PROVE LimitTrue'
  OBVIOUS
<1> USE AdmissionAssumption DEF TypeOK, LimitTrue, PC
<1>1. ASSUME NEW c \in Callers, Gate(c) PROVE LimitTrue'
  BY <1>1 DEF Gate, Goto
<1>2. ASSUME NEW c \in Callers, Insert(c) PROVE LimitTrue'
  BY <1>2 DEF Insert, Goto
<1>3. ASSUME NEW c \in Callers, Bump(c) PROVE LimitTrue'
  BY <1>3 DEF Bump, Goto
<1>4. ASSUME NEW c \in Callers, Commit(c) PROVE LimitTrue'
  BY <1>4 DEF Commit, Return
<1>5. ASSUME NEW c \in Callers, Lookup(c) \/ Abort(c) PROVE LimitTrue'
  BY <1>5 DEF Lookup, Abort, Return
<1>6. ASSUME NEW c \in Callers, NEW u \in Urls, Begin(c, u) PROVE LimitTrue'
  BY <1>6 DEF Begin
<1>7. CASE UNCHANGED vars
  BY <1>7 DEF vars
<1> QED
  BY <1>1, <1>2, <1>3, <1>4, <1>5, <1>6, <1>7 DEF Next, Step

\* Only a commit changes the rows, and it adds one that was not there.
LEMMA CountStep ==
    TypeOK /\ RowsPrivate /\ CounterMatchesRows /\ [Next]_vars => CounterMatchesRows'
<1> SUFFICES ASSUME TypeOK, RowsPrivate, CounterMatchesRows, [Next]_vars
             PROVE  CounterMatchesRows'
  OBVIOUS
<1>1. IsFiniteSet(rows)
  BY AdmissionAssumption, FS_Subset DEF TypeOK
<1>2. ASSUME NEW c \in Callers, Commit(c) PROVE CounterMatchesRows'
  <2>1. arg[c] \notin rows
    BY <1>2 DEF Commit, RowsPrivate, Inserted
  <2>2. Cardinality(rows \cup {arg[c]}) = Cardinality(rows) + 1
    BY <1>1, <2>1, FS_AddElement
  <2> QED
    BY <1>2, <2>2 DEF Commit, CounterMatchesRows
<1>3. ASSUME UNCHANGED <<rows, counter>> PROVE CounterMatchesRows'
  BY <1>3 DEF CounterMatchesRows
<1> QED
  BY <1>2, <1>3 DEF Next, Step, Gate, Insert, Bump, Lookup, Abort, Begin, vars

-----------------------------------------------------------------------------
LEMMA InitInv == Init => IInv
<1> SUFFICES ASSUME Init PROVE IInv
  OBVIOUS
<1>1. TypeOK /\ RowsPrivate /\ LimitTrue
  BY DEF Init, TypeOK, RowsPrivate, LimitTrue, Inserted, PC, Answer
<1>2. CounterMatchesRows
  BY FS_EmptySet DEF Init, CounterMatchesRows
<1>3. GateBound
  <2>1. Passed = {}
    BY DEF Init, Passed
  <2> QED
    BY <2>1, FS_EmptySet, CallersFinite, AdmissionAssumption DEF Init, GateBound
<1> QED
  BY <1>1, <1>2, <1>3 DEF IInv

\* The inductive invariant of enqueueUrl.
THEOREM Invariance == Spec => []IInv
<1>1. IInv /\ [Next]_vars => IInv'
  BY TypeStep, GateStep, PrivateStep, LimitStep, CountStep DEF IInv
<1> QED
  BY InitInv, <1>1, PTL DEF Spec

\* Every reachable state is well typed: an idle caller, and no other, has no URL.
THEOREM TypeTheorem == Spec => []TypeOK
<1>1. IInv => TypeOK
  BY DEF IInv
<1> QED
  BY Invariance, <1>1, PTL

\* The counter that gates admission is the number of admitted rows.
THEOREM CounterTheorem == Spec => []CounterMatchesRows
<1>1. IInv => CounterMatchesRows
  BY DEF IInv
<1> QED
  BY Invariance, <1>1, PTL

\* However many callers run enqueueUrl at once, the run admits fewer than
\* max_urls plus that number of URLs.
THEOREM OvershootTheorem == Spec => []Overshoot
<1>1. IInv => Overshoot
  <2> SUFFICES ASSUME IInv PROVE Overshoot
    OBVIOUS
  <2>1. Cardinality(Passed) \in Nat
    BY CallersFinite DEF Passed
  <2> QED
    BY <2>1, CallersFinite, AdmissionAssumption DEF IInv, TypeOK, GateBound, Overshoot
<1> QED
  BY Invariance, <1>1, PTL

\* The contract counts as the transaction does.
LEMMA SameCount == \A S : Contract!Cardinality(S) = Cardinality(S)
BY Zenon DEF Contract!Cardinality, Cardinality

\* Every step of the transaction is a step of the contract or leaves it alone.
LEMMA ContractStep == IInv /\ [Next]_vars => [Contract!Next]_(Contract!vars)
<1> SUFFICES ASSUME IInv, [Next]_vars PROVE [Contract!Next]_(Contract!vars)
  OBVIOUS
<1> USE DEF IInv, TypeOK, PC, Contract!vars
<1>1. ASSUME NEW c \in Callers, Commit(c) PROVE Contract!Next
  <2>1. arg[c] \notin rows /\ arg[c] # NoUrl
    BY <1>1 DEF Commit, RowsPrivate, Inserted
  <2>2. Cardinality(rows) < MaxUrls + Cardinality(Callers) - 1
    <3>1. c \in Passed /\ Passed \in SUBSET Callers
      BY <1>1 DEF Commit, Passed
    <3>2. Cardinality(Passed) \in Nat /\ Cardinality(Passed) # 0
      BY <3>1, CallersFinite, FS_EmptySet
    <3> QED
      BY <3>2, CallersFinite, AdmissionAssumption DEF GateBound, CounterMatchesRows
  <2>3. Contract!Admit(c)
    BY <1>1, <2>1, <2>2, SameCount DEF Commit, Contract!Admit
  <2>4. Contract!Reply(c, "inserted") \/ Contract!Reply(c, "error")
    BY <1>1, <2>1 DEF Commit, Return, Contract!Reply
  <2> QED
    BY <2>3, <2>4 DEF Contract!Next, Contract!Inserted, Contract!Error
<1>2. ASSUME NEW c \in Callers, Lookup(c) PROVE Contract!Next
  <2>1. arg[c] # NoUrl /\ rows' = rows
    BY <1>2 DEF Lookup
  <2>2. CASE arg[c] \in rows
    <3>1. Contract!Reply(c, "existing")
      BY <1>2, <2>1, <2>2 DEF Lookup, Return, Contract!Reply
    <3> QED
      BY <2>1, <2>2, <3>1 DEF Contract!Next, Contract!Existing
  <2>3. CASE arg[c] \notin rows
    <3>1. Contract!Reply(c, "limit")
      BY <1>2, <2>1, <2>3 DEF Lookup, Return, Contract!Reply
    <3>2. Cardinality(rows) >= MaxUrls
      BY <1>2, <2>3 DEF Lookup, LimitTrue, CounterMatchesRows
    <3>3. Contract!Cardinality(rows) >= MaxUrls
      BY <3>2, SameCount
    <3> QED
      BY <2>1, <2>3, <3>1, <3>3 DEF Contract!Next, Contract!Full
  <2> QED
    BY <2>2, <2>3
<1>3. ASSUME NEW c \in Callers, Abort(c) PROVE Contract!Next
  BY <1>3 DEF Abort, Return, Contract!Next, Contract!Error, Contract!Reply
<1>4. ASSUME NEW c \in Callers, NEW u \in Urls, Begin(c, u) PROVE Contract!Next
  BY <1>4, AdmissionAssumption DEF Begin, Contract!Next, Contract!Ask
<1>5. ASSUME NEW c \in Callers, Gate(c) \/ Insert(c) \/ Bump(c)
      PROVE UNCHANGED Contract!vars
  BY <1>5 DEF Gate, Insert, Bump, Goto
<1>6. CASE UNCHANGED vars
  BY <1>6 DEF vars
<1> QED
  BY <1>1, <1>2, <1>3, <1>4, <1>5, <1>6 DEF Next, Step

\* enqueueUrl, statement by statement, implements its contract.
THEOREM ContractTheorem == Spec => ImplementsContract
<1>1. Init => Contract!Init
  BY DEF Init, Contract!Init
<1> QED
  BY Invariance, <1>1, ContractStep, PTL DEF Spec, ImplementsContract, Contract!Spec
=============================================================================
