--------------------------- MODULE UrlRulesProofs ---------------------------
(***************************************************************************)
(* Proofs about UrlRules, for all URLs: two URLs with one key name one     *)
(* page, a page whose parameters are told apart has one key, and a key is  *)
(* the key of itself.                                                      *)
(*                                                                         *)
(* The key sorts the parameters.  That they can be sorted, and those told  *)
(* apart in one way only, is not an induction here: the least length at    *)
(* which it fails, and the least prefix in which two sorted sequences      *)
(* differ, cannot be.                                                      *)
(***************************************************************************)
EXTENDS UrlRules, FiniteSetTheorems, FunctionTheorems, WellFoundedInduction, TLAPS

-----------------------------------------------------------------------------
(* Numbers and bijections.                                                 *)

\* A set of numbers has a least one: what stands for induction.
LEMMA LeastNat ==
    ASSUME NEW S \in SUBSET Nat, S # {}
    PROVE  \E n \in S : \A m \in S : n <= m
<1> DEFINE Less == {ss \in Nat \X Nat : ss[1] < ss[2]}
<1>1. IsWellFoundedOn(Less, Nat)
    BY NatLessThanWellFounded, Zenon DEF OpToRel
<1> HIDE DEF Less
<1>2. PICK n \in S : \A m \in S : <<m, n>> \notin Less
    BY <1>1, WFMin
<1>3. \A m \in S : ~(m < n)
    BY <1>2 DEF Less
<1>4. QED  BY <1>3

LEMMA BijectionFacts ==
    ASSUME NEW S, NEW T, NEW f \in Bijection(S, T)
    PROVE  /\ f \in [S -> T]
           /\ \A i, j \in S : f[i] = f[j] => i = j
           /\ \A j \in T : \E i \in S : f[i] = j
BY Fun_BijectionProperties

LEMMA SelfBijection ==
    \A n \in Nat : \A f \in Bijection(1 .. n, 1 .. n) :
        /\ f \in [1 .. n -> 1 .. n] /\ \A i, j \in 1 .. n : f[i] = f[j] => i = j
        /\ \A j \in 1 .. n : \E i \in 1 .. n : f[i] = j
<1>1. \A S : \A f \in Bijection(S, S) :
          /\ f \in [S -> S] /\ \A i, j \in S : f[i] = f[j] => i = j
          /\ \A j \in S : \E i \in S : f[i] = j
    BY BijectionFacts
<1>2. QED  BY <1>1, Zenon

LEMMA PigeonHole ==
    ASSUME NEW S, NEW T, NEW f \in [S -> T], IsFiniteSet(S), IsFiniteSet(T),
           Cardinality(T) < Cardinality(S)
    PROVE  \E x, y \in S : x # y /\ f[x] = f[y]
BY FS_PigeonHole

LEMMA IntervalSize ==
    ASSUME NEW n \in Nat
    PROVE  IsFiniteSet(1 .. n) /\ Cardinality(1 .. n) = n
<1>1. 1 \in Int /\ n \in Int
    OBVIOUS
<1>2. IsFiniteSet(1 .. n) /\ Cardinality(1 .. n) = (IF 1 > n THEN 0 ELSE n - 1 + 1)
    BY <1>1, FS_Interval
<1>3. QED  BY <1>2

\* An injection of a finite interval into itself is a bijection.
LEMMA Bijective ==
    ASSUME NEW n \in Nat, NEW f \in [1 .. n -> 1 .. n],
           \A i, j \in 1 .. n : f[i] = f[j] => i = j
    PROVE  f \in Bijection(1 .. n, 1 .. n)
<1>1. f \in Injection(1 .. n, 1 .. n)
    BY Fun_IsInj
<1>2. IsFiniteSet(1 .. n)
    BY FS_Interval
<1>3. f \in Surjection(1 .. n, 1 .. n)
    BY <1>1, <1>2, FS_Injection
<1>4. QED  BY <1>1, <1>3 DEF Bijection

-----------------------------------------------------------------------------
(* The order of the parameters.                                            *)

\* ~Before(q, p), p comes no later than q, is a total preorder; parameters of
\* which neither comes before the other have the same places.
LEMMA BeforeOrder ==
    /\ \A p \in Param : ~Before(p, p)
    /\ \A p, q, r \in Param : ~Before(q, p) /\ ~Before(r, q) => ~Before(r, p)
    /\ \A p, q \in Param : Before(p, q) => ~Before(q, p)
    /\ \A p, q \in Param :
           \/ Before(p, q) \/ Before(q, p)
           \/ Place(p[1]) = Place(q[1]) /\ Place(p[2]) = Place(q[2])
<1>1. \A p \in Param : Place(p[1]) \in Nat /\ Place(p[2]) \in Nat
    BY DEF Param, Text, Place
<1>2. QED
    BY <1>1 DEF Before

\* In a stable sort, the parameter at m comes last.
IsLast(q, m, S) ==
    \A i \in S \ {m} : ~Before(q[m], q[i]) /\ (Before(q[i], q[m]) \/ i < m)

\* There is such a parameter: else there is a shortest prefix without.
LEMMA LastParam ==
    ASSUME NEW query \in Params, query # <<>>
    PROVE  \E m \in DOMAIN query : IsLast(query, m, DOMAIN query)
<1> DEFINE HasLast(k) == \E m \in 1 .. k : IsLast(query, m, 1 .. k)
           Without == {k \in Nat : k \in 1 .. Len(query) /\ ~HasLast(k)}
<1>1. /\ Len(query) \in Nat \ {0} /\ DOMAIN query = 1 .. Len(query)
      /\ \A i \in 1 .. Len(query) : query[i] \in Param
    BY DEF Params
<1>2. SUFFICES Without = {}
    <2>1. Len(query) \in 1 .. Len(query)
        BY <1>1
    <2>2. HasLast(Len(query))
        BY <1>1, <2>1
    <2>3. QED  BY <1>1, <2>2
<1>3. SUFFICES ASSUME Without # {} PROVE FALSE
    OBVIOUS
<1>4. PICK k \in Without : \A n \in Without : k <= n
    BY <1>3, LeastNat
<1>5. k \in Nat /\ k \in 1 .. Len(query) /\ ~HasLast(k)
    BY <1>4
<1>6. k # 1
    <2>1. IsLast(query, 1, 1 .. 1)
        BY DEF IsLast
    <2>2. HasLast(1)
        BY <2>1
    <2> HIDE DEF HasLast
    <2>3. QED  BY <1>5, <2>2
<1>7. k - 1 \in Nat /\ k - 1 \in 1 .. Len(query) /\ k \notin 1 .. k - 1
    BY <1>1, <1>5, <1>6
<1>8. HasLast(k - 1)
    <2>1. ~HasLast(k - 1) => k - 1 \in Without
        BY <1>7
    <2>2. k - 1 \in Without => k <= k - 1
        BY <1>4
    <2> HIDE DEF HasLast, Without
    <2>3. QED  BY <1>5, <2>1, <2>2
<1> HIDE DEF Without
<1>9. PICK m \in 1 .. k - 1 : IsLast(query, m, 1 .. k - 1)
    BY <1>8
<1>10. /\ m \in 1 .. k /\ query[m] \in Param /\ query[k] \in Param
       /\ \A i \in 1 .. k - 1 : query[i] \in Param
       /\ \A i \in 1 .. k : i = k \/ (i \in 1 .. k - 1 /\ i < k)
    <2>1. m \in 1 .. k /\ \A i \in 1 .. k : i = k \/ (i \in 1 .. k - 1 /\ i < k)
        BY <1>5, <1>9
    <2>2. 1 .. k \subseteq 1 .. Len(query) /\ 1 .. k - 1 \subseteq 1 .. Len(query)
        BY <1>1, <1>5
    <2>3. QED  BY <1>1, <1>5, <2>1, <2>2
<1>11. CASE Before(query[k], query[m])
    <2>1. ~Before(query[m], query[k])
        BY <1>10, <1>11, BeforeOrder
    <2>2. IsLast(query, m, 1 .. k)
        BY <1>9, <1>10, <1>11, <2>1 DEF IsLast
    <2>3. QED  BY <1>5, <1>10, <2>2
<1>12. CASE ~Before(query[k], query[m])
    <2>1. \A i \in 1 .. k - 1 : ~Before(query[m], query[i])
        BY <1>9, <1>10, BeforeOrder DEF IsLast
    <2>2. \A i \in 1 .. k - 1 : ~Before(query[k], query[i])
        BY <1>10, <1>12, <2>1, BeforeOrder
    <2>3. IsLast(query, k, 1 .. k)
        BY <1>10, <2>2 DEF IsLast
    <2>4. k \in 1 .. k
        BY <1>5
    <2>5. QED  BY <1>5, <2>3, <2>4
<1>13. QED  BY <1>11, <1>12

-----------------------------------------------------------------------------
(* Every sequence of parameters can be put in order.                       *)

Ordered(s) == \A i, j \in DOMAIN s : i < j => ~Before(s[j], s[i])
Sortable(n) ==
    \A q \in [1 .. n -> Param] :
        \E p \in Bijection(1 .. n, 1 .. n) : Arranges(p, q)

\* The last parameter last, and the others as they are sorted without it.
LEMMA SortableStep ==
    ASSUME NEW n \in Nat \ {0}, Sortable(n - 1)
    PROVE  Sortable(n)
<1>1. SUFFICES ASSUME NEW q \in [1 .. n -> Param]
               PROVE  \E p \in Bijection(1 .. n, 1 .. n) : Arranges(p, q)
    BY DEF Sortable
<1>2. q \in Params /\ q # <<>> /\ DOMAIN q = 1 .. n
    BY DEF Params
<1>3. PICK m \in 1 .. n : IsLast(q, m, 1 .. n)
    BY <1>2, LastParam
<1> DEFINE place == [i \in 1 .. n - 1 |-> IF i < m THEN i ELSE i + 1]
           rest == [i \in 1 .. n - 1 |-> q[place[i]]]
<1>4. \A i \in 1 .. n : i = n \/ (i \in 1 .. n - 1 /\ i # n)
    OBVIOUS
<1>5. /\ \A i \in 1 .. n - 1 : place[i] \in 1 .. n /\ place[i] # m
      /\ \A i, j \in 1 .. n - 1 : i < j <=> place[i] < place[j]
      /\ \A i, j \in 1 .. n - 1 : place[i] = place[j] => i = j
    OBVIOUS
<1> HIDE DEF place
<1>6. rest \in [1 .. n - 1 -> Param]
    BY <1>5
<1>7. PICK p \in Bijection(1 .. n - 1, 1 .. n - 1) : Arranges(p, rest)
    BY <1>6 DEF Sortable
<1>8. /\ p \in [1 .. n - 1 -> 1 .. n - 1]
      /\ \A i, j \in 1 .. n - 1 : p[i] = p[j] => i = j
    <2>1. n - 1 \in Nat /\ p \in Bijection(1 .. n - 1, 1 .. n - 1)
        BY <1>7
    <2>2. QED  BY <2>1, SelfBijection, Zenon
<1> DEFINE perm == [i \in 1 .. n |-> IF i = n THEN m ELSE place[p[i]]]
<1>9. perm[n] = m /\ \A i \in 1 .. n - 1 : perm[i] = place[p[i]] /\ q[perm[i]] = rest[p[i]]
    BY <1>8
<1>10. perm \in [1 .. n -> 1 .. n]
    BY <1>4, <1>5, <1>8
<1> HIDE DEF perm
<1>11. ASSUME NEW i \in 1 .. n, NEW j \in 1 .. n, perm[i] = perm[j]
       PROVE  i = j
    <2>1. \A k \in 1 .. n - 1 : p[k] \in 1 .. n - 1 /\ perm[k] # m
        <3>1. \A k \in 1 .. n - 1 : p[k] \in 1 .. n - 1
            BY <1>8, Zenon
        <3>2. ASSUME NEW k \in 1 .. n - 1 PROVE perm[k] # m
            <4>1. perm[k] = place[p[k]] /\ p[k] \in 1 .. n - 1
                BY <1>9, <3>1
            <4>2. \A l \in 1 .. n - 1 : place[l] # m
                BY <1>5
            <4>3. QED  BY <4>1, <4>2, Zenon
        <3>3. QED  BY <3>1, <3>2
    <2>2. CASE i \in 1 .. n - 1 /\ j \in 1 .. n - 1
        <3>1. place[p[i]] = place[p[j]]
            BY <1>9, <1>11, <2>2
        <3>2. p[i] = p[j]
            BY <1>5, <2>1, <2>2, <3>1, Zenon
        <3>3. QED  BY <1>8, <2>2, <3>2, Zenon
    <2>3. perm[n] = m
        BY <1>9
    <2>4. CASE i = n /\ j \in 1 .. n - 1
        BY <1>11, <2>1, <2>3, <2>4, Zenon
    <2>5. CASE j = n /\ i \in 1 .. n - 1
        BY <1>11, <2>1, <2>3, <2>5, Zenon
    <2>6. QED  BY <1>4, <2>2, <2>4, <2>5, Zenon
<1>12. perm \in Bijection(1 .. n, 1 .. n)
    BY <1>10, <1>11, Bijective
<1>13. \A i, j \in 1 .. n - 1 : i < j =>
           /\ ~Before(rest[p[j]], rest[p[i]])
           /\ Before(rest[p[i]], rest[p[j]]) \/ p[i] < p[j]
    BY <1>6, <1>7 DEF Arranges
<1> HIDE DEF rest
<1>14. ASSUME NEW i \in 1 .. n, NEW j \in 1 .. n, i < j
       PROVE  /\ ~Before(q[perm[j]], q[perm[i]])
              /\ Before(q[perm[i]], q[perm[j]]) \/ perm[i] < perm[j]
    <2>1. i \in 1 .. n - 1
        BY <1>14
    <2>2. CASE j = n
        <3>1. perm[i] \in (1 .. n) \ {m}
            BY <1>5, <1>8, <1>9, <2>1
        <3>2. QED  BY <1>3, <1>9, <2>2, <3>1 DEF IsLast
    <2>3. CASE j # n
        <3>1. j \in 1 .. n - 1
            BY <2>3
        <3>2. p[i] < p[j] => perm[i] < perm[j]
            BY <1>5, <1>8, <1>9, <2>1, <3>1
        <3>3. QED  BY <1>9, <1>13, <1>14, <2>1, <3>1, <3>2
    <2>4. QED  BY <2>2, <2>3
<1>15. Arranges(perm, q)
    BY <1>2, <1>14 DEF Arranges
<1>16. QED  BY <1>12, <1>15

LEMMA AllSortable == \A n \in Nat : Sortable(n)
<1> DEFINE Unsortable == {n \in Nat : ~Sortable(n)}
<1>1. SUFFICES ASSUME Unsortable # {} PROVE FALSE
    OBVIOUS
<1>2. PICK n \in Unsortable : \A k \in Unsortable : n <= k
    BY <1>1, LeastNat
<1>3. Sortable(0)
    <2>1. SUFFICES ASSUME NEW q \in [1 .. 0 -> Param]
                   PROVE  \E p \in Bijection(1 .. 0, 1 .. 0) : Arranges(p, q)
        BY DEF Sortable
    <2>2. [i \in 1 .. 0 |-> i] \in Bijection(1 .. 0, 1 .. 0)
        BY Bijective
    <2>3. \A p : Arranges(p, q)
        BY DEF Arranges
    <2>4. QED  BY <2>2, <2>3
<1>4. n \in Nat /\ ~Sortable(n)
    BY <1>2
<1>5. n # 0
    BY <1>3, <1>4
<1>6. n - 1 \in Nat /\ Sortable(n - 1)
    <2>1. n - 1 \in Nat
        BY <1>4, <1>5
    <2>2. ~Sortable(n - 1) => n - 1 \in Unsortable
        BY <2>1
    <2>3. n - 1 \in Unsortable => n <= n - 1
        BY <1>2
    <2>4. QED  BY <1>4, <2>1, <2>2, <2>3
<1>7. QED  BY <1>4, <1>5, <1>6, SortableStep

-----------------------------------------------------------------------------
(* In one way only, if they are told apart; and not again.                 *)

\* Two sequences of the same parameters, told apart, both in order, agree.
LEMMA OrderedOnce ==
    ASSUME NEW n \in Nat, NEW s \in [1 .. n -> Param], NEW t \in [1 .. n -> Param],
           Ordered(s), Ordered(t), ToldApart(t),
           NEW match \in Bijection(1 .. n, 1 .. n), \A i \in 1 .. n : s[i] = t[match[i]]
    PROVE  \A i \in 1 .. n : ~Before(s[i], t[i])
<1>1. SUFFICES ASSUME NEW i \in 1 .. n, Before(s[i], t[i]) PROVE FALSE
    OBVIOUS
<1>2. /\ match \in [1 .. n -> 1 .. n]
      /\ \A j, k \in 1 .. n : match[j] = match[k] => j = k
    BY SelfBijection, Zenon
<1>3. ASSUME NEW k \in 1 .. i
      PROVE  match[k] \in 1 .. i - 1
    <2>1. k \in 1 .. n /\ match[k] \in 1 .. n
        BY <1>2, <1>3
    <2>2. k = i \/ ~Before(s[i], s[k])
        BY <1>3, <2>1 DEF Ordered
    <2>3. ~Before(s[i], s[k])
        BY <2>1, <2>2, BeforeOrder
    <2>4. ASSUME match[k] >= i PROVE FALSE
        <3>1. match[k] = i \/ ~Before(t[match[k]], t[i])
            BY <2>1, <2>4 DEF Ordered
        <3>2. ~Before(t[match[k]], t[i])
            BY <2>1, <3>1, BeforeOrder
        <3>3. ~Before(s[k], t[i])
            BY <2>1, <3>2
        <3>4. s[k] \in Param /\ s[i] \in Param /\ t[i] \in Param
            BY <2>1
        <3>5. ~Before(t[i], s[i])
            BY <1>1, <3>4, BeforeOrder
        <3>6. t[i] = s[k]
            <4>1. ~Before(s[k], t[i]) /\ ~Before(t[i], s[k])
                BY <1>1, <2>3, <3>3, <3>4, <3>5, BeforeOrder
            <4>2. /\ Place(s[k][1]) = Place(t[i][1]) /\ Place(s[k][2]) = Place(t[i][2])
                BY <3>4, <4>1, BeforeOrder
            <4>3. s[k] = t[match[k]] /\ DOMAIN t = 1 .. n
                BY <2>1
            <4>4. QED  BY <2>1, <4>2, <4>3 DEF ToldApart
        <3>7. QED  BY <1>1, <2>3, <3>6
    <2>5. QED  BY <2>1, <2>4
<1>4. /\ IsFiniteSet(1 .. i) /\ IsFiniteSet(1 .. i - 1)
      /\ Cardinality(1 .. i - 1) < Cardinality(1 .. i)
    <2>1. 1 \in Int /\ i \in Int /\ i - 1 \in Int /\ i >= 1
        OBVIOUS
    <2>2. /\ IsFiniteSet(1 .. i) /\ IsFiniteSet(1 .. i - 1)
          /\ Cardinality(1 .. i) = (IF 1 > i THEN 0 ELSE i - 1 + 1)
          /\ Cardinality(1 .. i - 1) = (IF 1 > i - 1 THEN 0 ELSE i - 1 - 1 + 1)
        BY <2>1, FS_Interval
    <2>3. QED  BY <2>1, <2>2
<1> DEFINE low == [k \in 1 .. i |-> match[k]]
<1>5. low \in [1 .. i -> 1 .. i - 1]
    BY <1>3
<1>6. PICK j, k \in 1 .. i : j # k /\ low[j] = low[k]
    <2> DEFINE S == 1 .. i
               T == 1 .. i - 1
    <2>1. /\ IsFiniteSet(S) /\ IsFiniteSet(T) /\ Cardinality(T) < Cardinality(S)
          /\ low \in [S -> T]
        BY <1>4, <1>5
    <2> HIDE DEF low, S, T
    <2>2. \E x, y \in S : x # y /\ low[x] = low[y]
        BY <2>1, PigeonHole
    <2>3. QED  BY <2>2 DEF S
<1>7. j \in 1 .. n /\ k \in 1 .. n /\ match[j] = match[k]
    BY <1>6
<1>8. QED  BY <1>2, <1>6, <1>7

\* Two sequences with the same parameters are equally long.
LEMMA SameLength ==
    ASSUME NEW q \in Params, NEW r \in Params, SameParams(q, r)
    PROVE  Len(q) = Len(r)
<1>1. /\ DOMAIN q = 1 .. Len(q) /\ Len(q) \in Nat
      /\ DOMAIN r = 1 .. Len(r) /\ Len(r) \in Nat
    BY DEF Params
<1>2. ExistsBijection(1 .. Len(q), 1 .. Len(r))
    BY <1>1 DEF SameParams, ExistsBijection
<1>3. /\ IsFiniteSet(1 .. Len(q)) /\ IsFiniteSet(1 .. Len(r))
      /\ Cardinality(1 .. Len(q)) = Len(q) /\ Cardinality(1 .. Len(r)) = Len(r)
    BY <1>1, IntervalSize
<1>4. Cardinality(1 .. Len(r)) = Cardinality(1 .. Len(q))
    BY <1>2, <1>3, FS_Bijection, Zenon
<1>5. QED  BY <1>3, <1>4

\* To have the same parameters is an equivalence.
LEMMA SameParamsEquivalence ==
    /\ \A q \in Params : SameParams(q, q)
    /\ \A q, r \in Params : SameParams(q, r) => SameParams(r, q)
    /\ \A q, r, s \in Params : SameParams(q, r) /\ SameParams(r, s) => SameParams(q, s)
<1>1. ASSUME NEW q \in Params PROVE SameParams(q, q)
    <2> DEFINE id == [i \in DOMAIN q |-> i]
    <2>1. id \in Bijection(DOMAIN q, DOMAIN q)
        BY Fun_IsBij
    <2>2. \A i \in DOMAIN q : q[i] = q[id[i]]
        OBVIOUS
    <2>3. QED  BY <2>1, <2>2 DEF SameParams
<1>2. ASSUME NEW q \in Params, NEW r \in Params, SameParams(q, r) PROVE SameParams(r, q)
    <2>1. PICK match \in Bijection(DOMAIN q, DOMAIN r) : \A i \in DOMAIN q : q[i] = r[match[i]]
        BY <1>2 DEF SameParams
    <2>2. /\ match \in [DOMAIN q -> DOMAIN r]
          /\ \A j \in DOMAIN r : \E i \in DOMAIN q : match[i] = j
        BY Fun_BijectionProperties
    <2> DEFINE back == Inverse(match, DOMAIN q, DOMAIN r)
    <2>3. /\ back \in Bijection(DOMAIN r, DOMAIN q)
          /\ \A i \in DOMAIN q : back[match[i]] = i
        BY Fun_BijInverse
    <2> HIDE DEF back
    <2>4. \A j \in DOMAIN r : r[j] = q[back[j]]
        BY <2>1, <2>2, <2>3
    <2>5. QED  BY <2>3, <2>4 DEF SameParams
<1>3. ASSUME NEW q \in Params, NEW r \in Params, NEW s \in Params,
             SameParams(q, r), SameParams(r, s)
      PROVE  SameParams(q, s)
    <2>1. PICK f \in Bijection(DOMAIN q, DOMAIN r) : \A i \in DOMAIN q : q[i] = r[f[i]]
        BY <1>3 DEF SameParams
    <2>2. PICK g \in Bijection(DOMAIN r, DOMAIN s) : \A i \in DOMAIN r : r[i] = s[g[i]]
        BY <1>3 DEF SameParams
    <2>3. f \in [DOMAIN q -> DOMAIN r]
        BY BijectionFacts
    <2> DEFINE both == [i \in DOMAIN q |-> g[f[i]]]
    <2>4. both \in Bijection(DOMAIN q, DOMAIN s)
        BY Fun_BijTransitive
    <2>5. \A i \in DOMAIN q : q[i] = s[both[i]]
        BY <2>1, <2>2, <2>3
    <2>6. QED  BY <2>4, <2>5 DEF SameParams
<1>4. QED  BY <1>1, <1>2, <1>3

\* What the sort makes of the parameters: the same ones, in order.
LEMMA SortedParamsFacts ==
    ASSUME NEW q \in Params
    PROVE  /\ SortedParams(q) \in Params
           /\ Ordered(SortedParams(q))
           /\ SameParams(SortedParams(q), q)
<1>1. DOMAIN q = 1 .. Len(q) /\ Len(q) \in Nat /\ q \in [1 .. Len(q) -> Param]
    BY DEF Params
<1>2. \E p \in Bijection(DOMAIN q, DOMAIN q) : Arranges(p, q)
    BY <1>1, AllSortable DEF Sortable
<1> DEFINE perm == CHOOSE p \in Bijection(DOMAIN q, DOMAIN q) : Arranges(p, q)
<1>3. perm \in Bijection(DOMAIN q, DOMAIN q) /\ Arranges(perm, q)
    BY <1>2
<1>4. SortedParams(q) = [i \in DOMAIN q |-> q[perm[i]]]
    BY DEF SortedParams
<1> HIDE DEF perm
<1>5. perm \in [DOMAIN q -> DOMAIN q]
    BY <1>3, BijectionFacts
<1>6. SortedParams(q) \in [1 .. Len(q) -> Param]
    BY <1>1, <1>4, <1>5
<1>7. SortedParams(q) \in Params
    BY <1>1, <1>6 DEF Params
<1>8. Ordered(SortedParams(q))
    BY <1>3, <1>4, <1>5 DEF Ordered, Arranges
<1>9. SameParams(SortedParams(q), q)
    BY <1>3, <1>4 DEF SameParams
<1>10. QED  BY <1>7, <1>8, <1>9

\* The same parameters are told apart or not, whatever their order.
LEMMA SameToldApart ==
    ASSUME NEW q \in Params, NEW r \in Params, SameParams(q, r), ToldApart(q)
    PROVE  ToldApart(r)
<1>1. PICK match \in Bijection(DOMAIN r, DOMAIN q) : \A i \in DOMAIN r : r[i] = q[match[i]]
    BY SameParamsEquivalence DEF SameParams
<1>2. match \in [DOMAIN r -> DOMAIN q]
    BY BijectionFacts
<1>3. QED  BY <1>1, <1>2 DEF ToldApart

\* Sequences in order with the same parameters, told apart, are equal.
LEMMA OrderedUnique ==
    ASSUME NEW s \in Params, NEW t \in Params, Ordered(s), Ordered(t), SameParams(s, t),
           ToldApart(s)
    PROVE  s = t
<1>1. PICK n \in Nat : n = Len(s)
    BY DEF Params
<1>2. /\ DOMAIN s = 1 .. n /\ DOMAIN t = 1 .. n
      /\ s \in [1 .. n -> Param] /\ t \in [1 .. n -> Param]
    BY <1>1, SameLength DEF Params
<1>3. SameParams(t, s) /\ ToldApart(t)
    BY SameParamsEquivalence, SameToldApart
<1>4. PICK match \in Bijection(1 .. n, 1 .. n) : \A i \in 1 .. n : s[i] = t[match[i]]
    BY <1>2 DEF SameParams
<1>5. \A i \in 1 .. n : ~Before(s[i], t[i])
    BY <1>2, <1>3, <1>4, OrderedOnce
<1>6. \A i \in 1 .. n : ~Before(t[i], s[i])
    <2>1. PICK back \in Bijection(1 .. n, 1 .. n) : \A i \in 1 .. n : t[i] = s[back[i]]
        BY <1>2, <1>3 DEF SameParams
    <2>2. QED  BY <1>2, <2>1, OrderedOnce
<1>7. ASSUME NEW i \in 1 .. n PROVE s[i] = t[i]
    <2>1. s[i] \in Param /\ t[i] \in Param /\ match[i] \in 1 .. n /\ s[i] = t[match[i]]
        BY <1>2, <1>4, SelfBijection
    <2>2. Place(s[i][1]) = Place(t[i][1]) /\ Place(s[i][2]) = Place(t[i][2])
        BY <1>5, <1>6, <2>1, BeforeOrder
    <2>3. QED  BY <1>2, <1>3, <2>1, <2>2 DEF ToldApart
<1>8. QED  BY <1>2, <1>7

\* The sort keeps two sequences of different parameters apart, and brings two of
\* the same together if they are told apart.
LEMMA SortedParamsSame ==
    ASSUME NEW q \in Params, NEW r \in Params
    PROVE  /\ SortedParams(q) = SortedParams(r) => SameParams(q, r)
           /\ SameParams(q, r) /\ ToldApart(q) => SortedParams(q) = SortedParams(r)
<1>1. /\ SortedParams(q) \in Params /\ SortedParams(r) \in Params
      /\ Ordered(SortedParams(q)) /\ Ordered(SortedParams(r))
      /\ SameParams(SortedParams(q), q) /\ SameParams(SortedParams(r), r)
    BY SortedParamsFacts
<1>2. ASSUME SortedParams(q) = SortedParams(r) PROVE SameParams(q, r)
    BY <1>1, <1>2, SameParamsEquivalence
<1>3. ASSUME SameParams(q, r), ToldApart(q) PROVE SortedParams(q) = SortedParams(r)
    <2>1. SameParams(SortedParams(q), SortedParams(r))
        BY <1>1, <1>3, SameParamsEquivalence
    <2>2. ToldApart(SortedParams(q))
        BY <1>1, <1>3, SameParamsEquivalence, SameToldApart
    <2>3. QED  BY <1>1, <2>1, <2>2, OrderedUnique
<1>4. QED  BY <1>2, <1>3

\* A bijection that keeps the order of all places is the identity: the least
\* place that it moves would have nowhere to go.
LEMMA OrderKept ==
    ASSUME NEW n \in Nat, NEW f \in Bijection(1 .. n, 1 .. n),
           \A i, j \in 1 .. n : i < j => f[i] < f[j]
    PROVE  \A i \in 1 .. n : f[i] = i
<1>1. /\ f \in [1 .. n -> 1 .. n] /\ \A i, j \in 1 .. n : f[i] = f[j] => i = j
      /\ \A j \in 1 .. n : \E i \in 1 .. n : f[i] = j
    BY SelfBijection, Zenon
<1> DEFINE Moved == {i \in Nat : i \in 1 .. n /\ f[i] # i}
<1>2. SUFFICES ASSUME Moved # {} PROVE FALSE
    OBVIOUS
<1>3. PICK i \in Moved : \A k \in Moved : i <= k
    BY <1>2, LeastNat
<1>4. i \in 1 .. n /\ f[i] # i /\ f[i] \in 1 .. n
    BY <1>1, <1>3
<1>5. \A k \in 1 .. n : k < i => f[k] = k
    BY <1>3
<1>6. f[i] > i
    <2>1. f[i] < i => f[f[i]] = f[i]
        BY <1>4, <1>5
    <2>2. f[f[i]] = f[i] => f[i] = i
        BY <1>1, <1>4, Zenon
    <2>3. QED  BY <1>4, <2>1, <2>2
<1>7. PICK k \in 1 .. n : f[k] = i
    BY <1>1, <1>4
<1>8. CASE k < i
    BY <1>5, <1>7, <1>8
<1>9. CASE k = i
    BY <1>4, <1>7, <1>9
<1>10. CASE i < k
    <2>1. f[i] < f[k]
        BY <1>4, <1>10
    <2>2. QED  BY <1>4, <1>6, <1>7, <2>1
<1>11. QED  BY <1>4, <1>8, <1>9, <1>10

\* What is in order stays as it is, parameters that compare equal included.
LEMMA SortedAlready ==
    ASSUME NEW s \in Params, Ordered(s)
    PROVE  SortedParams(s) = s
<1>1. DOMAIN s = 1 .. Len(s) /\ Len(s) \in Nat /\ s \in [1 .. Len(s) -> Param]
    BY DEF Params
<1>2. \E p \in Bijection(DOMAIN s, DOMAIN s) : Arranges(p, s)
    BY <1>1, AllSortable DEF Sortable
<1> DEFINE perm == CHOOSE p \in Bijection(DOMAIN s, DOMAIN s) : Arranges(p, s)
<1>3. perm \in Bijection(DOMAIN s, DOMAIN s) /\ Arranges(perm, s)
    BY <1>2
<1>4. SortedParams(s) = [i \in DOMAIN s |-> s[perm[i]]]
    BY DEF SortedParams
<1> HIDE DEF perm
<1>5. perm \in [1 .. Len(s) -> 1 .. Len(s)] /\ perm \in Bijection(1 .. Len(s), 1 .. Len(s))
    BY <1>1, <1>3, BijectionFacts
<1>6. ASSUME NEW i \in 1 .. Len(s), NEW j \in 1 .. Len(s), i < j
      PROVE  perm[i] < perm[j]
    <2>1. perm[i] \in 1 .. Len(s) /\ perm[j] \in 1 .. Len(s) /\ perm[i] # perm[j]
        <3>1. perm[i] = perm[j] => i = j
            BY <1>1, <1>5, SelfBijection, Zenon
        <3>2. QED  BY <1>5, <1>6, <3>1
    <2>2. perm[j] < perm[i] => ~Before(s[perm[i]], s[perm[j]])
        BY <1>1, <2>1 DEF Ordered
    <2>3. Before(s[perm[i]], s[perm[j]]) \/ perm[i] < perm[j]
        BY <1>1, <1>3, <1>6 DEF Arranges
    <2>4. QED  BY <2>1, <2>2, <2>3
<1>7. \A i \in 1 .. Len(s) : perm[i] = i
    BY <1>1, <1>5, <1>6, OrderKept
<1>8. QED  BY <1>1, <1>4, <1>7

-----------------------------------------------------------------------------
(* The key.                                                                *)

UrlOf(scheme, host, port, path, slashes, query, fragment) ==
    [scheme |-> scheme, host |-> host, port |-> port, path |-> path,
     slashes |-> slashes, query |-> query, fragment |-> fragment]

LEMMA UrlParts ==
    ASSUME NEW u, IsUrl(u)
    PROVE  u = UrlOf(u.scheme, u.host, u.port, u.path, u.slashes, u.query, u.fragment)
BY DEF IsUrl, UrlOf

LEMMA UrlOfIsUrl ==
    ASSUME NEW s \in {"https", "http"}, NEW h, NEW p, NEW n, NEW l,
           NEW q \in Params, NEW f
    PROVE  IsUrl(UrlOf(s, h, p, n, l, q, f))
BY DEF UrlOf, IsUrl

ParsedPort(port, scheme) == IF port = DefaultPort[scheme] THEN 0 ELSE port
ParsedSlashes(slashes, path) == IF path = <<>> /\ slashes = 0 THEN 1 ELSE slashes

LEMMA ParsedUrl ==
    ASSUME NEW s, NEW h, NEW p, NEW n, NEW l, NEW q, NEW f
    PROVE  Parsed(UrlOf(s, h, p, n, l, q, f))
             = UrlOf(s, h, ParsedPort(p, s), n, ParsedSlashes(l, n), q, f)
<1>1. \A a, b : [UrlOf(s, h, p, n, l, q, f) EXCEPT !.port = a, !.slashes = b]
                   = [[UrlOf(s, h, p, n, l, q, f) EXCEPT !.port = a] EXCEPT !.slashes = b]
    OBVIOUS
<1>2. \A a : [UrlOf(s, h, p, n, l, q, f) EXCEPT !.port = a] = UrlOf(s, h, a, n, l, q, f)
    BY DEF UrlOf
<1>3. \A a, b : [UrlOf(s, h, a, n, l, q, f) EXCEPT !.slashes = b] = UrlOf(s, h, a, n, b, q, f)
    BY DEF UrlOf
<1>4. \A a, b : [UrlOf(s, h, p, n, l, q, f) EXCEPT !.port = a, !.slashes = b]
                   = UrlOf(s, h, a, n, b, q, f)
    BY <1>1, <1>2, <1>3
<1> DEFINE u == UrlOf(s, h, p, n, l, q, f)
<1>5. u.scheme = s /\ u.port = p /\ u.path = n /\ u.slashes = l
    BY DEF UrlOf
<1>6. Parsed(u) = [u EXCEPT !.port = ParsedPort(u.port, u.scheme),
                            !.slashes = ParsedSlashes(u.slashes, u.path)]
    BY DEF Parsed, ParsedPort, ParsedSlashes
<1>7. Parsed(u) = [u EXCEPT !.port = ParsedPort(p, s), !.slashes = ParsedSlashes(l, n)]
    BY <1>5, <1>6
<1>8. QED  BY <1>4, <1>7

\* The key, field by field.
KeyPort(port) == IF port = 443 THEN 0 ELSE port
KeySlashes(path) == IF path = <<>> THEN 1 ELSE 0
KeyOf(u) ==
    UrlOf("https", u.host, KeyPort(u.port), u.path, KeySlashes(u.path),
          SortedParams(u.query), 0)

LEMMA NormalizeFields ==
    ASSUME NEW u, IsUrl(u)
    PROVE  Normalize(u) = KeyOf(u)
<1>1. ASSUME NEW s, NEW h, NEW p, NEW n, NEW l, NEW q, NEW f
      PROVE  Normalize(UrlOf(s, h, p, n, l, q, f))
               = UrlOf("https", h, KeyPort(p), n, KeySlashes(n), SortedParams(q), 0)
    <2> DEFINE v == UrlOf(s, h, p, n, l, q, f)
               m == ParsedSlashes(l, n)
    <2>1. ParsedPort(p, "https") = KeyPort(p)
        BY DEF ParsedPort, KeyPort, DefaultPort
    <2>2. [v EXCEPT !.scheme = "https"] = UrlOf("https", h, p, n, l, q, f)
        BY DEF UrlOf
    <2>3. SetScheme(v, "https") = UrlOf("https", h, KeyPort(p), n, m, q, f)
        BY <2>1, <2>2, ParsedUrl DEF SetScheme
    <2> HIDE DEF m
    <2>4. NoFragment(UrlOf("https", h, KeyPort(p), n, m, q, f))
            = UrlOf("https", h, KeyPort(p), n, m, q, 0)
        BY DEF UrlOf, NoFragment
    <2>5. StripSlashes(UrlOf("https", h, KeyPort(p), n, m, q, 0))
            = UrlOf("https", h, KeyPort(p), n, KeySlashes(n), q, 0)
        BY DEF StripSlashes, KeySlashes, UrlOf
    <2>6. SortQuery(UrlOf("https", h, KeyPort(p), n, KeySlashes(n), q, 0))
            = UrlOf("https", h, KeyPort(p), n, KeySlashes(n), SortedParams(q), 0)
        BY DEF UrlOf, SortQuery
    <2>7. QED  BY <2>3, <2>4, <2>5, <2>6 DEF Normalize
<1>2. QED  BY <1>1, UrlParts DEF KeyOf

\* A key is a URL, and the key of itself; to parse it changes nothing.
LEMMA KeyIsUrl ==
    ASSUME NEW u, IsUrl(u)
    PROVE  /\ IsUrl(Normalize(u))
           /\ SamePage(Normalize(u), u)
           /\ Parsed(Normalize(u)) = Normalize(u)
<1>1. u.query \in Params
    BY DEF IsUrl
<1>2. PICK k : k = Normalize(u)
    OBVIOUS
<1>3. k = KeyOf(u)
    BY <1>2, NormalizeFields
<1>4. /\ k.scheme = "https" /\ k.host = u.host /\ k.port = KeyPort(u.port)
      /\ k.path = u.path /\ k.slashes = KeySlashes(u.path)
      /\ k.query = SortedParams(u.query) /\ k.fragment = 0
    BY <1>3 DEF UrlOf, KeyOf
<1>5. IsUrl(k)
    <2>1. k = UrlOf(k.scheme, k.host, k.port, k.path, k.slashes, k.query, k.fragment)
        BY <1>3, <1>4 DEF KeyOf
    <2>2. k.query \in Params
        BY <1>1, <1>4, SortedParamsFacts
    <2>3. QED  BY <1>4, <2>1, <2>2 DEF IsUrl, UrlOf
<1>6. SamePage(k, u)
    <2>1. SameParams(k.query, u.query)
        BY <1>1, <1>4, SortedParamsFacts
    <2>2. PortOf(k) = PortOf(u)
        BY <1>4 DEF PortOf, KeyPort
    <2>3. QED  BY <1>4, <2>1, <2>2 DEF SamePage
<1>7. Parsed(k) = k
    <2>1. ParsedPort(KeyPort(u.port), "https") = KeyPort(u.port)
        BY DEF ParsedPort, KeyPort, DefaultPort
    <2>2. ParsedSlashes(KeySlashes(u.path), u.path) = KeySlashes(u.path)
        BY DEF ParsedSlashes, KeySlashes
    <2>3. Parsed(KeyOf(u))
            = UrlOf("https", u.host, ParsedPort(KeyPort(u.port), "https"), u.path,
                    ParsedSlashes(KeySlashes(u.path), u.path), SortedParams(u.query), 0)
        BY ParsedUrl DEF KeyOf
    <2>4. Parsed(KeyOf(u)) = KeyOf(u)
        BY <2>1, <2>2, <2>3 DEF KeyOf
    <2>5. QED  BY <1>3, <2>4
<1>8. QED  BY <1>2, <1>5, <1>6, <1>7

\* normalize: two URLs with one key name one page, and two URLs of one page whose
\* parameters are told apart by localeCompare, in whatever order, have one key.
THEOREM OneKeyPerPageTheorem ==
    \A u, v : IsUrl(u) /\ IsUrl(v) =>
        /\ Normalize(u) = Normalize(v) => SamePage(u, v)
        /\ SamePage(u, v) /\ ToldApart(u.query) => Normalize(u) = Normalize(v)
<1>1. SUFFICES ASSUME NEW u, NEW v, IsUrl(u), IsUrl(v)
               PROVE  /\ Normalize(u) = Normalize(v) => SamePage(u, v)
                      /\ SamePage(u, v) /\ ToldApart(u.query) => Normalize(u) = Normalize(v)
    OBVIOUS
<1>2. Normalize(u) = KeyOf(u) /\ Normalize(v) = KeyOf(v)
    BY <1>1, NormalizeFields
<1>3. /\ SortedParams(u.query) = SortedParams(v.query) => SameParams(u.query, v.query)
      /\ SameParams(u.query, v.query) /\ ToldApart(u.query)
            => SortedParams(u.query) = SortedParams(v.query)
    BY <1>1, SortedParamsSame DEF IsUrl
<1>4. KeyPort(u.port) = KeyPort(v.port) <=> PortOf(u) = PortOf(v)
    BY DEF KeyPort, PortOf
<1>5. ASSUME KeyOf(u) = KeyOf(v)
      PROVE  /\ u.host = v.host /\ KeyPort(u.port) = KeyPort(v.port) /\ u.path = v.path
             /\ SortedParams(u.query) = SortedParams(v.query)
    <2>1. PICK k : k = KeyOf(u) /\ k = KeyOf(v)
        BY <1>5
    <2>2. /\ k.host = u.host /\ k.port = KeyPort(u.port) /\ k.path = u.path
          /\ k.query = SortedParams(u.query)
        BY <2>1 DEF UrlOf, KeyOf
    <2>3. /\ k.host = v.host /\ k.port = KeyPort(v.port) /\ k.path = v.path
          /\ k.query = SortedParams(v.query)
        BY <2>1 DEF UrlOf, KeyOf
    <2>4. QED  BY <2>2, <2>3
<1>6. ASSUME /\ u.host = v.host /\ KeyPort(u.port) = KeyPort(v.port) /\ u.path = v.path
             /\ SortedParams(u.query) = SortedParams(v.query)
      PROVE  KeyOf(u) = KeyOf(v)
    BY <1>6 DEF KeyOf
<1>7. QED  BY <1>2, <1>3, <1>4, <1>5, <1>6 DEF SamePage

\* The key that is read back and normalized again is the key that was stored,
\* whether its parameters are told apart or not: the sort is stable.
THEOREM KeyIsStableTheorem ==
    \A u : IsUrl(u) =>
        Normalize(Normalize(u)) = Normalize(u) /\ Parsed(Normalize(u)) = Normalize(u)
<1>1. SUFFICES ASSUME NEW u, IsUrl(u) PROVE Normalize(Normalize(u)) = Normalize(u)
    BY KeyIsUrl
<1>2. u.query \in Params
    BY <1>1 DEF IsUrl
<1>3. PICK k : k = KeyOf(u) /\ k = Normalize(u)
    BY <1>1, NormalizeFields
<1>4. Normalize(k) = KeyOf(k)
    BY <1>1, <1>3, KeyIsUrl, NormalizeFields
<1>5. /\ k.host = u.host /\ k.port = KeyPort(u.port) /\ k.path = u.path
      /\ k.query = SortedParams(u.query)
    BY <1>3 DEF UrlOf, KeyOf
<1>6. KeyPort(KeyPort(u.port)) = KeyPort(u.port)
    BY DEF KeyPort
<1>7. SortedParams(SortedParams(u.query)) = SortedParams(u.query)
    BY <1>2, SortedParamsFacts, SortedAlready
<1>8. KeyOf(k) = KeyOf(u)
    BY <1>5, <1>6, <1>7 DEF KeyOf
<1>9. QED  BY <1>3, <1>4, <1>8

-----------------------------------------------------------------------------
(* Addresses.                                                              *)

\* A URL with another path, query and fragment.
AtPath(u, a, b, c, d) == [u EXCEPT !.path = a, !.slashes = b, !.query = c, !.fragment = d]

LEMMA AtPathIsUrl ==
    ASSUME NEW u, IsUrl(u), NEW a, NEW b, NEW c \in Params, NEW d
    PROVE  IsUrl(AtPath(u, a, b, c, d))
<1>1. ASSUME NEW s, NEW h, NEW p, NEW n, NEW l, NEW q, NEW f
      PROVE  AtPath(UrlOf(s, h, p, n, l, q, f), a, b, c, d) = UrlOf(s, h, p, a, b, c, d)
    <2>1. [UrlOf(s, h, p, n, l, q, f)
             EXCEPT !.path = a, !.slashes = b, !.query = c, !.fragment = d]
            = [[[[UrlOf(s, h, p, n, l, q, f) EXCEPT !.path = a] EXCEPT !.slashes = b]
                   EXCEPT !.query = c] EXCEPT !.fragment = d]
        OBVIOUS
    <2>2. [UrlOf(s, h, p, n, l, q, f) EXCEPT !.path = a] = UrlOf(s, h, p, a, l, q, f)
        BY DEF UrlOf
    <2>3. [UrlOf(s, h, p, a, l, q, f) EXCEPT !.slashes = b] = UrlOf(s, h, p, a, b, q, f)
        BY DEF UrlOf
    <2>4. [UrlOf(s, h, p, a, b, q, f) EXCEPT !.query = c] = UrlOf(s, h, p, a, b, c, f)
        BY DEF UrlOf
    <2>5. [UrlOf(s, h, p, a, b, c, f) EXCEPT !.fragment = d] = UrlOf(s, h, p, a, b, c, d)
        BY DEF UrlOf
    <2>6. QED  BY <2>1, <2>2, <2>3, <2>4, <2>5 DEF AtPath
<1>2. AtPath(u, a, b, c, d) = UrlOf(u.scheme, u.host, u.port, a, b, c, d)
    BY <1>1, UrlParts
<1>3. QED  BY <1>2, UrlOfIsUrl DEF IsUrl

\* A URL without its fragment.
LEMMA NoFragmentIsUrl ==
    ASSUME NEW u, IsUrl(u)
    PROVE  IsUrl(NoFragment(u))
<1>1. ASSUME NEW s, NEW h, NEW p, NEW n, NEW l, NEW q, NEW f
      PROVE  NoFragment(UrlOf(s, h, p, n, l, q, f)) = UrlOf(s, h, p, n, l, q, 0)
    BY DEF UrlOf, NoFragment
<1>2. NoFragment(u) = UrlOf(u.scheme, u.host, u.port, u.path, u.slashes, u.query, 0)
    BY <1>1, UrlParts
<1>3. QED  BY <1>2, UrlOfIsUrl DEF IsUrl

LEMMA ParsedIsUrl ==
    ASSUME NEW u, IsUrl(u)
    PROVE  IsUrl(Parsed(u))
<1>1. Parsed(u) = UrlOf(u.scheme, u.host, ParsedPort(u.port, u.scheme), u.path,
                        ParsedSlashes(u.slashes, u.path), u.query, u.fragment)
    BY UrlParts, ParsedUrl
<1>2. QED  BY <1>1, UrlOfIsUrl DEF IsUrl

\* What an address leads to is a URL.
LEMMA ResolveIsUrl ==
    ASSUME NEW href, IsHref(href), NEW base, IsUrl(base), NEW url \in Resolve(href, base)
    PROVE  IsUrl(url)
<1>1. CASE href.kind = "absolute"
    <2>1. url = NoFragment(Parsed(href.url))
        BY <1>1 DEF Resolve
    <2>2. IsUrl(Parsed(href.url))
        BY <1>1, ParsedIsUrl DEF IsHref
    <2>3. QED  BY <2>1, <2>2, NoFragmentIsUrl
<1>2. CASE href.kind = "path"
    <2>1. url = Parsed(AtPath(base, href.path, href.slashes, href.query, 0))
        BY <1>2 DEF Resolve, AtPath
    <2>2. IsUrl(AtPath(base, href.path, href.slashes, href.query, 0))
        BY <1>2, AtPathIsUrl DEF IsHref
    <2>3. QED  BY <2>1, <2>2, ParsedIsUrl
<1>3. CASE href.kind = "fragment"
    <2>1. url = NoFragment(base)
        BY <1>3 DEF Resolve
    <2>2. QED  BY <2>1, NoFragmentIsUrl
<1>4. CASE href.kind \notin {"absolute", "path", "fragment"}
    BY <1>4 DEF Resolve
<1>5. QED  BY <1>1, <1>2, <1>3, <1>4

=============================================================================
