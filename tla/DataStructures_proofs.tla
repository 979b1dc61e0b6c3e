----------------------- MODULE DataStructures_proofs -----------------------
(***************************************************************************)
(* The two data structures the code writes by hand: the tier selector, for *)
(* lists of any length, any prices and any budget, and the LRU cache, for  *)
(* any keys, values and capacity.                                          *)
(***************************************************************************)
EXTENDS TierSelector, LRUCache, SequenceTheorems, FiniteSetTheorems, TLAPS

\* The middle of a range that is not empty lies in it.
LEMMA MidBetween ==
    ASSUME lo \in Nat, hi \in Nat, lo < hi
    PROVE  Mid \in Nat /\ lo <= Mid /\ Mid < hi
BY DEF Mid

\* The invariant of both searches and of the walk, on any list.
THEOREM SelectorAlways == SelectorSpec => []SelectorInv
<1> USE DEF SelectorInv, Indices, TierData, Bisected, PriceOrdered,
            BestWithinBudget, ExactFound, Affordable, NoTier, given
<1>1. SelectorInit => SelectorInv
  BY SelectorAssumption DEF SelectorInit
<1>2. SelectorInv /\ [SelectorNext]_selectorVars => SelectorInv'
  <2> SUFFICES ASSUME SelectorInv, [SelectorNext]_selectorVars
               PROVE  SelectorInv'
    OBVIOUS
  <2>0. \A i \in Indices : tiers[i].price \in Int /\ tiers[i].open \in BOOLEAN
    BY SelectorAssumption
  <2>1. CASE StepRight
    <3>1. Mid \in Indices /\ lo <= Mid /\ Mid < hi
      BY <2>1, MidBetween DEF StepRight
    <3>2. /\ UNCHANGED given /\ UNCHANGED <<pc, idx, result>>
          /\ pc = "right"
      BY <2>1 DEF StepRight
    <3>3. CASE asked < tiers[Mid].price
      <4>1. hi' = Mid /\ lo' = lo
        BY <2>1, <3>3 DEF StepRight
      <4>2. PriceOrdered => \A i \in Mid..(n - 1) : tiers[i].price > asked
        BY <2>0, <3>1, <3>3
      <4> QED
        BY <3>1, <3>2, <4>1, <4>2
    <3>4. CASE ~(asked < tiers[Mid].price)
      <4>1. lo' = Mid + 1 /\ hi' = hi
        BY <2>1, <3>4 DEF StepRight
      <4>2. PriceOrdered => \A i \in 0..Mid : tiers[i].price <= asked
        BY <2>0, <3>1, <3>4
      <4> QED
        BY <3>1, <3>2, <4>1, <4>2
    <3> QED
      BY <3>3, <3>4
  <2>2. CASE StartWalk
    BY <2>0, <2>2 DEF StartWalk
  <2>3. CASE WalkLeft
    BY <2>0, <2>3 DEF WalkLeft
  <2>4. CASE ReturnOpen
    BY <2>0, <2>4 DEF ReturnOpen, Return
  <2>5. CASE ReturnNone
    BY <2>0, <2>5 DEF ReturnNone, Return
  <2>6. CASE StepLeft
    <3>1. Mid \in Indices /\ lo <= Mid /\ Mid < hi
      BY <2>6, MidBetween DEF StepLeft
    <3>2. /\ UNCHANGED given /\ UNCHANGED <<pc, idx, result>>
          /\ pc = "left"
      BY <2>6 DEF StepLeft
    <3>3. CASE tiers[Mid].price < asked
      <4>1. lo' = Mid + 1 /\ hi' = hi
        BY <2>6, <3>3 DEF StepLeft
      <4>2. PriceOrdered => \A i \in 0..Mid : tiers[i].price < asked
        BY <2>0, <3>1, <3>3
      <4> QED
        BY <3>1, <3>2, <4>1, <4>2
    <3>4. CASE ~(tiers[Mid].price < asked)
      <4>1. hi' = Mid /\ lo' = lo
        BY <2>6, <3>4 DEF StepLeft
      <4>2. PriceOrdered => \A i \in Mid..(n - 1) : tiers[i].price >= asked
        BY <2>0, <3>1, <3>4
      <4> QED
        BY <3>1, <3>2, <4>1, <4>2
    <3> QED
      BY <3>3, <3>4
  <2>7. CASE ReturnExact
    BY <2>0, <2>7 DEF ReturnExact, Return, ExactAt
  <2>8. CASE UNCHANGED selectorVars
    BY <2>8 DEF selectorVars
  <2> QED
    BY <2>1, <2>2, <2>3, <2>4, <2>5, <2>6, <2>7, <2>8 DEF SelectorNext
<1> QED
  BY <1>1, <1>2, PTL DEF SelectorSpec

\* select_for_budget returns the dearest affordable tier of a sorted list.
THEOREM BudgetQueriesRight == SelectorSpec => []BestWithinBudget
<1>1. SelectorInv => BestWithinBudget
  BY DEF SelectorInv
<1> QED
  BY <1>1, SelectorAlways, PTL

\* select_exact returns the first tier at the price, of a sorted list.
THEOREM ExactQueriesRight == SelectorSpec => []ExactFound
<1>1. SelectorInv => ExactFound
  BY DEF SelectorInv
<1> QED
  BY <1>1, SelectorAlways, PTL

-----------------------------------------------------------------------------
\* The LRU cache.  Every operation is one step; the proof is about the list:
\* its members are the cached keys, and it ascends in their last use.
Members(s) == {s[i] : i \in 1..Len(s)}

\* Read from its front, s goes from the least to the most recent use.
Ascends(s, use) == \A i, j \in 1..Len(s) : i < j => use[s[i]] < use[s[j]]

\* A sequence without the element at p.
LEMMA Unlinked ==
    ASSUME NEW S, NEW s \in Seq(S), NEW p \in 1..Len(s)
    PROVE  LET r == Lists!RemoveAt(s, p)
           IN  /\ r \in Seq(S)
               /\ Len(r) = Len(s) - 1
               /\ \A i \in 1..(Len(s) - 1) :
                     r[i] = IF i < p THEN s[i] ELSE s[i + 1]
<1> DEFINE a == SubSeq(s, 1, p - 1)
           b == SubSeq(s, p + 1, Len(s))
<1>0. Len(s) \in Nat /\ \A i \in 1..Len(s) : s[i] \in S
  BY LenProperties, ElementOfSeq
<1>1. /\ a \in Seq(S)
      /\ Len(a) = p - 1
      /\ \A i \in 1..(p - 1) : a[i] = s[i]
  <2>1. \A i \in 1..(p - 1) : s[i] \in S
    BY <1>0
  <2>2. /\ a \in Seq(S)
        /\ Len(a) = IF 1 <= p - 1 THEN (p - 1) - 1 + 1 ELSE 0
        /\ \A i \in 1..((p - 1) - 1 + 1) : a[i] = s[1 + i - 1]
    BY <1>0, <2>1, SubSeqProperties
  <2> HIDE DEF a
  <2> QED
    BY <1>0, <2>2
<1>2. /\ b \in Seq(S)
      /\ Len(b) = Len(s) - p
      /\ \A i \in 1..(Len(s) - p) : b[i] = s[p + i]
  <2>1. \A i \in (p + 1)..Len(s) : s[i] \in S
    BY <1>0
  <2>2. /\ b \in Seq(S)
        /\ Len(b) = IF p + 1 <= Len(s) THEN Len(s) - (p + 1) + 1 ELSE 0
        /\ \A i \in 1..(Len(s) - (p + 1) + 1) : b[i] = s[p + 1 + i - 1]
    BY <1>0, <2>1, SubSeqProperties
  <2> HIDE DEF b
  <2> QED
    BY <1>0, <2>2
<1>3. Lists!RemoveAt(s, p) = a \o b
  BY DEF Lists!RemoveAt
<1> HIDE DEF a, b
<1>4. /\ a \o b \in Seq(S)
      /\ Len(a \o b) = Len(a) + Len(b)
      /\ \A i \in 1..(Len(a) + Len(b)) :
            (a \o b)[i] = IF i <= Len(a) THEN a[i] ELSE b[i - Len(a)]
  BY <1>1, <1>2, ConcatProperties
<1> DEFINE r == a \o b
<1>5. /\ r \in Seq(S)
      /\ Len(r) = Len(s) - 1
      /\ \A i \in 1..(Len(s) - 1) : r[i] = IF i < p THEN s[i] ELSE s[i + 1]
  <2> HIDE DEF r
  <2>1. /\ r \in Seq(S)
        /\ Len(r) = Len(a) + Len(b)
        /\ \A i \in 1..(Len(a) + Len(b)) :
              r[i] = IF i <= Len(a) THEN a[i] ELSE b[i - Len(a)]
    BY <1>4 DEF r
  <2>2. Len(a) + Len(b) = Len(s) - 1
    BY <1>0, <1>1, <1>2
  <2>3. ASSUME NEW i \in 1..(Len(s) - 1)
        PROVE  r[i] = IF i < p THEN s[i] ELSE s[i + 1]
    <3>1. CASE i < p
      BY <1>0, <1>1, <2>1, <2>2, <3>1
    <3>2. CASE ~(i < p)
      <4>1. /\ i - (p - 1) \in 1..(Len(s) - p)
            /\ p + (i - (p - 1)) = i + 1
            /\ ~(i <= p - 1)
        BY <1>0, <3>2
      <4>2. r[i] = b[i - (p - 1)]
        BY <1>1, <2>1, <2>2, <4>1
      <4>3. b[i - (p - 1)] = s[i + 1]
        BY <1>2, <4>1
      <4> QED
        BY <3>2, <4>2, <4>3
    <3> QED
      BY <3>1, <3>2
  <2> QED
    BY <2>1, <2>2, <2>3
<1> QED
  BY <1>3, <1>5

\* invalidate: the other keys keep their order.
LEMMA WithoutKey ==
    ASSUME CacheTypes, Ascends(order, lastUse), NEW k \in Keys
    PROVE  /\ Without(k) \in Seq(Keys)
           /\ Len(Without(k)) <= Len(order)
           /\ Members(Without(k)) = Cached \ {k}
           /\ Ascends(Without(k), lastUse)
<1>0. /\ order \in Seq(Keys)
      /\ Len(order) \in Nat
      /\ \A i \in 1..Len(order) : order[i] \in Keys
      /\ \A i \in 1..Len(order) : lastUse[order[i]] \in Nat
  BY LenProperties, ElementOfSeq DEF CacheTypes
<1>1. CASE k \in Cached
  <2> DEFINE p == PlaceOf(k)
             r == Without(k)
  <2>1. p \in 1..Len(order) /\ order[p] = k
    BY <1>1 DEF Cached, PlaceOf
  <2>2. /\ r \in Seq(Keys)
        /\ Len(r) = Len(order) - 1
        /\ \A i \in 1..(Len(order) - 1) :
              r[i] = IF i < p THEN order[i] ELSE order[i + 1]
    BY <1>0, <1>1, <2>1, Unlinked DEF Without
  <2> HIDE DEF p, r
  <2>3. ASSUME NEW i \in 1..Len(order), i # p
        PROVE  order[i] # k
    <3>1. lastUse[order[i]] # lastUse[order[p]]
      BY <1>0, <2>1, <2>3 DEF Ascends
    <3> QED
      BY <2>1, <3>1
  <2>4. Members(r) \subseteq Cached \ {k}
    <3> SUFFICES ASSUME NEW i \in 1..Len(r)
                 PROVE  r[i] \in Cached \ {k}
      BY DEF Members
    <3>1. CASE i < p
      BY <1>0, <2>1, <2>2, <2>3, <3>1 DEF Cached
    <3>2. CASE ~(i < p)
      <4>1. i + 1 \in 1..Len(order) /\ i + 1 # p
        BY <1>0, <2>1, <2>2, <3>2
      <4>2. r[i] = order[i + 1]
        BY <1>0, <2>2, <3>2
      <4> QED
        BY <2>3, <4>1, <4>2 DEF Cached
    <3> QED
      BY <3>1, <3>2
  <2>5. Cached \ {k} \subseteq Members(r)
    <3> SUFFICES ASSUME NEW i \in 1..Len(order), order[i] # k
                 PROVE  order[i] \in Members(r)
      BY DEF Cached
    <3>1. CASE i < p
      <4>1. i \in 1..Len(r) /\ r[i] = order[i]
        BY <1>0, <2>1, <2>2, <3>1
      <4> QED
        BY <4>1 DEF Members
    <3>2. CASE ~(i < p)
      <4>1. i - 1 \in 1..Len(r) /\ r[i - 1] = order[i]
        <5>1. i > p
          BY <2>1, <3>2
        <5>2. i - 1 \in 1..(Len(order) - 1) /\ ~(i - 1 < p) /\ (i - 1) + 1 = i
          BY <1>0, <2>1, <5>1
        <5> QED
          BY <2>2, <5>2
      <4> QED
        BY <4>1 DEF Members
    <3> QED
      BY <3>1, <3>2
  <2>6. Ascends(r, lastUse)
    <3> SUFFICES ASSUME NEW i \in 1..Len(r), NEW j \in 1..Len(r), i < j
                 PROVE  lastUse[r[i]] < lastUse[r[j]]
      BY DEF Ascends
    <3> DEFINE i2 == IF i < p THEN i ELSE i + 1
               j2 == IF j < p THEN j ELSE j + 1
    <3>1. /\ i2 \in 1..Len(order) /\ j2 \in 1..Len(order) /\ i2 < j2
          /\ r[i] = order[i2] /\ r[j] = order[j2]
      BY <1>0, <2>1, <2>2
    <3> QED
      BY <3>1 DEF Ascends
  <2> QED
    BY <1>0, <2>2, <2>4, <2>5, <2>6 DEF r
<1>2. CASE k \notin Cached
  BY <1>0, <1>2 DEF Without, Members, Cached
<1> QED
  BY <1>1, <1>2

\* get and set: the key used goes to the end of the order.
LEMMA ToEndKey ==
    ASSUME CacheTypes, Ascends(order, lastUse), NEW k \in Keys,
           lastUse' = [lastUse EXCEPT ![k] = uses + 1]
    PROVE  /\ ToEnd(k) \in Seq(Keys)
           /\ Len(ToEnd(k)) = Len(Without(k)) + 1
           /\ Members(ToEnd(k)) = Cached \cup {k}
           /\ Ascends(ToEnd(k), lastUse')
<1> DEFINE w == Without(k)
           e == Append(w, k)
<1>1. /\ w \in Seq(Keys)
      /\ Members(w) = Cached \ {k}
      /\ Ascends(w, lastUse)
  BY WithoutKey
<1> HIDE DEF w
<1>2. /\ e \in Seq(Keys)
      /\ Len(e) = Len(w) + 1
      /\ \A i \in 1..Len(w) : e[i] = w[i]
      /\ e[Len(w) + 1] = k
  BY <1>1, AppendProperties
<1> HIDE DEF e
<1>3. Len(w) \in Nat /\ \A i \in 1..Len(w) : w[i] \in Keys /\ w[i] # k
  <2>1. Len(w) \in Nat /\ \A i \in 1..Len(w) : w[i] \in Keys
    BY <1>1, LenProperties, ElementOfSeq
  <2>2. \A i \in 1..Len(w) : w[i] \in Members(w)
    BY DEF Members
  <2> QED
    BY <1>1, <2>1, <2>2
<1>4. Members(e) = Members(w) \cup {k}
  <2>1. \A i \in 1..Len(e) : e[i] = k \/ \E j \in 1..Len(w) : e[i] = w[j]
    BY <1>2, <1>3
  <2>2. \A i \in 1..Len(w) : \E j \in 1..Len(e) : e[j] = w[i]
    BY <1>2, <1>3
  <2>3. \E j \in 1..Len(e) : e[j] = k
    <3>1. Len(w) + 1 \in 1..Len(e)
      BY <1>2, <1>3
    <3> QED
      BY <1>2, <3>1
  <2>4. Members(e) \subseteq Members(w) \cup {k}
    BY <2>1 DEF Members
  <2>5. Members(w) \subseteq Members(e)
    BY <2>2 DEF Members
  <2>6. k \in Members(e)
    BY <2>3 DEF Members
  <2> QED
    BY <2>4, <2>5, <2>6
<1>5. Cached \cup {k} = Members(e)
  BY <1>1, <1>4
<1>6. Ascends(e, lastUse')
  <2> SUFFICES ASSUME NEW i \in 1..Len(e), NEW j \in 1..Len(e), i < j
               PROVE  lastUse'[e[i]] < lastUse'[e[j]]
    BY DEF Ascends
  <2>1. i \in 1..Len(w) /\ e[i] = w[i] /\ lastUse'[e[i]] = lastUse[w[i]]
    BY <1>2, <1>3 DEF CacheTypes
  <2>2. CASE j = Len(e)
    <3>1. e[j] = k /\ lastUse'[e[j]] = uses + 1
      BY <1>2, <2>2 DEF CacheTypes
    <3>2. uses \in Nat /\ lastUse[w[i]] \in 0..uses
      BY <1>3, <2>1 DEF CacheTypes
    <3> QED
      BY <2>1, <3>1, <3>2
  <2>3. CASE j # Len(e)
    <3>1. j \in 1..Len(w)
      BY <1>2, <1>3, <2>3
    <3>2. e[j] = w[j] /\ lastUse'[e[j]] = lastUse[w[j]]
      BY <1>2, <1>3, <3>1 DEF CacheTypes
    <3> QED
      BY <1>1, <2>1, <3>1, <3>2 DEF Ascends
  <2> QED
    BY <2>2, <2>3
<1> QED
  BY <1>2, <1>5, <1>6 DEF ToEnd, w, e

\* An ascending order names each of its members once.
LEMMA CountAscending ==
    ASSUME NEW s \in Seq(Keys), NEW use \in [Keys -> Nat], Ascends(s, use)
    PROVE  IsFiniteSet(Members(s)) /\ Cardinality(Members(s)) = Len(s)
<1>1. /\ Len(s) \in Nat
      /\ s \in [1..Len(s) -> Keys]
      /\ \A i \in 1..Len(s) : use[s[i]] \in Nat
  BY LenProperties, ElementOfSeq
<1>2. \A i, j \in 1..Len(s) : s[i] = s[j] => i = j
  BY <1>1 DEF Ascends
<1>3. s \in Bijection(1..Len(s), Members(s))
  <2>1. s \in [1..Len(s) -> Members(s)]
    BY <1>1 DEF Members
  <2>2. s \in Injection(1..Len(s), Members(s))
    BY <1>2, <2>1 DEF Injection, IsInjective
  <2>3. s \in Surjection(1..Len(s), Members(s))
    BY <2>1 DEF Surjection, Members
  <2> QED
    BY <2>2, <2>3 DEF Bijection
<1>4. ExistsBijection(1..Len(s), Members(s))
  BY <1>3 DEF ExistsBijection
<1> QED
  BY <1>1, <1>4, FS_NatBijection, FS_CountingElements

\* popitem(last=False): the key that goes is the one used longest ago.
LEMMA FrontGone ==
    ASSUME NEW s \in Seq(Keys), NEW use \in [Keys -> Nat], Ascends(s, use),
           Len(s) > 0
    PROVE  /\ Head(s) \in Members(s)
           /\ \A j \in Members(s) : use[Head(s)] <= use[j]
           /\ Tail(s) \in Seq(Keys)
           /\ Len(Tail(s)) = Len(s) - 1
           /\ Members(Tail(s)) = Members(s) \ {Head(s)}
           /\ Ascends(Tail(s), use)
<1>1. /\ Len(s) \in Nat
      /\ \A i \in 1..Len(s) : s[i] \in Keys /\ use[s[i]] \in Nat
  BY LenProperties, ElementOfSeq
<1>2. s # <<>>
  BY EmptySeq
<1> DEFINE t == Tail(s)
<1>3. /\ t \in Seq(Keys)
      /\ Len(t) = Len(s) - 1
      /\ \A i \in 1..Len(t) : t[i] = s[i + 1]
  BY <1>2, HeadTailProperties
<1>4. Head(s) = s[1]
  BY <1>2
<1> HIDE DEF t
<1>5. \A j \in 2..Len(s) : use[s[1]] < use[s[j]] /\ s[j] # s[1]
  BY <1>1 DEF Ascends
<1>6. Members(t) = Members(s) \ {s[1]}
  <2>1. \A i \in 1..Len(t) : i + 1 \in 2..Len(s) /\ t[i] = s[i + 1]
    BY <1>1, <1>3
  <2>2. \A i \in 2..Len(s) : i - 1 \in 1..Len(t) /\ t[i - 1] = s[i]
    BY <1>1, <1>3
  <2>3. Members(t) \subseteq Members(s) \ {s[1]}
    <3> SUFFICES ASSUME NEW i \in 1..Len(t)
                 PROVE  t[i] \in Members(s) \ {s[1]}
      BY DEF Members
    <3>1. i + 1 \in 1..Len(s) /\ t[i] = s[i + 1] /\ s[i + 1] # s[1]
      BY <1>1, <1>5, <2>1
    <3> QED
      BY <3>1 DEF Members
  <2>4. \A i \in 1..Len(s) : i = 1 \/ i \in 2..Len(s)
    BY <1>1
  <2>5. Members(s) \ {s[1]} \subseteq Members(t)
    <3> SUFFICES ASSUME NEW i \in 1..Len(s), s[i] # s[1]
                 PROVE  s[i] \in Members(t)
      BY DEF Members
    <3>1. i - 1 \in 1..Len(t) /\ t[i - 1] = s[i]
      BY <2>2, <2>4
    <3> QED
      BY <3>1 DEF Members
  <2> QED
    BY <2>3, <2>5
<1>7. Ascends(t, use)
  <2>1. ASSUME NEW i \in 1..Len(t), NEW j \in 1..Len(t), i < j
        PROVE  use[t[i]] < use[t[j]]
    <3>1. /\ i + 1 \in 1..Len(s) /\ j + 1 \in 1..Len(s) /\ i + 1 < j + 1
          /\ t[i] = s[i + 1] /\ t[j] = s[j + 1]
      BY <1>1, <1>3, <2>1
    <3> QED
      BY <3>1 DEF Ascends
  <2> QED
    BY <2>1 DEF Ascends
<1>8. /\ 1 \in 1..Len(s)
      /\ \A i \in 1..Len(s) : use[s[1]] <= use[s[i]]
  BY <1>1, <1>5
<1> QED
  BY <1>3, <1>4, <1>6, <1>7, <1>8 DEF t, Members

-----------------------------------------------------------------------------
LEMMA InOrder ==
    ASSUME CacheTypes, CacheInv
    PROVE  Ascends(order, lastUse) /\ Cached = Members(order)
           /\ lastUse \in [Keys -> Nat] /\ Len(order) \in Nat
BY LenProperties DEF CacheTypes, CacheInv, Ascends, Cached, Members

LEMMA TypesKept ==
    ASSUME CacheTypes, CacheInv, CacheNext
    PROVE  CacheTypes'
<1> PICK k \in Keys : \/ Miss(k) \/ Hit(k) \/ Invalidate(k)
                     \/ \E v \in Values : Set(k, v)
  BY DEF CacheNext
<1>0. Ascends(order, lastUse)
  BY InOrder
<1>1. Used(k) => uses' \in Nat /\ lastUse' \in [Keys -> 0..uses']
  BY DEF Used, CacheTypes
<1>2. CASE Miss(k)
  BY <1>2 DEF Miss, CacheTypes
<1>3. CASE Hit(k)
  <2>1. ToEnd(k) \in Seq(Keys)
    BY <1>0, <1>3, ToEndKey DEF Hit, Used
  <2> QED
    BY <1>1, <1>3, <2>1 DEF Hit, CacheTypes
<1>4. ASSUME NEW v \in Values, Set(k, v)
      PROVE  CacheTypes'
  <2>1. Used(k)
    BY <1>4 DEF Set
  <2>2. /\ ToEnd(k) \in Seq(Keys)
        /\ Len(ToEnd(k)) > 0
    <3>1. /\ ToEnd(k) \in Seq(Keys)
          /\ Len(ToEnd(k)) = Len(Without(k)) + 1
      BY <1>0, <2>1, ToEndKey DEF Used
    <3>2. Len(Without(k)) \in Nat
      BY <1>0, WithoutKey, LenProperties
    <3> QED
      BY <3>1, <3>2
  <2>3. Tail(ToEnd(k)) \in Seq(Keys)
    BY <2>2, EmptySeq, HeadTailProperties
  <2>4. order' \in {ToEnd(k), Tail(ToEnd(k))}
    BY <1>4 DEF Set, PopOldest
  <2> QED
    BY <1>1, <2>1, <2>2, <2>3, <2>4 DEF CacheTypes
<1>5. CASE Invalidate(k)
  <2>1. Without(k) \in Seq(Keys)
    BY <1>0, WithoutKey
  <2> QED
    BY <1>5, <2>1 DEF Invalidate, CacheTypes
<1> QED
  BY <1>2, <1>3, <1>4, <1>5

\* The map counts with the Cardinality of its own instance of FiniteSets.
LEMMA SameCardinality == \A S : Promise!Cardinality(S) = Cardinality(S)
BY DEF Cardinality, Promise!Cardinality

\* What a hit does, and that the map allows it.
LEMMA HitStep ==
    ASSUME CacheTypes, CacheInv, NEW k \in Keys, Hit(k)
    PROVE  CacheInv' /\ Promise!Lookup(k)
<1>1. /\ Ascends(order, lastUse) /\ k \in Cached
      /\ lastUse' = [lastUse EXCEPT ![k] = uses + 1]
      /\ uses' = uses + 1
      /\ order' = ToEnd(k) /\ reply' = value[k] /\ value' = value
  BY InOrder DEF Hit, Used
<1>2. /\ Members(order') = Cached \cup {k}
      /\ Ascends(order', lastUse')
      /\ Len(order') = Len(Without(k)) + 1
  BY <1>1, ToEndKey
<1>3. Len(order') = Len(order)
  <2>1. Members(order') = Members(order)
    BY <1>1, <1>2, InOrder
  <2>2. /\ lastUse' \in [Keys -> Nat]
        /\ order' \in Seq(Keys)
    BY <1>1, TypesKept, InOrder DEF CacheNext, CacheTypes
  <2> QED
    BY <1>1, <1>2, <2>1, <2>2, InOrder, CountAscending DEF CacheTypes
<1>4. CacheInv'
  <2>1. (Cached = {j \in Keys : value[j] # None})'
    BY <1>1, <1>2 DEF CacheInv, Cached, Members
  <2> QED
    BY <1>1, <1>2, <1>3, <2>1 DEF CacheInv, Ascends
<1>5. value[k] # None
  BY <1>1 DEF CacheInv
<1> QED
  BY <1>1, <1>4, <1>5 DEF Promise!Lookup, Promise!Use

\* What a set does, and that the map allows it.
LEMMA SetStep ==
    ASSUME CacheTypes, CacheInv, NEW k \in Keys, NEW v \in Values, Set(k, v)
    PROVE  CacheInv' /\ Promise!Store(k, v)
<1> DEFINE e == ToEnd(k)
           filled == [value EXCEPT ![k] = v]
<1>1. /\ Ascends(order, lastUse)
      /\ lastUse' = [lastUse EXCEPT ![k] = uses + 1]
      /\ uses' = uses + 1 /\ reply' = None
      /\ lastUse' \in [Keys -> Nat]
  BY InOrder DEF Set, Used, CacheTypes
<1>2. /\ e \in Seq(Keys)
      /\ Len(e) \in Nat /\ Len(e) > 0
      /\ Members(e) = Cached \cup {k}
      /\ Ascends(e, lastUse')
  <2>1. Len(Without(k)) \in Nat
    BY <1>1, WithoutKey, LenProperties
  <2>2. /\ e \in Seq(Keys)
        /\ Len(e) = Len(Without(k)) + 1
        /\ Members(e) = Cached \cup {k}
        /\ Ascends(e, lastUse')
    BY <1>1, ToEndKey
  <2> HIDE DEF e
  <2> QED
    BY <2>1, <2>2
<1>3. IF Len(e) > Capacity
      THEN order' = Tail(e) /\ value' = [filled EXCEPT ![Head(e)] = None]
      ELSE order' = e /\ value' = filled
  BY DEF Set, PopOldest
<1>4. /\ filled \in [Keys -> Values \cup {None}]
      /\ filled[k] = v /\ v # None
      /\ \A j \in Keys \ {k} : filled[j] = value[j]
  BY CacheAssumption DEF CacheInv
<1> HIDE DEF e, filled
<1>5. Promise!Present(filled) = Members(e)
  BY <1>2, <1>4 DEF Promise!Present, CacheInv
<1>6. Promise!Cardinality(Promise!Present(filled)) = Len(e)
  BY <1>1, <1>2, <1>5, CountAscending, SameCardinality
<1>7. CASE Len(e) > Capacity
  <2>1. /\ Head(e) \in Members(e)
        /\ \A j \in Members(e) : lastUse'[Head(e)] <= lastUse'[j]
        /\ Len(Tail(e)) = Len(e) - 1
        /\ Members(Tail(e)) = Members(e) \ {Head(e)}
        /\ Ascends(Tail(e), lastUse')
    BY <1>1, <1>2, FrontGone
  <2>2. order' = Tail(e) /\ value' = [filled EXCEPT ![Head(e)] = None]
    BY <1>3, <1>7
  <2>3. Promise!Store(k, v)
    BY <1>1, <1>5, <1>6, <1>7, <2>1, <2>2
       DEF Promise!Store, Promise!Use, filled
  <2>4. Len(e) <= Capacity + 1
    <3>1. Len(e) = Len(Without(k)) + 1 /\ Len(Without(k)) <= Len(order)
      BY <1>1, ToEndKey, WithoutKey DEF e
    <3>2. Len(Without(k)) \in Nat /\ Len(order) \in Nat
      BY <1>1, WithoutKey, LenProperties, InOrder
    <3> QED
      BY <3>1, <3>2, CacheAssumption DEF CacheInv
  <2>5. Len(order') <= Capacity
    BY <1>2, <2>1, <2>2, <2>4, CacheAssumption
  <2>6. (Cached = {j \in Keys : value[j] # None})'
    <3>1. Members(e) = {j \in Keys : filled[j] # None}
      BY <1>5 DEF Promise!Present
    <3>2. {j \in Keys : value'[j] # None} = Members(e) \ {Head(e)}
      BY <1>4, <2>2, <3>1
    <3> QED
      BY <2>1, <2>2, <3>2 DEF Cached, Members
  <2>7. value' \in [Keys -> Values \cup {None}]
    BY <1>4, <2>2
  <2> QED
    BY <2>1, <2>2, <2>3, <2>5, <2>6, <2>7 DEF CacheInv, Ascends
<1>8. CASE ~(Len(e) > Capacity)
  <2>1. order' = e /\ value' = filled
    BY <1>3, <1>8
  <2>2. Len(e) <= Capacity
    BY <1>2, <1>8, CacheAssumption
  <2>3. Promise!Store(k, v)
    BY <1>1, <1>5, <1>6, <2>1, <2>2
       DEF Promise!Store, Promise!Use, filled
  <2>4. (Cached = {j \in Keys : value[j] # None})'
    BY <1>5, <2>1 DEF Cached, Members, Promise!Present
  <2> QED
    BY <1>2, <1>4, <2>1, <2>2, <2>3, <2>4 DEF CacheInv, Ascends
<1> QED
  BY <1>7, <1>8

\* What an invalidation does, and that the map allows it.
LEMMA InvalidateStep ==
    ASSUME CacheTypes, CacheInv, NEW k \in Keys, Invalidate(k)
    PROVE  CacheInv' /\ Promise!Drop(k)
<1>1. /\ order' = Without(k) /\ value' = [value EXCEPT ![k] = None]
      /\ reply' = None /\ UNCHANGED <<uses, lastUse>>
  BY DEF Invalidate
<1>2. /\ Len(Without(k)) <= Len(order)
      /\ Len(Without(k)) \in Nat /\ Len(order) \in Nat
      /\ Members(Without(k)) = Cached \ {k}
      /\ Ascends(Without(k), lastUse)
  BY InOrder, WithoutKey, LenProperties
<1>3. (Cached = {j \in Keys : value[j] # None})'
  <2>1. {j \in Keys : value'[j] # None} = Cached \ {k}
    BY <1>1 DEF CacheInv
  <2> QED
    BY <1>1, <1>2, <2>1 DEF Cached, Members
<1>4. Len(order') <= Capacity
  BY <1>1, <1>2, CacheAssumption DEF CacheInv
<1>5. value' \in [Keys -> Values \cup {None}]
  BY <1>1 DEF CacheInv
<1> QED
  BY <1>1, <1>2, <1>3, <1>4, <1>5 DEF CacheInv, Ascends, Promise!Drop

\* A miss leaves everything alone.
LEMMA MissStep ==
    ASSUME CacheTypes, CacheInv, NEW k \in Keys, Miss(k)
    PROVE  CacheInv' /\ Promise!Lookup(k)
<1>1. value[k] = None
  BY DEF Miss, CacheInv
<1> QED
  BY <1>1 DEF Miss, CacheInv, Cached, Promise!Lookup

\* A cache of any capacity, over any keys and values.
THEOREM CacheAlways == CacheSpec => [](CacheTypes /\ CacheInv)
<1>1. CacheInit => CacheTypes /\ CacheInv
  BY CacheAssumption, EmptySeq DEF CacheInit, CacheTypes, CacheInv, Cached
<1>2. (CacheTypes /\ CacheInv) /\ [CacheNext]_cacheVars => (CacheTypes /\ CacheInv)'
  <2>1. ASSUME CacheTypes, CacheInv, CacheNext
        PROVE  CacheTypes' /\ CacheInv'
    BY <2>1, TypesKept, HitStep, SetStep, InvalidateStep, MissStep DEF CacheNext
  <2>2. ASSUME CacheTypes, CacheInv, UNCHANGED cacheVars
        PROVE  CacheTypes' /\ CacheInv'
    BY <2>2 DEF cacheVars, CacheTypes, CacheInv, Cached
  <2> QED
    BY <2>1, <2>2
<1> QED
  BY <1>1, <1>2, PTL DEF CacheSpec

\* CacheInv
THEOREM OrderAndValuesAgree == CacheSpec => []CacheInv
BY CacheAlways, PTL

\* The cache is a map that only drops the key used longest ago.
THEOREM LRUIsARecencyMap == CacheSpec => ImplementsRecencyMap
<1>1. CacheInit => Promise!MapInit
  BY DEF CacheInit, Promise!MapInit
<1>2. ASSUME CacheTypes, CacheInv, [CacheNext]_cacheVars
      PROVE  [Promise!MapNext]_(Promise!mapVars)
  <2>1. CASE CacheNext
    BY <1>2, <2>1, HitStep, SetStep, InvalidateStep, MissStep
       DEF CacheNext, Promise!MapNext
  <2>2. CASE UNCHANGED cacheVars
    BY <2>2 DEF cacheVars, Promise!mapVars
  <2> QED
    BY <1>2, <2>1, <2>2
<1> QED
  BY <1>1, <1>2, CacheAlways, PTL
     DEF CacheSpec, ImplementsRecencyMap, Promise!MapSpec
=============================================================================
