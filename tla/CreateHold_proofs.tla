-------------------------- MODULE CreateHold_proofs --------------------------
(***************************************************************************)
(* The guarantees of create_hold for any number of concurrent calls, any   *)
(* tiers, users and quantities:                                            *)
(*   - InventoryInv is inductive, hence TypeOK, HeldMatchesActive and      *)
(*     NoOversell;                                                         *)
(*   - AdmittedBound is inductive with it, hence EventHoldBound.           *)
(***************************************************************************)
EXTENDS CreateHold, FiniteSetTheorems, TLAPS

-----------------------------------------------------------------------------
(***************************************************************************)
(* The queries of HoldRows: how many places a set of holds reserves, and   *)
(* what one more hold adds.                                                *)
(***************************************************************************)

\* The holds of a tier, and of a user on an event, are finitely many.
LEMMA ActiveFinite ==
    ASSUME NEW rows
    PROVE  /\ \A t : IsFiniteSet(ActiveOn(rows, t))
           /\ \A u, t : IsFiniteSet(ActiveOfTier(rows, u, t))
           /\ \A u, e : IsFiniteSet(ActiveOf(rows, u, e))
<1>1. ASSUME NEW S \in SUBSET Tokens PROVE IsFiniteSet(S)
  BY <1>1, FS_Subset, RowsAssumption
<1>2. /\ \A t : ActiveOn(rows, t) \in SUBSET Tokens
      /\ \A u, t : ActiveOfTier(rows, u, t) \in SUBSET Tokens
      /\ \A u, e : ActiveOf(rows, u, e) \in SUBSET Tokens
  BY DEF ActiveOn, ActiveOfTier, ActiveOf
<1> QED
  BY <1>1, <1>2

\* The places one hold owns are as many as its quantity.
LEMMA OwnPlaces ==
    ASSUME NEW h, NEW q \in Nat
    PROVE  /\ IsFiniteSet({h} \X (1..q))
           /\ Cardinality({h} \X (1..q)) = q
<1>1. IsFiniteSet({h}) /\ Cardinality({h}) = 1
  BY FS_Singleton
<1>2. IsFiniteSet(1..q) /\ Cardinality(1..q) = q
  <2>1. Cardinality(1..q) = IF 1 > q THEN 0 ELSE q - 1 + 1
    BY FS_Interval
  <2>2. IsFiniteSet(1..q)
    BY FS_Interval
  <2> QED
    BY <2>1, <2>2
<1>3. /\ IsFiniteSet({h} \X (1..q))
      /\ Cardinality({h} \X (1..q)) = Cardinality({h}) * Cardinality(1..q)
  BY <1>1, <1>2, FS_Product
<1> QED
  BY <1>1, <1>2, <1>3

\* Finitely many holds reserve finitely many places.
LEMMA PlacesFinite ==
    ASSUME NEW rows, NEW S \in SUBSET Tokens,
           \A h \in S : rows[h].quantity \in Nat
    PROVE  IsFiniteSet(PlacesOf(rows, S))
<1> DEFINE Own(h) == {h} \X (1..rows[h].quantity)
           T == {Own(h) : h \in S}
           f == [h \in S |-> Own(h)]
<1>1. IsFiniteSet(S)
  BY FS_Subset, RowsAssumption
<1>2. f \in Surjection(S, T)
  BY DEF Surjection
<1>3. IsFiniteSet(T)
  BY <1>1, <1>2, FS_Surjection
<1>4. ASSUME NEW P \in T
      PROVE  IsFiniteSet(P)
  <2>1. PICK h \in S : P = {h} \X (1..rows[h].quantity)
    BY <1>4
  <2>2. rows[h].quantity \in Nat
    OBVIOUS
  <2>3. IsFiniteSet({h} \X (1..rows[h].quantity))
    BY <2>2, OwnPlaces
  <2> QED
    BY <2>1, <2>3
<1>5. IsFiniteSet(UNION T)
  BY <1>3, <1>4, FS_UNION
<1> QED
  BY <1>5 DEF PlacesOf

\* One more hold reserves as many more places as its quantity.
LEMMA PlacesAdd ==
    ASSUME NEW old, NEW new, NEW S \in SUBSET Tokens, NEW h \in Tokens,
           h \notin S,
           \A g \in S : /\ old[g].quantity \in Nat
                        /\ new[g].quantity = old[g].quantity,
           new[h].quantity \in Nat
    PROVE  Cardinality(PlacesOf(new, S \cup {h}))
               = Cardinality(PlacesOf(old, S)) + new[h].quantity
<1> DEFINE P == PlacesOf(old, S)
           Q == {h} \X (1..new[h].quantity)
<1>1. PlacesOf(new, S \cup {h}) = P \cup Q
  BY DEF PlacesOf
<1>2. P \cap Q = {}
  BY DEF PlacesOf
<1>3. IsFiniteSet(P)
  BY PlacesFinite
<1>4. IsFiniteSet(Q) /\ Cardinality(Q) = new[h].quantity
  BY OwnPlaces
<1>5. Cardinality(P \cup Q)
         = Cardinality(P) + Cardinality(Q) - Cardinality(P \cap Q)
  BY <1>3, <1>4, FS_Union
<1>6. Cardinality(P) \in Nat /\ Cardinality(Q) \in Nat
  BY <1>3, <1>4, FS_CardinalityType
<1>7. Cardinality(P \cap Q) = 0
  BY <1>2, FS_EmptySet
<1>8. Cardinality(P \cup Q) = Cardinality(P) + new[h].quantity
  <2> HIDE DEF P, Q
  <2> QED
    BY <1>4, <1>5, <1>6, <1>7
<1> QED
  BY <1>1, <1>8

-----------------------------------------------------------------------------

\* What a program counter says, expanded once.
USE DEF Locked, Admitted, Inserted, Ended

\* No call is under way and no hold exists at the start.
LEMMA InitInventory == Init => InventoryInv
<1> SUFFICES ASSUME Init PROVE InventoryInv
  OBVIOUS
<1>1. tier \in [Tiers -> OpeningRows]
  BY DEF Init
<1>2. \A r \in OpeningRows : r \in TierRows /\ r.held = 0 /\ r.sold <= r.total
  <2> SUFFICES ASSUME NEW r \in [total : Totals, held : {0}, sold : Solds],
                      r.sold <= r.total
               PROVE  r \in TierRows /\ r.held = 0 /\ r.sold <= r.total
    BY DEF OpeningRows
  <2>1. r.total \in Nat /\ r.held = 0 /\ r.sold \in Nat
    BY CreateAssumption
  <2>2. r = [total |-> r.total, held |-> r.held, sold |-> r.sold]
    OBVIOUS
  <2> QED
    BY <2>1, <2>2 DEF TierRows
<1>3. TypeOK
  BY <1>1, <1>2 DEF Init, TypeOK, Holds
<1>4. LockDiscipline
  BY DEF Init, LockDiscipline
<1>5. HeldMatchesActive
  <2> SUFFICES ASSUME NEW t \in Tiers
               PROVE  tier[t].held = Cardinality(Places(hold, t))
    BY DEF HeldMatchesActive
  <2>1. ActiveOn(hold, t) = {}
    BY DEF Init, ActiveOn, IsActive
  <2>2. Places(hold, t) = {}
    BY <2>1 DEF Places, PlacesOf
  <2>3. Cardinality(Places(hold, t)) = 0
    BY <2>2, FS_EmptySet
  <2> QED
    BY <1>1, <1>2, <2>3
<1>6. \A t \in Tiers : tier[t].held + tier[t].sold <= tier[t].total
  BY <1>1, <1>2 DEF TierRows
<1> QED
  BY <1>3, <1>4, <1>5, <1>6 DEF InventoryInv

\* A step that leaves the rows alone leaves the sums and the counters alone.
LEMMA RowsUnchanged ==
    ASSUME InventoryInv, UNCHANGED rowVars, TypeOK', LockDiscipline'
    PROVE  InventoryInv'
  BY DEF InventoryInv, HeldMatchesActive, rowVars

\* A rollback gives the lock back and forgets the call.
LEMMA RollbackKeeps ==
    ASSUME InventoryInv, NEW h \in Tokens, NEW from \in Locked,
           NEW to \in Ended \ {"done"}, Rollback(h, from, to)
    PROVE  InventoryInv'
<1> USE DEF InventoryInv, Rollback, End, Goto, rowVars, redisVars
<1>1. args[h] \in Args /\ args[h].tier \in Tiers
  BY DEF LockDiscipline, Args
<1>2. TypeOK'
  BY <1>1 DEF TypeOK
<1>3. LockDiscipline'
  <2> SUFFICES ASSUME NEW g \in Tokens
               PROVE  /\ pc'[g] = "start" \/ pc'[g] \in Locked => args'[g] \in Args
                      /\ pc'[g] \in Locked => /\ lock'[args'[g].tier] = g
                                              /\ snap'[g] = tier'[args'[g].tier]
                      /\ pc'[g] # "done" => hold'[g] = NoRow
                      /\ pc'[g] \in Inserted =>
                            /\ Available(snap'[g]) >= args'[g].quantity
                            /\ args'[g].quantity >= 0
    BY DEF LockDiscipline, Enough
  <2>1. CASE g = h
    BY <2>1 DEF TypeOK, LockDiscipline
  <2>2. CASE g # h
    <3>1. pc'[g] = pc[g] /\ args'[g] = args[g] /\ snap'[g] = snap[g]
      BY <2>2 DEF TypeOK
    <3>2. ASSUME pc[g] \in Locked PROVE args[g].tier \in Tiers /\ args[g].tier # args[h].tier
      BY <2>2, <3>2 DEF LockDiscipline, Args
    <3> QED
      BY <3>1, <3>2 DEF LockDiscipline, TypeOK, Enough
  <2> QED
    BY <2>1, <2>2
<1> QED
  BY <1>2, <1>3, RowsUnchanged

\* A step inside the transaction of one call: it changes neither rows nor
\* locks, and moves on with the arguments and the snapshot it has.
LEMMA InsideKeeps ==
    ASSUME InventoryInv, NEW h \in Tokens, NEW from \in Locked,
           NEW to \in Locked, Goto(h, from, to),
           UNCHANGED <<rowVars, lock, args, snap>>,
           registry' \subseteq Tokens, zset' \subseteq Tokens,
           avail' \in [Tiers -> Nat \cup {None}],
           to \in Inserted => Enough(h) /\ args[h].quantity >= 0
    PROVE  InventoryInv'
<1> USE DEF InventoryInv, Goto, rowVars
<1>1. TypeOK'
  BY DEF TypeOK
<1>2. LockDiscipline'
  BY DEF TypeOK, LockDiscipline, Enough
<1> QED
  BY <1>1, <1>2, RowsUnchanged

\* The row a call was granted is the row as it is.
LEMMA LockTierKeeps ==
    ASSUME InventoryInv, NEW h \in Tokens, LockTier(h)
    PROVE  InventoryInv'
<1> USE DEF InventoryInv, LockTier, Goto, rowVars, redisVars
<1>1. args[h] \in Args /\ args[h].tier \in Tiers
  BY DEF LockDiscipline, Args
<1>2. TypeOK'
  BY <1>1 DEF TypeOK
<1>3. LockDiscipline'
  <2>1. \A g \in Tokens : pc[g] \in Locked => args[g].tier # args[h].tier
    BY CreateAssumption DEF LockDiscipline
  <2> QED
    BY <1>1, <2>1 DEF TypeOK, LockDiscipline, Enough
<1> QED
  BY <1>2, <1>3, RowsUnchanged

\* The commit adds the same quantity to the counter and to the active holds,
\* and the availability read under the lock is still what the tier has.
LEMMA CommitKeeps ==
    ASSUME InventoryInv, NEW h \in Tokens, Commit(h)
    PROVE  InventoryInv'
<1> DEFINE a == args[h]
           t == a.tier
<1> USE DEF InventoryInv
<1>1. /\ a \in Args /\ t \in Tiers /\ a.user \in Users /\ a.quantity \in Nat
      /\ snap[h] = tier[t]
      /\ hold[h] = NoRow
      /\ tier[t] \in TierRows
  BY CreateAssumption DEF Commit, End, Goto, LockDiscipline, Args, TypeOK
<1>2. Available(tier[t]) >= a.quantity
  BY <1>1 DEF Commit, End, Goto, LockDiscipline, Enough
<1>3. NewHeld(h) = tier[t].held + a.quantity
  BY <1>1 DEF NewHeld
<1>4. /\ tier'[t] = [tier[t] EXCEPT !.held = tier[t].held + a.quantity]
      /\ \A s \in Tiers \ {t} : tier'[s] = tier[s]
  BY <1>1, <1>3 DEF Commit, TypeOK
<1>5. tier'[t] \in TierRows /\ tier'[t].held = tier[t].held + a.quantity
      /\ tier'[t].sold = tier[t].sold /\ tier'[t].total = tier[t].total
  BY <1>1, <1>4 DEF TierRows
<1>6. hold' = [hold EXCEPT ![h] = [user |-> a.user, tier |-> t,
                                   quantity |-> a.quantity,
                                   status |-> "active"]]
  BY DEF Commit
<1>7. hold'[h] \in Holds
  BY <1>1, <1>6 DEF TypeOK, Holds, Status
<1>8. TypeOK'
  <2>1. tier' \in [Tiers -> TierRows]
    BY <1>3, <1>4, <1>5 DEF TypeOK, Commit
  <2>2. hold' \in [Tokens -> Holds \cup {NoRow}]
    BY <1>6, <1>7 DEF TypeOK
  <2> QED
    BY <2>1, <2>2 DEF TypeOK, Commit, End, Goto, redisVars
<1>9. LockDiscipline'
  <2> SUFFICES ASSUME NEW g \in Tokens
               PROVE  /\ pc'[g] = "start" \/ pc'[g] \in Locked => args'[g] \in Args
                      /\ pc'[g] \in Locked => /\ lock'[args'[g].tier] = g
                                              /\ snap'[g] = tier'[args'[g].tier]
                      /\ pc'[g] # "done" => hold'[g] = NoRow
                      /\ pc'[g] \in Inserted =>
                            /\ Available(snap'[g]) >= args'[g].quantity
                            /\ args'[g].quantity >= 0
    BY DEF LockDiscipline, Enough
  <2>1. CASE g = h
    BY <2>1 DEF TypeOK, Commit, End, Goto
  <2>2. CASE g # h
    <3>1. /\ pc'[g] = pc[g] /\ args'[g] = args[g] /\ snap'[g] = snap[g]
          /\ hold'[g] = hold[g]
      BY <2>2 DEF TypeOK, Commit, End, Goto
    <3>2. ASSUME pc[g] \in Locked
          PROVE  /\ args[g].tier \in Tiers \ {t}
                 /\ tier'[args[g].tier] = tier[args[g].tier]
                 /\ lock'[args[g].tier] = lock[args[g].tier]
      <4>1. pc[h] \in Locked /\ lock' = [lock EXCEPT ![t] = Free]
        BY DEF Commit, End, Goto
      <4>2. args[g].tier \in Tiers \ {t}
        BY <2>2, <3>2, <4>1 DEF LockDiscipline, Args
      <4> QED
        BY <1>4, <4>1, <4>2 DEF TypeOK
    <3> QED
      BY <3>1, <3>2 DEF LockDiscipline, Enough
  <2> QED
    BY <2>1, <2>2
<1>10. HeldMatchesActive'
  <2> SUFFICES ASSUME NEW s \in Tiers
               PROVE  tier'[s].held = Cardinality(Places(hold', s))
    BY DEF HeldMatchesActive
  <2> DEFINE S == ActiveOn(hold, s)
  <2>1. tier[s].held = Cardinality(PlacesOf(hold, S))
    BY DEF HeldMatchesActive, Places
  <2>2. \A g \in S : hold[g] \in Holds /\ g # h /\ hold'[g] = hold[g]
    BY <1>1, <1>6 DEF TypeOK, ActiveOn, IsActive
  <2>3. CASE s = t
    <3>1. ActiveOn(hold', s) = S \cup {h}
      BY <1>6, <1>7, <2>2, <2>3, NoRowAssumption
      DEF ActiveOn, IsActive, TypeOK
    <3>2. /\ \A g \in S : /\ hold[g].quantity \in Nat
                          /\ hold'[g].quantity = hold[g].quantity
          /\ hold'[h].quantity = a.quantity
      BY <1>6, <2>2 DEF Holds, TypeOK
    <3>3. S \in SUBSET Tokens /\ h \notin S
      BY <2>2 DEF ActiveOn
    <3>4. Cardinality(PlacesOf(hold', S \cup {h}))
             = Cardinality(PlacesOf(hold, S)) + hold'[h].quantity
      <4> HIDE DEF S
      <4> QED
        BY <1>1, <3>2, <3>3, PlacesAdd
    <3> QED
      BY <1>5, <2>1, <2>3, <3>1, <3>2, <3>4 DEF Places
  <2>4. CASE s # t
    <3>1. ActiveOn(hold', s) = S
      BY <1>1, <1>6, <2>2, <2>4 DEF ActiveOn, IsActive, TypeOK
    <3>2. PlacesOf(hold', S) = PlacesOf(hold, S)
      BY <2>2 DEF PlacesOf
    <3> QED
      BY <1>4, <2>1, <2>4, <3>1, <3>2 DEF Places
  <2> QED
    BY <2>3, <2>4
<1>11. \A s \in Tiers : tier'[s].held + tier'[s].sold <= tier'[s].total
  <2>1. tier'[t].held + tier'[t].sold <= tier'[t].total
    BY <1>1, <1>2, <1>5 DEF Available, TierRows
  <2>2. \A s \in Tiers \ {t} : tier'[s].held + tier'[s].sold <= tier'[s].total
    BY <1>4
  <2> QED
    BY <2>1, <2>2
<1> QED
  BY <1>8, <1>9, <1>10, <1>11

LEMMA NextInventory == InventoryInv /\ [Next]_createVars => InventoryInv'
<1> SUFFICES ASSUME InventoryInv, [Next]_createVars PROVE InventoryInv'
  OBVIOUS
<1>1. CASE UNCHANGED createVars
  <2>1. TypeOK' /\ LockDiscipline'
    BY <1>1 DEF InventoryInv, createVars, TypeOK, LockDiscipline, Enough
  <2> QED
    BY <1>1, <2>1, RowsUnchanged DEF createVars, rowVars
<1>2. ASSUME NEW h \in Tokens, CreateCall(h) PROVE InventoryInv'
  <2>1. TypeOK'
    BY <1>2 DEF InventoryInv, TypeOK, CreateCall, Goto, rowVars, redisVars
  <2>2. LockDiscipline'
    BY <1>2 DEF InventoryInv, TypeOK, LockDiscipline, Enough, CreateCall, Goto,
                rowVars
  <2> QED
    BY <1>2, <2>1, <2>2, RowsUnchanged DEF CreateCall
<1>3. ASSUME NEW h \in Tokens, LockTier(h) PROVE InventoryInv'
  BY <1>3, LockTierKeeps
<1>4. ASSUME NEW h \in Tokens, CountHolds(h) PROVE InventoryInv'
  BY <1>4, InsideKeeps DEF CountHolds, redisVars, InventoryInv, TypeOK
<1>5. ASSUME NEW h \in Tokens, Reserve(h) PROVE InventoryInv'
  BY <1>5, InsideKeeps DEF Reserve, redisVars, InventoryInv, TypeOK
<1>6. ASSUME NEW h \in Tokens, RegisterHold(h) PROVE InventoryInv'
  <2>1. Enough(h) /\ args[h].quantity >= 0
    BY <1>6 DEF RegisterHold, Goto, InventoryInv, LockDiscipline
  <2> QED
    BY <1>6, <2>1, InsideKeeps DEF RegisterHold, InventoryInv, TypeOK
<1>7. ASSUME NEW h \in Tokens, PushExpiry(h) PROVE InventoryInv'
  <2>1. Enough(h) /\ args[h].quantity >= 0
    BY <1>7 DEF PushExpiry, Goto, InventoryInv, LockDiscipline
  <2> QED
    BY <1>7, <2>1, InsideKeeps DEF PushExpiry, InventoryInv, TypeOK
<1>12. ASSUME NEW h \in Tokens, Invalidate(h) PROVE InventoryInv'
  <2>1. Enough(h) /\ args[h].quantity >= 0
    BY <1>12 DEF Invalidate, Goto, InventoryInv, LockDiscipline
  <2> QED
    BY <1>12, <2>1, InsideKeeps DEF Invalidate, InventoryInv, TypeOK
<1>8. ASSUME NEW h \in Tokens, Commit(h) PROVE InventoryInv'
  BY <1>8, CommitKeeps
<1>9. ASSUME NEW h \in Tokens,
             RefuseAbuse(h) \/ RefuseSoldOut(h) \/ RefuseNegative(h)
      PROVE  InventoryInv'
  BY <1>9, RollbackKeeps DEF RefuseAbuse, RefuseSoldOut, RefuseNegative
<1>10. ASSUME NEW h \in Tokens, AbortLocked(h) PROVE InventoryInv'
  BY <1>10, RollbackKeeps DEF AbortLocked
<1>11. ASSUME NEW h \in Tokens, AbortWaiting(h) PROVE InventoryInv'
  <2>1. TypeOK'
    BY <1>11 DEF InventoryInv, TypeOK, AbortWaiting, Goto, rowVars, redisVars
  <2>2. LockDiscipline'
    BY <1>11 DEF InventoryInv, TypeOK, LockDiscipline, Enough, AbortWaiting,
                 Goto, rowVars
  <2> QED
    BY <1>11, <2>1, <2>2, RowsUnchanged DEF AbortWaiting
<1> QED
  BY <1>1, <1>2, <1>3, <1>4, <1>5, <1>6, <1>7, <1>8, <1>9, <1>10, <1>11,
     <1>12
  DEF Next, Step

\* Counters, hold rows and capacities agree in every state.
THEOREM InventoryAlways == Spec => []InventoryInv
<1> QED
  BY InitInventory, NextInventory, PTL DEF Spec

\* Every variable keeps its type, counters their sign, for all arguments.
THEOREM TypeCorrect == Spec => []TypeOK
<1>1. InventoryInv => TypeOK
  BY DEF InventoryInv
<1> QED
  BY <1>1, InventoryAlways, PTL

\* quantity_held is the sum of the quantities of the active holds.
THEOREM HeldCorrect == Spec => []HeldMatchesActive
<1>1. InventoryInv => HeldMatchesActive
  BY DEF InventoryInv
<1> QED
  BY <1>1, InventoryAlways, PTL

\* create_hold never reserves more places than the tier has left, however
\* many calls run at once (services.py:11).
THEOREM NeverOversold == Spec => []NoOversell
<1>1. InventoryInv => NoOversell
  BY DEF InventoryInv, HeldMatchesActive, NoOversell
<1> QED
  BY <1>1, InventoryAlways, PTL

-----------------------------------------------------------------------------
(***************************************************************************)
(* The abuse guard.                                                        *)
(***************************************************************************)

\* The lock discipline without the snapshots.
LEMMA InventoryOwners == InventoryInv => Owners
  BY DEF InventoryInv, TypeOK, LockDiscipline, Owners

\* What is counted is finite.
LEMMA CountedFinite ==
    ASSUME NEW u, NEW t, NEW e
    PROVE  /\ IsFiniteSet(CountedOn(u, t)) /\ Cardinality(CountedOn(u, t)) \in Nat
           /\ IsFiniteSet(Counted(u, e)) /\ Cardinality(Counted(u, e)) \in Nat
           /\ IsFiniteSet(TiersOf(e)) /\ Cardinality(TiersOf(e)) \in Nat
<1>1. /\ CountedOn(u, t) \in SUBSET Tokens
      /\ Counted(u, e) \in SUBSET Tokens
      /\ TiersOf(e) \in SUBSET Tiers
  BY DEF CountedOn, Counted, PendingOn, Pending, ActiveOf, ActiveOfTier,
         ActiveOn, TiersOf
<1>2. IsFiniteSet(CountedOn(u, t)) /\ IsFiniteSet(Counted(u, e))
      /\ IsFiniteSet(TiersOf(e))
  BY <1>1, FS_Subset, RowsAssumption
<1> QED
  BY <1>2, FS_CardinalityType

LEMMA InitBound == Init => AdmittedBound
<1> SUFFICES ASSUME Init PROVE AdmittedBound
  OBVIOUS
<1>1. \A u, t : CountedOn(u, t) = {}
  BY DEF Init, CountedOn, PendingOn, ActiveOfTier, ActiveOn, IsActive
<1>2. \A u, e : Counted(u, e) = {}
  BY DEF Init, Counted, Pending, ActiveOf, IsActive
<1>3. Cardinality({}) = 0
  BY FS_EmptySet
<1>4. \A e : Cardinality(TiersOf(e)) \in Nat
  BY CountedFinite
<1> QED
  BY <1>1, <1>2, <1>3, <1>4, RowsAssumption DEF AdmittedBound

\* A step that counts no new hold keeps the bound.
LEMMA BoundMonotone ==
    ASSUME AdmittedBound,
           \A u \in Users, t \in Tiers : CountedOn(u, t)' \subseteq CountedOn(u, t),
           \A u \in Users, e \in Events : Counted(u, e)' \subseteq Counted(u, e)
    PROVE  AdmittedBound'
<1>1. ASSUME NEW S, NEW T \in SUBSET S, IsFiniteSet(S), NEW n \in Int,
             Cardinality(S) <= n
      PROVE  Cardinality(T) <= n
  <2>1. IsFiniteSet(T) /\ Cardinality(T) <= Cardinality(S)
    BY <1>1, FS_Subset
  <2>2. Cardinality(S) \in Nat /\ Cardinality(T) \in Nat
    BY <1>1, <2>1, FS_CardinalityType
  <2> QED
    BY <1>1, <2>1, <2>2
<1>2. ASSUME NEW u \in Users, NEW t \in Tiers
      PROVE  Cardinality(CountedOn(u, t)') <= MaxHolds
  BY <1>1, CountedFinite, RowsAssumption DEF AdmittedBound
<1>3. ASSUME NEW u \in Users, NEW e \in Events, TiersOf(e) # {}
      PROVE  Cardinality(Counted(u, e)') <= MaxHolds + Cardinality(TiersOf(e)) - 1
  <2>1. MaxHolds + Cardinality(TiersOf(e)) - 1 \in Int
    BY CountedFinite, RowsAssumption
  <2>2. Cardinality(Counted(u, e)) <= MaxHolds + Cardinality(TiersOf(e)) - 1
    BY <1>3 DEF AdmittedBound
  <2>3. Counted(u, e)' \in SUBSET Counted(u, e) /\ IsFiniteSet(Counted(u, e))
    BY CountedFinite
  <2> QED
    BY <1>1, <2>1, <2>2, <2>3
<1> QED
  BY <1>2, <1>3 DEF AdmittedBound

\* Passing the guard: the call has seen fewer than MaxHolds active holds on the
\* event, the other pending calls are at most one on each of its other tiers.
LEMMA CountHoldsBound ==
    ASSUME Owners, Owners', AdmittedBound,
           NEW h \in Tokens, CountHolds(h)
    PROVE  AdmittedBound'
<1> DEFINE v == args[h].user
           k == args[h].tier
           c == EventOf[k]
<1>1. /\ v \in Users /\ k \in Tiers /\ c \in Events
      /\ lock[k] = h
  BY RowsAssumption DEF CountHolds, Goto, Owners, Args
<1>2. /\ hold' = hold /\ args' = args /\ DOMAIN pc = Tokens
      /\ pc' = [pc EXCEPT ![h] = "counted"] /\ pc[h] = "locked"
  <2>1. pc \in [Tokens -> {"idle", "start"} \cup Locked \cup Ended]
    BY DEF Owners
  <2> QED
    BY <2>1 DEF CountHolds, Goto, rowVars
<1>3. /\ IsFiniteSet(ActiveOf(hold, v, c)) /\ Cardinality(ActiveOf(hold, v, c)) \in Nat
      /\ Cardinality(ActiveOf(hold, v, c)) <= MaxHolds - 1
  <2>1. IsFiniteSet(ActiveOf(hold, v, c))
    BY ActiveFinite
  <2>2. Cardinality(ActiveOf(hold, v, c)) \in Nat
    BY <2>1, FS_CardinalityType
  <2> QED
    BY <2>1, <2>2, RowsAssumption DEF CountHolds, HoldsCounted
<1>4. ASSUME NEW u \in Users, NEW e \in Events, TiersOf(e) # {}
      PROVE  Cardinality(Counted(u, e)') <= MaxHolds + Cardinality(TiersOf(e)) - 1
  <2>1. CASE u = v /\ e = c
    <3> DEFINE A == ActiveOf(hold, u, e)
               P == Pending(u, e)'
    <3>1. IsFiniteSet(P) /\ Cardinality(P) <= Cardinality(TiersOf(e))
      <4>1. /\ \A g \in P : args[g].tier \in TiersOf(e)
            /\ \A g, g2 \in P : args[g].tier = args[g2].tier => g = g2
        BY <1>2 DEF Owners, Pending, TiersOf, Args
      <4> DEFINE f == [g \in P |-> args[g].tier]
      <4>2. f \in Injection(P, TiersOf(e))
        BY <4>1 DEF Injection, IsInjective
      <4>3. IsFiniteSet(TiersOf(e))
        BY CountedFinite
      <4> QED
        BY <4>2, <4>3, FS_Injection
    <3>2. Counted(u, e)' = A \cup P
      BY <1>2 DEF Counted
    <3>3. /\ Cardinality(A \cup P)
                = Cardinality(A) + Cardinality(P) - Cardinality(A \cap P)
          /\ IsFiniteSet(A \cap P)
      BY <1>3, <2>1, <3>1, FS_Union, FS_Intersection
    <3>4. /\ Cardinality(P) \in Nat /\ Cardinality(A \cap P) \in Nat
          /\ Cardinality(TiersOf(e)) \in Nat
      BY <3>1, <3>3, FS_CardinalityType, CountedFinite
    <3>5. Cardinality(A) \in Nat /\ Cardinality(A) <= MaxHolds - 1
      BY <1>3, <2>1
    <3> HIDE DEF A, P
    <3> QED
      BY <3>1, <3>2, <3>3, <3>4, <3>5, RowsAssumption
  <2>2. CASE ~(u = v /\ e = c)
    <3>1. Counted(u, e)' = Counted(u, e)
      BY <1>2, <2>2 DEF Counted, Pending
    <3> QED
      BY <1>4, <3>1 DEF AdmittedBound
  <2> QED
    BY <2>1, <2>2
<1>5. ASSUME NEW u \in Users, NEW t \in Tiers
      PROVE  Cardinality(CountedOn(u, t)') <= MaxHolds
  <2>1. CASE u = v /\ t = k
    <3> DEFINE B == ActiveOfTier(hold, u, t)
    <3>1. PendingOn(u, t)' = {h}
      <4>1. h \in PendingOn(u, t)'
        BY <1>2, <2>1 DEF PendingOn
      <4>2. \A g \in PendingOn(u, t)' : lock'[t] = g /\ lock'[t] = h
        BY <1>2, <2>1 DEF PendingOn, Owners
      <4> QED
        BY <4>1, <4>2
    <3>2. CountedOn(u, t)' = B \cup {h}
      BY <1>2, <3>1 DEF CountedOn
    <3>3. B \in SUBSET ActiveOf(hold, v, c)
      BY <2>1 DEF ActiveOfTier, ActiveOn, ActiveOf
    <3>4. IsFiniteSet(B) /\ Cardinality(B) <= Cardinality(ActiveOf(hold, v, c))
      BY <1>3, <3>3, FS_Subset
    <3>5. Cardinality(B \cup {h}) = IF h \in B THEN Cardinality(B)
                                             ELSE Cardinality(B) + 1
      BY <3>4, FS_AddElement
    <3>6. Cardinality(B) \in Nat
      BY <3>4, FS_CardinalityType
    <3> HIDE DEF B
    <3> QED
      BY <1>3, <3>2, <3>4, <3>5, <3>6, RowsAssumption
  <2>2. CASE ~(u = v /\ t = k)
    <3>1. CountedOn(u, t)' = CountedOn(u, t)
      BY <1>2, <2>2 DEF CountedOn, PendingOn
    <3> QED
      BY <3>1 DEF AdmittedBound
  <2> QED
    BY <2>1, <2>2
<1> QED
  BY <1>4, <1>5 DEF AdmittedBound

LEMMA NextBound ==
    Owners /\ Owners' /\ AdmittedBound /\ [Next]_createVars
        => AdmittedBound'
<1> SUFFICES ASSUME Owners, Owners', AdmittedBound, [Next]_createVars
             PROVE  AdmittedBound'
  OBVIOUS
<1> DEFINE Fewer ==
      /\ \A u \in Users, t \in Tiers : CountedOn(u, t)' \subseteq CountedOn(u, t)
      /\ \A u \in Users, e \in Events : Counted(u, e)' \subseteq Counted(u, e)
<1>0. /\ pc \in [Tokens -> {"idle", "start"} \cup Locked \cup Ended]
      /\ DOMAIN args = Tokens /\ DOMAIN hold = Tokens
  BY DEF Owners
<1>1. CASE UNCHANGED createVars
  <2>1. Fewer
    BY <1>1 DEF createVars, CountedOn, Counted, Pending, PendingOn
  <2> QED
    BY <2>1, BoundMonotone
<1>2. ASSUME NEW h \in Tokens, CountHolds(h) PROVE AdmittedBound'
  BY <1>2, CountHoldsBound
<1>3. ASSUME NEW h \in Tokens,
             CreateCall(h) \/ LockTier(h) \/ AbortWaiting(h)
      PROVE  AdmittedBound'
  <2>1. hold' = hold /\ pc'[h] \notin Admitted
      /\ \A g \in Tokens \ {h} : pc'[g] = pc[g] /\ args'[g] = args[g]
    BY <1>0, <1>3 DEF CreateCall, LockTier, AbortWaiting, Goto, rowVars
  <2>2. Fewer
    BY <2>1 DEF CountedOn, Counted, Pending, PendingOn
  <2> QED
    BY <2>2, BoundMonotone
<1>4. ASSUME NEW h \in Tokens, Reserve(h) \/ RegisterHold(h) \/ PushExpiry(h) \/ Invalidate(h)
      PROVE  AdmittedBound'
  <2>1. hold' = hold /\ args' = args /\ pc[h] \in Admitted
      /\ \A g \in Tokens \ {h} : pc'[g] = pc[g]
    BY <1>0, <1>4 DEF Reserve, RegisterHold, PushExpiry, Invalidate, Goto, rowVars
  <2>2. Fewer
    BY <2>1 DEF CountedOn, Counted, Pending, PendingOn
  <2> QED
    BY <2>2, BoundMonotone
<1>5. ASSUME NEW h \in Tokens, NEW from \in Locked, NEW to \in Ended,
             Rollback(h, from, to)
      PROVE  AdmittedBound'
  <2>1. hold' = hold /\ pc'[h] \notin Admitted
      /\ \A g \in Tokens \ {h} : pc'[g] = pc[g] /\ args'[g] = args[g]
    BY <1>0, <1>5 DEF Rollback, End, Goto, rowVars
  <2>2. Fewer
    BY <2>1 DEF CountedOn, Counted, Pending, PendingOn
  <2> QED
    BY <2>2, BoundMonotone
<1>6. ASSUME NEW h \in Tokens, Commit(h) PROVE AdmittedBound'
  <2>1. /\ pc[h] \in Admitted /\ pc'[h] \notin Admitted
        /\ hold'[h] # NoRow => /\ hold'[h].user = args[h].user
                               /\ hold'[h].tier = args[h].tier
        /\ \A g \in Tokens \ {h} :
              pc'[g] = pc[g] /\ args'[g] = args[g] /\ hold'[g] = hold[g]
    BY <1>0, <1>6 DEF Commit, End, Goto
  <2>2. Fewer
    BY <2>1 DEF CountedOn, Counted, Pending, PendingOn, ActiveOf, ActiveOfTier,
                ActiveOn, IsActive
  <2> QED
    BY <2>2, BoundMonotone
<1>7. ASSUME NEW h \in Tokens,
             RefuseAbuse(h) \/ RefuseSoldOut(h) \/ RefuseNegative(h) \/ AbortLocked(h)
      PROVE  AdmittedBound'
  BY <1>5, <1>7 DEF RefuseAbuse, RefuseSoldOut, RefuseNegative, AbortLocked
<1> QED
  BY <1>1, <1>2, <1>3, <1>4, <1>6, <1>7 DEF Next, Step

\* What the guard has admitted stays within the bound.
THEOREM BoundAlways == Spec => []AdmittedBound
<1> QED
  BY InitBound, NextBound, InventoryAlways, InventoryOwners, PTL DEF Spec

\* A user has at most MaxHolds active holds on a tier, and on an event of n
\* tiers at most MaxHolds + n - 1 (services.py:55-63).
LEMMA BoundImplies == AdmittedBound => TierHoldBound /\ EventHoldBound
<1> SUFFICES ASSUME AdmittedBound PROVE TierHoldBound /\ EventHoldBound
  OBVIOUS
<1>1. ASSUME NEW u \in Users, NEW t \in Tiers
      PROVE  Cardinality(ActiveOfTier(hold, u, t)) <= MaxHolds
  <2>0. /\ IsFiniteSet(CountedOn(u, t))
        /\ ActiveOfTier(hold, u, t) \in SUBSET CountedOn(u, t)
    BY CountedFinite DEF CountedOn
  <2>1. /\ IsFiniteSet(ActiveOfTier(hold, u, t))
        /\ Cardinality(ActiveOfTier(hold, u, t)) <= Cardinality(CountedOn(u, t))
    BY <2>0, FS_Subset
  <2>2. Cardinality(ActiveOfTier(hold, u, t)) \in Nat
    BY <2>1, FS_CardinalityType
  <2>3. Cardinality(CountedOn(u, t)) <= MaxHolds /\ Cardinality(CountedOn(u, t)) \in Nat
    BY CountedFinite DEF AdmittedBound
  <2> QED
    BY <2>1, <2>2, <2>3, RowsAssumption
<1>2. ASSUME NEW u \in Users, NEW e \in Events, TiersOf(e) # {}
      PROVE  Cardinality(ActiveOf(hold, u, e))
                <= MaxHolds + Cardinality(TiersOf(e)) - 1
  <2>0. /\ IsFiniteSet(Counted(u, e))
        /\ ActiveOf(hold, u, e) \in SUBSET Counted(u, e)
    BY CountedFinite DEF Counted
  <2>1. /\ IsFiniteSet(ActiveOf(hold, u, e))
        /\ Cardinality(ActiveOf(hold, u, e)) <= Cardinality(Counted(u, e))
    BY <2>0, FS_Subset
  <2>2. Cardinality(ActiveOf(hold, u, e)) \in Nat
    BY <2>1, FS_CardinalityType
  <2>3. /\ Cardinality(Counted(u, e)) <= MaxHolds + Cardinality(TiersOf(e)) - 1
        /\ Cardinality(Counted(u, e)) \in Nat /\ Cardinality(TiersOf(e)) \in Nat
    BY <1>2, CountedFinite DEF AdmittedBound
  <2> QED
    BY <2>1, <2>2, <2>3, RowsAssumption
<1> QED
  BY <1>1, <1>2 DEF TierHoldBound, EventHoldBound

\* On one tier a user never exceeds MAX_HOLDS_PER_USER_PER_EVENT.
THEOREM TierBoundHolds == Spec => []TierHoldBound
<1> QED
  BY BoundAlways, BoundImplies, PTL

\* On an event the excess is at most the number of its other tiers.
THEOREM EventBoundHolds == Spec => []EventHoldBound
<1> QED
  BY BoundAlways, BoundImplies, PTL

-----------------------------------------------------------------------------
(***************************************************************************)
(* create_hold implements the book of holds.                               *)
(***************************************************************************)

\* The queries of the ledger are those of the rows.
LEMMA SameQueries ==
    /\ \A rows, t : Ledger!Places(rows, t) = Places(rows, t)
    /\ \A rows, u, t : Ledger!ActiveOfTier(rows, u, t) = ActiveOfTier(rows, u, t)
  BY DEF Ledger!Places, Places, Ledger!PlacesOf, PlacesOf, Ledger!ActiveOn,
         ActiveOn, Ledger!IsActive, IsActive, Ledger!ActiveOfTier, ActiveOfTier

\* Cardinality does not depend on the instance through which it is reached.
LEMMA SameCardinality == \A S : Ledger!Cardinality(S) = Cardinality(S)
  BY Zenon DEF Ledger!Cardinality, Cardinality

LEMMA InitLedger == Init => Ledger!LedgerInit
<1> SUFFICES ASSUME Init PROVE Ledger!LedgerInit
  OBVIOUS
<1>1. \A t \in Tiers : tier[t] \in OpeningRows
  BY DEF Init
<1>2. Stock \in [Tiers -> {[total |-> r.total, sold |-> r.sold] : r \in OpeningRows}]
  BY <1>1 DEF Stock
<1> QED
  BY <1>2 DEF Init, Ledger!LedgerInit

\* The commit is the opening of a hold: what the transaction read under the
\* lock is what the ledger has left.
LEMMA CommitOpens ==
    ASSUME InventoryInv, AdmittedBound, NEW h \in Tokens, Commit(h)
    PROVE  Ledger!LedgerNext
<1> DEFINE u == args[h].user
           t == args[h].tier
           q == args[h].quantity
<1>1. /\ u \in Users /\ t \in Tiers /\ q \in Quantities /\ q \in Nat
      /\ hold[h] = NoRow
      /\ Available(tier[t]) >= q
  BY CreateAssumption DEF InventoryInv, LockDiscipline, Commit, End, Goto, Args, Enough
<1>2. /\ tier[t].total \in Nat /\ tier[t].sold \in Nat /\ tier[t].held \in Nat
      /\ tier[t].held + tier[t].sold <= tier[t].total
      /\ tier[t].held = Cardinality(Places(hold, t))
  BY <1>1 DEF InventoryInv, TypeOK, TierRows, HeldMatchesActive
<1>3. q <= tier[t].total - tier[t].sold - Cardinality(Places(hold, t))
  BY <1>1, <1>2 DEF Available
<1>4. Cardinality(ActiveOfTier(hold, u, t)) < MaxHolds
  <2> DEFINE B == ActiveOfTier(hold, u, t)
  <2>1. h \notin B /\ B \cup {h} \subseteq CountedOn(u, t)
    BY <1>1 DEF CountedOn, PendingOn, ActiveOfTier, ActiveOn, IsActive, Commit,
                End, Goto
  <2>2. IsFiniteSet(B)
    BY ActiveFinite
  <2>3. Cardinality(B) \in Nat /\ Cardinality(B \cup {h}) = Cardinality(B) + 1
    BY <2>1, <2>2, FS_AddElement, FS_CardinalityType
  <2>4. Cardinality(B \cup {h}) <= Cardinality(CountedOn(u, t))
    BY <2>1, CountedFinite, FS_Subset
  <2>5. Cardinality(CountedOn(u, t)) <= MaxHolds
      /\ Cardinality(CountedOn(u, t)) \in Nat
    BY <1>1, CountedFinite DEF AdmittedBound
  <2> HIDE DEF B
  <2> QED
    BY <2>3, <2>4, <2>5, RowsAssumption DEF B
<1>5. Stock' = Stock
  <2>1. tier' = [tier EXCEPT ![t].held = NewHeld(h)]
    BY DEF Commit
  <2>2. \A s \in Tiers : tier'[s].total = tier[s].total /\ tier'[s].sold = tier[s].sold
    BY <2>1, <1>1 DEF InventoryInv, TypeOK, TierRows
  <2> QED
    BY <2>2 DEF Stock
<1>6. Stock[t].total = tier[t].total /\ Stock[t].sold = tier[t].sold
  BY <1>1 DEF Stock
<1>7. q <= Ledger!Left(t)
  BY <1>3, <1>6, SameQueries, SameCardinality DEF Ledger!Left
<1>8. Ledger!Open(h, u, t, q)
  BY <1>1, <1>4, <1>5, <1>7, SameQueries, SameCardinality DEF Ledger!Open, Commit
<1> QED
  BY <1>1, <1>8 DEF Ledger!LedgerNext

LEMMA NextLedger ==
    InventoryInv /\ AdmittedBound /\ [Next]_createVars
        => [Ledger!LedgerNext]_<<hold, Stock>>
<1> SUFFICES ASSUME InventoryInv, AdmittedBound, [Next]_createVars
             PROVE  [Ledger!LedgerNext]_<<hold, Stock>>
  OBVIOUS
<1>1. ASSUME NEW h \in Tokens, Commit(h) PROVE Ledger!LedgerNext
  BY <1>1, CommitOpens
<1>2. ASSUME UNCHANGED <<tier, hold>> PROVE UNCHANGED <<hold, Stock>>
  BY <1>2 DEF Stock
<1>3. CASE UNCHANGED createVars
  BY <1>2, <1>3 DEF createVars
<1>4. ASSUME NEW h \in Tokens,
             CreateCall(h) \/ LockTier(h) \/ CountHolds(h) \/ RefuseAbuse(h)
                \/ Reserve(h) \/ RefuseSoldOut(h) \/ RefuseNegative(h)
                \/ RegisterHold(h) \/ PushExpiry(h) \/ Invalidate(h)
                \/ AbortWaiting(h) \/ AbortLocked(h)
      PROVE  UNCHANGED <<tier, hold>>
  BY <1>4 DEF CreateCall, LockTier, CountHolds, RefuseAbuse, Reserve,
       RefuseSoldOut, RefuseNegative, RegisterHold, PushExpiry, Invalidate,
       AbortWaiting, AbortLocked, Rollback, rowVars
<1> QED
  BY <1>1, <1>2, <1>3, <1>4 DEF Next, Step

\* Locks, counters, failures and Redis hidden, create_hold is HoldLedger.
THEOREM LedgerImplemented == Spec => ImplementsLedger
<1> QED
  BY InitLedger, NextLedger, InventoryAlways, BoundAlways, PTL
  DEF Spec, ImplementsLedger, Ledger!LedgerSpec, Ledger!ledgerVars

-----------------------------------------------------------------------------
(***************************************************************************)
(* What a refusal says, and what Redis knows.                              *)
(***************************************************************************)

\* A caller told "sold out" faced a tier whose hold rows left too few places.
THEOREM SoldOutHonest == Spec => SoldOutIsTrue
<1>1. ASSUME InventoryInv, [Next]_createVars, NEW h \in Tokens,
             pc[h] = "counted", pc'[h] = "sold_out"
      PROVE  Cardinality(Places(hold, args[h].tier)) + args[h].quantity
                > tier[args[h].tier].total - tier[args[h].tier].sold
  <2>1. RefuseSoldOut(h)
    <3> DEFINE Goes(g, to) == \E from : Goto(g, from, to)
    <3>1. \A g \in Tokens : \A to :
             Goes(g, to) => pc'[h] = to \/ (g # h /\ pc'[h] = pc[h])
      BY <1>1 DEF InventoryInv, TypeOK, Goto
    <3>2. ASSUME NEW g \in Tokens
          PROVE  /\ CreateCall(g) => Goes(g, "start")
                 /\ LockTier(g) => Goes(g, "locked")
                 /\ CountHolds(g) => Goes(g, "counted")
                 /\ RefuseAbuse(g) => Goes(g, "abuse")
                 /\ Reserve(g) => Goes(g, "reserved")
                 /\ RefuseSoldOut(g) => Goes(g, "sold_out")
                 /\ RefuseNegative(g) => Goes(g, "failed")
                 /\ RegisterHold(g) => Goes(g, "registered")
                 /\ PushExpiry(g) => Goes(g, "pushed")
                 /\ Invalidate(g) => Goes(g, "invalidated")
                 /\ Commit(g) => Goes(g, "done")
                 /\ AbortWaiting(g) => Goes(g, "failed")
                 /\ AbortLocked(g) => Goes(g, "failed")
      BY DEF CreateCall, LockTier, CountHolds, RefuseAbuse, Reserve,
             RefuseSoldOut, RefuseNegative, RegisterHold, PushExpiry, Invalidate,
             Commit, AbortWaiting, AbortLocked, Rollback, End
    <3>3. \A g \in Tokens : RefuseSoldOut(g) => g = h
      BY <1>1 DEF RefuseSoldOut, Rollback, End, Goto, InventoryInv, TypeOK
    <3>4. ~UNCHANGED createVars
      BY <1>1 DEF createVars
    <3> HIDE DEF Goes
    <3> QED
      BY <1>1, <3>1, <3>2, <3>3, <3>4 DEF Next, Step
  <2>2. /\ args[h].tier \in Tiers /\ args[h].quantity \in Int
        /\ snap[h] = tier[args[h].tier]
        /\ ~(Available(tier[args[h].tier]) >= args[h].quantity)
    BY <1>1, <2>1, CreateAssumption
    DEF InventoryInv, LockDiscipline, Args, RefuseSoldOut, Enough
  <2>3. /\ tier[args[h].tier] \in TierRows
        /\ tier[args[h].tier].held = Cardinality(Places(hold, args[h].tier))
    BY <1>1, <2>2 DEF InventoryInv, TypeOK, HeldMatchesActive
  <2> QED
    BY <2>2, <2>3 DEF Available, TierRows
<1>2. InventoryInv /\ [Next]_createVars =>
         [\A h \in Tokens :
            pc[h] = "counted" /\ pc'[h] = "sold_out" =>
              LET t == args[h].tier
              IN  Cardinality(Places(hold, t)) + args[h].quantity
                      > tier[t].total - tier[t].sold]_createVars
  BY <1>1
<1> QED
  BY <1>2, InventoryAlways, PTL DEF Spec, SoldOutIsTrue

\* Nothing here takes an entry or a member away, and the calls of different
\* tokens write different ones.
LEMMA TrackedKept == InventoryInv /\ Tracked /\ [Next]_createVars => Tracked'
<1> SUFFICES ASSUME InventoryInv, Tracked, [Next]_createVars
             PROVE  Tracked'
  OBVIOUS
<1> USE DEF Tracked, Goto
<1>0. pc \in [Tokens -> {"idle", "start"} \cup Locked \cup Ended]
  BY DEF InventoryInv, TypeOK
<1>1. ASSUME NEW h \in Tokens, RegisterHold(h) \/ PushExpiry(h) \/ Invalidate(h)
      PROVE  Tracked'
  BY <1>0, <1>1 DEF RegisterHold, PushExpiry, Invalidate
<1>2. ASSUME NEW h \in Tokens, Commit(h)
      PROVE  Tracked'
  BY <1>0, <1>2 DEF Commit, End, redisVars
<1>3. ASSUME NEW h \in Tokens,
             CreateCall(h) \/ LockTier(h) \/ CountHolds(h) \/ Reserve(h) \/ AbortWaiting(h)
      PROVE  Tracked'
  BY <1>0, <1>3
  DEF CreateCall, LockTier, CountHolds, Reserve, AbortWaiting, redisVars
<1>4. ASSUME NEW h \in Tokens,
             RefuseAbuse(h) \/ RefuseSoldOut(h) \/ RefuseNegative(h) \/ AbortLocked(h)
      PROVE  Tracked'
  BY <1>0, <1>4
  DEF RefuseAbuse, RefuseSoldOut, RefuseNegative, AbortLocked, Rollback, End, redisVars
<1>5. CASE UNCHANGED createVars
  BY <1>5 DEF createVars
<1> QED
  BY <1>1, <1>2, <1>3, <1>4, <1>5 DEF Next, Step

\* A committed hold has its registry entry and its place in the expiry queue
\* from the moment others can see it (services.py:81-93).
THEOREM CommittedTracked == Spec => []CommittedIsTracked
<1>1. Init => Tracked
  BY DEF Init, Tracked
<1>2. InventoryInv /\ Tracked => CommittedIsTracked
  BY DEF InventoryInv, LockDiscipline, Tracked, CommittedIsTracked
<1> QED
  BY <1>1, <1>2, TrackedKept, InventoryAlways, PTL DEF Spec
=============================================================================
