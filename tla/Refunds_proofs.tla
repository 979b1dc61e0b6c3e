--------------------------- MODULE Refunds_proofs ---------------------------
(***************************************************************************)
(* Refunds for any calls, payments, tickets and tiers, any saves of the    *)
(* admin site, and either outcome of the log.                              *)
(***************************************************************************)
EXTENDS Refunds, FiniteSetTheorems, TLAPS

\* A transaction that rolls back gives up its locks and changes nothing.
LEMMA RollbackKeeps ==
    ASSUME RefundInv, NEW r \in Calls, NEW s \in {"start", "count"} \cup Past,
           NEW e \in {"not_succeeded", "post_checkin", "failed"},
           RollbackRefund(r, s, e)
    PROVE  RefundInv'
<1> USE RefundsAssumption
    DEF RefundInv, RollbackRefund, RefundGoto, Unlock, committed, Past, EndedRefund
<1>1. RefundTypeOK'
  BY DEF RefundTypeOK
<1>2. OwnsPayment'
  BY DEF RefundTypeOK, OwnsPayment
<1>3. RefundedStays' /\ RefundedOnce'
  BY DEF RefundTypeOK, RefundedStays, RefundedOnce
<1>4. OnlyLateCheckIns'
  BY DEF RefundTypeOK, OnlyLateCheckIns, CheckedIn, TicketsOf
<1> QED
  BY <1>1, <1>2, <1>3, <1>4

\* At first nothing is locked, and every row is of its type.
LEMMA FirstInv == ASSUME RefundInit PROVE RefundInv
<1>1. RefundTypeOK
  <2>1. \A t \in Tiers : Cardinality({k \in Tickets : TierOf[k] = t}) \in Nat
    BY RefundsAssumption, FS_Subset, FS_CardinalityType
  <2>2. sold \in [Tiers -> Nat]
    <3>1. CASE sold = [t \in Tiers |-> 0]
      BY <3>1
    <3>2. CASE sold = [t \in Tiers |-> Cardinality({k \in Tickets : TierOf[k] = t})]
      BY <2>1, <3>2
    <3> QED
      BY <3>1, <3>2 DEF RefundInit
  <2>3. payment \in [Payments -> PaymentStatus] /\ ticket \in [Tickets -> TicketStatus]
    BY DEF RefundInit, PaymentStatus, TicketStatus
  <2> QED
    BY <2>2, <2>3 DEF RefundInit, RefundTypeOK
<1> QED
  BY <1>1
  DEF RefundInit, RefundInv, OwnsPayment, RefundedStays, RefundedOnce,
      OnlyLateCheckIns, Past

\* The inductive invariant: every step of every call, of the administrators and of
\* the database keeps it.
LEMMA RefundAlways == RefundSpec => []RefundInv
<1>1. RefundInit => RefundInv
  BY FirstInv
<1>2. RefundInv /\ [RefundNext]_refundVars => RefundInv'
  <2> SUFFICES ASSUME RefundInv, [RefundNext]_refundVars
               PROVE  RefundInv'
    OBVIOUS
  <2> USE RefundsAssumption
      DEF RefundInv, RefundGoto, committed, locks, loopVars, Past, EndedRefund,
          PaymentStatus, TicketStatus, TicketsOf
  <2>1. ASSUME NEW r \in Calls, RefundCall(r)
        PROVE  RefundInv'
    <3>1. RefundTypeOK' /\ OwnsPayment'
      BY <2>1 DEF RefundCall, RefundTypeOK, OwnsPayment
    <3>2. RefundedStays' /\ RefundedOnce'
      BY <2>1 DEF RefundCall, RefundTypeOK, OwnsPayment, RefundedStays, RefundedOnce
    <3>3. OnlyLateCheckIns'
      BY <2>1 DEF RefundCall, RefundTypeOK, OwnsPayment, OnlyLateCheckIns, CheckedIn
    <3> QED
      BY <3>1, <3>2, <3>3
  <2>2. ASSUME NEW r \in Calls, LockPayment(r)
        PROVE  RefundInv'
    <3>1. RefundTypeOK' /\ OwnsPayment'
      BY <2>2 DEF LockPayment, RefundTypeOK, OwnsPayment
    <3>2. RefundedStays' /\ RefundedOnce'
      BY <2>2 DEF LockPayment, RefundTypeOK, OwnsPayment, RefundedStays, RefundedOnce
    <3>3. OnlyLateCheckIns'
      BY <2>2 DEF LockPayment, RefundTypeOK, OwnsPayment, OnlyLateCheckIns, CheckedIn
    <3> QED
      BY <3>1, <3>2, <3>3
  <2>3. ASSUME NEW r \in Calls, PassGuard(r)
        PROVE  RefundInv'
    <3>1. RefundTypeOK' /\ OwnsPayment'
      BY <2>3 DEF PassGuard, RefundTypeOK, OwnsPayment, AllUnused
    <3>2. RefundedStays' /\ RefundedOnce'
      BY <2>3 DEF PassGuard, RefundTypeOK, OwnsPayment, RefundedStays, RefundedOnce, AllUnused
    <3>3. OnlyLateCheckIns'
      BY <2>3 DEF PassGuard, RefundTypeOK, OwnsPayment, OnlyLateCheckIns, CheckedIn, AllUnused
    <3> QED
      BY <3>1, <3>2, <3>3
  <2>4. ASSUME NEW r \in Calls, MarkRefunded(r)
        PROVE  RefundInv'
    <3>1. RefundTypeOK' /\ OwnsPayment'
      BY <2>4 DEF MarkRefunded, RefundTypeOK, OwnsPayment, NextRound
    <3>2. RefundedStays' /\ RefundedOnce'
      BY <2>4 DEF MarkRefunded, RefundTypeOK, OwnsPayment, RefundedStays, RefundedOnce, NextRound
    <3>3. OnlyLateCheckIns'
      BY <2>4 DEF MarkRefunded, RefundTypeOK, OwnsPayment, OnlyLateCheckIns, CheckedIn, NextRound
    <3> QED
      BY <3>1, <3>2, <3>3
  <2>5. ASSUME NEW r \in Calls, ReadTier(r)
        PROVE  RefundInv'
    <3>1. RefundTypeOK' /\ OwnsPayment'
      BY <2>5 DEF ReadTier, RefundTypeOK, OwnsPayment, SoldSeen
    <3>2. RefundedStays' /\ RefundedOnce'
      BY <2>5 DEF ReadTier, RefundTypeOK, OwnsPayment, RefundedStays, RefundedOnce, SoldSeen
    <3>3. OnlyLateCheckIns'
      BY <2>5 DEF ReadTier, RefundTypeOK, OwnsPayment, OnlyLateCheckIns, CheckedIn, SoldSeen
    <3> QED
      BY <3>1, <3>2, <3>3
  <2>6. ASSUME NEW r \in Calls, UpdateTier(r)
        PROVE  RefundInv'
    <3>1. RefundTypeOK' /\ OwnsPayment'
      BY <2>6 DEF UpdateTier, RefundTypeOK, OwnsPayment, NextRound, FewerSold, TierAt
    <3>2. RefundedStays' /\ RefundedOnce'
      BY <2>6 DEF UpdateTier, RefundTypeOK, OwnsPayment, RefundedStays, RefundedOnce, NextRound, FewerSold, TierAt
    <3>3. OnlyLateCheckIns'
      BY <2>6 DEF UpdateTier, RefundTypeOK, OwnsPayment, OnlyLateCheckIns, CheckedIn, NextRound, FewerSold, TierAt
    <3> QED
      BY <3>1, <3>2, <3>3
  <2>7. ASSUME NEW r \in Calls, CommitRefund(r)
        PROVE  RefundInv'
    <3>1. RefundTypeOK' /\ OwnsPayment'
      BY <2>7 DEF CommitRefund, RefundTypeOK, OwnsPayment, SoldSeen, Unlock
    <3>2. RefundedStays' /\ RefundedOnce'
      BY <2>7 DEF CommitRefund, RefundTypeOK, OwnsPayment, RefundedStays, RefundedOnce, SoldSeen, Unlock
    <3>3. OnlyLateCheckIns'
      BY <2>7 DEF CommitRefund, RefundTypeOK, OwnsPayment, OnlyLateCheckIns, CheckedIn, SoldSeen, Unlock
    <3> QED
      BY <3>1, <3>2, <3>3
  <2>8. ASSUME NEW r \in Calls,
               \/ RefuseStatus(r) \/ RefuseCheckedIn(r) \/ UpdateNegative(r)
               \/ LogFails(r) \/ RefundDies(r) \/ DeadlockVictim(r)
        PROVE  RefundInv'
    BY <2>8, RollbackKeeps
    DEF RefuseStatus, RefuseCheckedIn, UpdateNegative, LogFails, RefundDies,
        DeadlockVictim
  <2>9. CASE AdminSavesTicket
    <3>1. RefundTypeOK' /\ OwnsPayment'
      BY <2>9 DEF AdminSavesTicket, RefundTypeOK, OwnsPayment
    <3>2. RefundedStays' /\ RefundedOnce'
      BY <2>9 DEF AdminSavesTicket, RefundedStays, RefundedOnce
    <3>3. OnlyLateCheckIns'
      BY <2>9 DEF AdminSavesTicket, RefundTypeOK, OnlyLateCheckIns, CheckedIn
    <3> QED
      BY <3>1, <3>2, <3>3
  <2>10. CASE AdminSavesPayment
    <3>1. RefundTypeOK' /\ OwnsPayment'
      BY <2>10 DEF AdminSavesPayment, RefundTypeOK, OwnsPayment
    <3>2. RefundedStays' /\ RefundedOnce'
      BY <2>10 DEF AdminSavesPayment, RefundTypeOK, OwnsPayment, RefundedStays, RefundedOnce
    <3>3. OnlyLateCheckIns'
      BY <2>10 DEF AdminSavesPayment, OnlyLateCheckIns, CheckedIn
    <3> QED
      BY <3>1, <3>2, <3>3
  <2>11. CASE UNCHANGED refundVars
    BY <2>11
    DEF refundVars, RefundTypeOK, OwnsPayment, RefundedStays, RefundedOnce,
        OnlyLateCheckIns, CheckedIn
  <2> QED
    BY <2>1, <2>2, <2>3, <2>4, <2>5, <2>6, <2>7, <2>8, <2>9, <2>10, <2>11
    DEF RefundNext, RefundStep
<1> QED
  BY <1>1, <1>2, PTL DEF RefundSpec, RefundSafety

\* No two calls refund one payment, unless an administrator sets it back.
THEOREM RefundsOnce == RefundSpec => []RefundedOnce
<1>1. RefundInv => RefundedOnce
  BY DEF RefundInv
<1> QED
  BY <1>1, RefundAlways, PTL

\* Tickets that are checked in while their payment is refunded were saved after
\* the refund had counted them.
THEOREM CheckInsAreLate == RefundSpec => []OnlyLateCheckIns
<1>1. RefundInv => OnlyLateCheckIns
  BY DEF RefundInv
<1> QED
  BY <1>1, RefundAlways, PTL

\* The payment and its tickets change together: a refund commits all it wrote, and
\* no other step of a call changes them.
THEOREM RefundsAreWhole == RefundSpec => RefundIsWhole
<1> DEFINE Whole ==
      \A p \in Payments :
         (\E r \in Calls : about[r] = p /\ rpc'[r] # rpc[r]) =>
             /\ payment'[p] # payment[p] =>
                   \A k \in TicketsOf(p) : ticket'[k] = "cancelled"
             /\ (\E k \in TicketsOf(p) : ticket'[k] # ticket[k]) =>
                   payment'[p] = "refunded"
<1>1. RefundInv /\ [RefundNext]_refundVars => [Whole]_refundVars
  <2> SUFFICES ASSUME RefundInv, RefundNext
               PROVE  Whole
    OBVIOUS
  <2> USE DEF RefundInv, RefundTypeOK, RefundGoto, committed
  <2>1. ASSUME NEW r \in Calls, CommitRefund(r)
        PROVE  Whole
    BY <2>1, RefundsAssumption DEF CommitRefund, TicketsOf
  <2>2. ASSUME NEW r \in Calls,
               \/ RefundCall(r) \/ LockPayment(r) \/ PassGuard(r)
               \/ MarkRefunded(r) \/ ReadTier(r) \/ UpdateTier(r)
        PROVE  Whole
    BY <2>2 DEF RefundCall, LockPayment, PassGuard, MarkRefunded, ReadTier, UpdateTier
  <2>3. ASSUME NEW r \in Calls,
               \/ RefuseStatus(r) \/ RefuseCheckedIn(r) \/ UpdateNegative(r)
               \/ LogFails(r) \/ RefundDies(r) \/ DeadlockVictim(r)
        PROVE  Whole
    BY <2>3
    DEF RefuseStatus, RefuseCheckedIn, UpdateNegative, LogFails, RefundDies,
        DeadlockVictim, RollbackRefund
  <2>4. CASE AdminSavesTicket \/ AdminSavesPayment
    BY <2>4 DEF AdminSavesTicket, AdminSavesPayment
  <2> QED
    BY <2>1, <2>2, <2>3, <2>4 DEF RefundNext, RefundStep
<1> QED
  BY <1>1, RefundAlways, PTL DEF RefundSpec, RefundSafety, RefundIsWhole

-----------------------------------------------------------------------------
(***************************************************************************)
(* The counters.  Calls read and write a count with no lock between, so    *)
(* that what one returned another may take back; what is invariant is a    *)
(* bound from below of all that was read, written or committed.            *)
(***************************************************************************)

LEMMA SavedFinite ==
    \A r \in Calls, t \in Tiers :
        IsFiniteSet(SavedOn(r, t)) /\ Cardinality(SavedOn(r, t)) \in Nat
<1> SUFFICES ASSUME NEW r \in Calls, NEW t \in Tiers
             PROVE  IsFiniteSet(SavedOn(r, t)) /\ Cardinality(SavedOn(r, t)) \in Nat
  OBVIOUS
<1>1. SavedOn(r, t) \subseteq Tickets
  BY DEF SavedOn, SavedBy, TicketsOf
<1> QED
  BY <1>1, RefundsAssumption, FS_Subset, FS_CardinalityType

LEMMA BoundType ==
    ASSUME RefundTypeOK, SoldInv, NEW t \in Tiers
    PROVE  /\ LeastSold(t) \in Int
           /\ Cardinality(ReturnedOn(t)) \in Nat
           /\ sold[t] >= LeastSold(t)
<1>1. Cardinality(ReturnedOn(t)) \in Nat
  BY FS_CardinalityType DEF SoldInv
<1> QED
  BY <1>1 DEF RefundTypeOK, LeastSold, SoldInv, NoPlaceMadeUp

\* A step that ends no call as refunded returns nothing.
LEMMA ReturnedSame ==
    ASSUME \A q \in Calls : rpc'[q] = "refunded" <=> rpc[q] = "refunded",
           \A q \in Calls : rpc[q] = "refunded" => about'[q] = about[q],
           UNCHANGED first
    PROVE  \A t \in Tiers : ReturnedOn(t)' = ReturnedOn(t) /\ LeastSold(t)' = LeastSold(t)
<1>1. \A t \in Tiers : ReturnedOn(t)' = ReturnedOn(t)
  BY DEF ReturnedOn
<1> QED
  BY <1>1 DEF LeastSold

\* What a call that takes no step has read and written stays good as more is
\* returned.
LEMMA OthersCount ==
    ASSUME RefundTypeOK, NEW q \in Calls, CallCounts(q),
           rpc'[q] = rpc[q], about'[q] = about[q], todo'[q] = todo[q],
           at'[q] = at[q], read'[q] = read[q], mine'[q] = mine[q],
           \A t \in Tiers : tierLock'[t] = q => tierLock[t] = q,
           \A t \in Tiers : /\ LeastSold(t) \in Int /\ LeastSold(t)' \in Int
                            /\ LeastSold(t)' <= LeastSold(t)
    PROVE  CallCounts(q)'
<1>1. \A t \in Tiers : SavedOn(q, t)' = SavedOn(q, t)
  BY DEF SavedOn, SavedBy, TicketsOf
<1>2. \A t \in Tiers : Cardinality(SavedOn(q, t)) \in Nat
  BY SavedFinite
<1>3. rpc'[q] = "update" =>
          /\ at'[q] \in TicketsOf(about'[q]) \ todo'[q]
          /\ read'[q] >= LeastSold(TierAt(q))' - Cardinality(SavedOn(q, TierAt(q))')
  <2> SUFFICES ASSUME rpc[q] = "update"
               PROVE  read[q] >= LeastSold(TierAt(q))' - Cardinality(SavedOn(q, TierAt(q))')
    BY DEF CallCounts, TicketsOf
  <2>1. TierAt(q) \in Tiers /\ TierAt(q)' = TierAt(q)
    BY RefundsAssumption DEF CallCounts, TierAt, TicketsOf
  <2>2. LeastSold(TierAt(q))' <= LeastSold(TierAt(q)) /\ LeastSold(TierAt(q))' \in Int
    BY <2>1 DEF LeastSold, ReturnedOn
  <2> QED
    BY <1>1, <1>2, <2>1, <2>2 DEF CallCounts, RefundTypeOK
<1>4. ASSUME NEW t \in Tiers, tierLock'[t] = q
      PROVE  /\ rpc'[q] \in InLoop
             /\ mine'[q][t] >= LeastSold(t)' - Cardinality(SavedOn(q, t)')
  <2>1. rpc[q] \in InLoop /\ mine[q][t] >= LeastSold(t) - Cardinality(SavedOn(q, t))
    BY <1>4 DEF CallCounts
  <2>2. mine[q][t] \in Nat
    BY DEF RefundTypeOK
  <2> QED
    BY <1>1, <1>2, <2>1, <2>2
<1>5. /\ rpc'[q] \in InLoop => todo'[q] \subseteq TicketsOf(about'[q])
      /\ rpc'[q] = "log" => todo'[q] = {}
  BY DEF CallCounts
<1> QED
  BY <1>3, <1>4, <1>5 DEF CallCounts, TicketsOf

\* A step of r, or of nobody, that commits nothing: what is left to show is that
\* the counts of r itself are good.
LEMMA OneCounts ==
    ASSUME RefundTypeOK, SoldInv, NEW r \in Calls, UNCHANGED <<sold, first>>,
           rpc[r] # "refunded", rpc'[r] # "refunded",
           \A q \in Calls \ {r} :
              /\ rpc'[q] = rpc[q] /\ about'[q] = about[q] /\ todo'[q] = todo[q]
              /\ at'[q] = at[q] /\ read'[q] = read[q] /\ mine'[q] = mine[q],
           \A q \in Calls \ {r} : \A t \in Tiers : tierLock'[t] = q => tierLock[t] = q,
           (\A t \in Tiers : LeastSold(t)' = LeastSold(t)) => CallCounts(r)'
    PROVE  SoldInv'
<1>1. \A t \in Tiers : ReturnedOn(t)' = ReturnedOn(t) /\ LeastSold(t)' = LeastSold(t)
  BY ReturnedSame
<1>2. NoPlaceMadeUp' /\ \A t \in Tiers : IsFiniteSet(ReturnedOn(t))'
  BY <1>1 DEF SoldInv, NoPlaceMadeUp
<1>3. ASSUME NEW q \in Calls \ {r}
      PROVE  CallCounts(q)'
  <2>1. CallCounts(q)
    BY DEF SoldInv
  <2>2. \A t \in Tiers : /\ LeastSold(t) \in Int /\ LeastSold(t)' \in Int
                         /\ LeastSold(t)' <= LeastSold(t)
    BY <1>1, BoundType
  <2> QED
    BY <2>1, <2>2, OthersCount
<1> QED
  BY <1>1, <1>2, <1>3 DEF SoldInv

\* Outside of the loop a call holds no row of a tier, and has nothing to count.
LEMMA NoCounts ==
    ASSUME RefundInv, SoldInv, NEW r \in Calls,
           \/ RefundCall(r) \/ LockPayment(r) \/ PassGuard(r)
           \/ \E s \in {"start", "count"} \cup Past,
                 e \in {"not_succeeded", "post_checkin", "failed"} : RollbackRefund(r, s, e)
    PROVE  SoldInv'
<1> USE DEF RefundGoto, locks, loopVars, committed, Past
<1>0. RefundTypeOK
  BY DEF RefundInv
<1>1. /\ UNCHANGED <<sold, first>>
      /\ rpc[r] # "refunded" /\ rpc'[r] \notin {"refunded"} \cup InLoop
      /\ \A q \in Calls \ {r} :
            /\ rpc'[q] = rpc[q] /\ about'[q] = about[q] /\ todo'[q] = todo[q]
            /\ at'[q] = at[q] /\ read'[q] = read[q] /\ mine'[q] = mine[q]
  <2>1. CASE RefundCall(r)
    BY <1>0, <2>1 DEF RefundTypeOK, RefundCall, InLoop
  <2>2. CASE LockPayment(r)
    BY <1>0, <2>2 DEF RefundTypeOK, LockPayment, InLoop
  <2>3. CASE PassGuard(r)
    BY <1>0, <2>3 DEF RefundTypeOK, PassGuard, InLoop
  <2>4. ASSUME NEW s \in {"start", "count"} \cup Past,
               NEW e \in {"not_succeeded", "post_checkin", "failed"}, RollbackRefund(r, s, e)
        PROVE  <1>1!:
    BY <1>0, <2>4 DEF RefundTypeOK, RollbackRefund, Unlock, InLoop
  <2> QED
    BY <2>1, <2>2, <2>3, <2>4
<1>2. \A q \in Calls : \A t \in Tiers : tierLock'[t] = q => tierLock[t] = q
  <2>1. CASE RefundCall(r) \/ LockPayment(r) \/ PassGuard(r)
    BY <2>1 DEF RefundCall, LockPayment, PassGuard
  <2>2. ASSUME NEW s \in {"start", "count"} \cup Past,
               NEW e \in {"not_succeeded", "post_checkin", "failed"}, RollbackRefund(r, s, e)
        PROVE  <1>2!:
    <3>1. tierLock' = [t \in Tiers |-> IF tierLock[t] = r THEN Free ELSE tierLock[t]]
      BY <2>2 DEF RollbackRefund, Unlock
    <3> QED
      BY <3>1, RefundsAssumption
  <2> QED
    BY <2>1, <2>2
<1>3. \A t \in Tiers : tierLock'[t] # r
  <2>1. CASE RefundCall(r) \/ LockPayment(r) \/ PassGuard(r)
    <3>1. rpc[r] \notin InLoop
      BY <2>1 DEF RefundCall, LockPayment, PassGuard, InLoop
    <3> QED
      BY <1>2, <3>1 DEF SoldInv, CallCounts
  <2>2. CASE \E s \in {"start", "count"} \cup Past,
                e \in {"not_succeeded", "post_checkin", "failed"} : RollbackRefund(r, s, e)
    BY <2>2, RefundsAssumption DEF RollbackRefund, Unlock
  <2> QED
    BY <2>1, <2>2
<1>4. CallCounts(r)'
  BY <1>1, <1>3 DEF CallCounts, InLoop
<1> QED
  BY <1>0, <1>1, <1>2, <1>4, OneCounts

\* The loop starts with all tickets of the payment, or ends at once.
LEMMA MarkCounts ==
    ASSUME RefundInv, SoldInv, NEW r \in Calls, MarkRefunded(r)
    PROVE  SoldInv'
<1> USE DEF MarkRefunded, RefundGoto, locks, committed
<1>0. RefundTypeOK
  BY DEF RefundInv
<1>1. /\ UNCHANGED <<sold, first, tierLock>>
      /\ rpc[r] = "mark" /\ rpc'[r] = NextRound(TicketsOf(about[r]))
      /\ todo'[r] = TicketsOf(about[r]) /\ about'[r] = about[r]
      /\ \A q \in Calls \ {r} :
            /\ rpc'[q] = rpc[q] /\ about'[q] = about[q] /\ todo'[q] = todo[q]
            /\ at'[q] = at[q] /\ read'[q] = read[q] /\ mine'[q] = mine[q]
  BY <1>0 DEF RefundTypeOK
<1>2. \A t \in Tiers : tierLock[t] # r
  BY <1>1 DEF SoldInv, CallCounts, InLoop
<1>3. CallCounts(r)'
  BY <1>1, <1>2 DEF CallCounts, InLoop, NextRound, TicketsOf
<1> QED
  BY <1>0, <1>1, <1>3, OneCounts DEF NextRound

\* What is read is the call's own count, or the committed one.
LEMMA ReadCounts ==
    ASSUME RefundInv, SoldInv, NEW r \in Calls, ReadTier(r)
    PROVE  SoldInv'
<1>0. RefundTypeOK /\ CallCounts(r)
  BY DEF RefundInv, SoldInv
<1>1. PICK k \in todo[r] :
        /\ at' = [at EXCEPT ![r] = k]
        /\ todo' = [todo EXCEPT ![r] = @ \ {k}]
        /\ read' = [read EXCEPT ![r] = SoldSeen(r, TierOf[k])]
  BY DEF ReadTier
<1>2. /\ UNCHANGED <<sold, first, tierLock, mine, about>>
      /\ rpc[r] = "loop" /\ rpc'[r] = "update"
      /\ at'[r] = k /\ todo'[r] = todo[r] \ {k} /\ read'[r] = SoldSeen(r, TierOf[k])
      /\ \A q \in Calls \ {r} :
            /\ rpc'[q] = rpc[q] /\ about'[q] = about[q] /\ todo'[q] = todo[q]
            /\ at'[q] = at[q] /\ read'[q] = read[q] /\ mine'[q] = mine[q]
  BY <1>0, <1>1 DEF RefundTypeOK, ReadTier, RefundGoto, locks, committed
<1>3. /\ k \in TicketsOf(about[r]) /\ todo[r] \subseteq TicketsOf(about[r])
      /\ TierOf[k] \in Tiers
  BY <1>0, <1>2, RefundsAssumption DEF CallCounts, InLoop, TicketsOf
<1>4. \A t \in Tiers : SavedOn(r, t)' = SavedOn(r, t)
  <2>1. SavedBy(r)' = SavedBy(r)
    BY <1>2, <1>3 DEF SavedBy, TicketsOf
  <2> QED
    BY <2>1 DEF SavedOn
<1>5. ASSUME \A t \in Tiers : LeastSold(t)' = LeastSold(t)
      PROVE  CallCounts(r)'
  <2> DEFINE t == TierOf[k]
  <2>1. read'[r] >= LeastSold(t) - Cardinality(SavedOn(r, t))
    <3>1. Cardinality(SavedOn(r, t)) \in Nat /\ LeastSold(t) \in Int
          /\ sold[t] >= LeastSold(t) /\ sold[t] \in Nat /\ t \in Tiers
      BY <1>0, <1>3, SavedFinite, BoundType DEF RefundTypeOK
    <3>2. CASE tierLock[t] = r
      BY <1>0, <1>2, <1>3, <3>2 DEF SoldSeen, CallCounts
    <3>3. CASE tierLock[t] # r
      <4>1. read'[r] = sold[t]
        BY <1>2, <3>3 DEF SoldSeen
      <4> QED
        BY <3>1, <4>1
    <3> QED
      BY <3>2, <3>3
  <2>2. TierAt(r)' = t /\ t \in Tiers
    BY <1>2, <1>3 DEF TierAt
  <2>3. LeastSold(t)' = LeastSold(t) /\ SavedOn(r, t)' = SavedOn(r, t)
    BY <1>4, <1>5, <2>2
  <2>4. read'[r] >= LeastSold(TierAt(r))' - Cardinality(SavedOn(r, TierAt(r)))'
    BY <2>1, <2>2, <2>3 DEF LeastSold, ReturnedOn, SavedOn
  <2>5. \A u \in Tiers : tierLock'[u] = r =>
          /\ rpc'[r] \in InLoop
          /\ mine'[r][u] >= LeastSold(u)' - Cardinality(SavedOn(r, u)')
    BY <1>0, <1>2, <1>4, <1>5 DEF CallCounts, InLoop
  <2>6. at'[r] \in TicketsOf(about'[r]) \ todo'[r] /\ todo'[r] \subseteq TicketsOf(about'[r])
    BY <1>2, <1>3
  <2> QED
    BY <1>2, <2>4, <2>5, <2>6 DEF CallCounts, TicketsOf
<1> QED
  BY <1>0, <1>2, <1>5, OneCounts

\* One ticket more is dealt with, and the count is one less than what was read.
LEMMA UpdateCounts ==
    ASSUME RefundInv, SoldInv, NEW r \in Calls, UpdateTier(r)
    PROVE  SoldInv'
<1> DEFINE k == at[r]
           t == TierAt(r)
<1>0. RefundTypeOK /\ CallCounts(r)
  BY DEF RefundInv, SoldInv
<1>1. /\ UNCHANGED <<sold, first, about, todo, at, read>>
      /\ rpc[r] = "update" /\ rpc'[r] = NextRound(todo[r])
      /\ tierLock' = [tierLock EXCEPT ![t] = r]
      /\ mine' = [mine EXCEPT ![r][t] = read[r] - 1]
      /\ \A q \in Calls \ {r} :
            /\ rpc'[q] = rpc[q] /\ about'[q] = about[q] /\ todo'[q] = todo[q]
            /\ at'[q] = at[q] /\ read'[q] = read[q] /\ mine'[q] = mine[q]
  BY <1>0 DEF RefundTypeOK, UpdateTier, RefundGoto, committed, FewerSold
<1>2. /\ k \in TicketsOf(about[r]) \ todo[r] /\ t = TierOf[k] /\ t \in Tiers
      /\ read[r] >= LeastSold(t) - Cardinality(SavedOn(r, t))
      /\ todo[r] \subseteq TicketsOf(about[r])
  BY <1>0, <1>1, RefundsAssumption DEF CallCounts, TierAt, TicketsOf, InLoop
<1>3. /\ mine'[r][t] = read[r] - 1
      /\ \A u \in Tiers \ {t} : mine'[r][u] = mine[r][u] /\ tierLock'[u] = tierLock[u]
      /\ tierLock'[t] = r
  BY <1>0, <1>1, <1>2 DEF RefundTypeOK
<1>4. SavedBy(r)' = SavedBy(r) \cup {k} /\ k \notin SavedBy(r)
  BY <1>1, <1>2 DEF SavedBy, TicketsOf, NextRound
<1> HIDE DEF k, t
<1>5. /\ k \notin SavedOn(r, t)
      /\ \A u \in Tiers : SavedOn(r, u)' = IF u = t THEN SavedOn(r, u) \cup {k}
                                                    ELSE SavedOn(r, u)
  <2>1. \A u \in Tiers : /\ SavedOn(r, u)' = {j \in SavedBy(r)' : TierOf[j] = u}
                         /\ SavedOn(r, u) = {j \in SavedBy(r) : TierOf[j] = u}
    BY DEF SavedOn
  <2>2. k \notin SavedOn(r, t)
    BY <1>2, <1>4, <2>1
  <2>3. ASSUME NEW u \in Tiers
        PROVE  SavedOn(r, u)' = IF u = t THEN SavedOn(r, u) \cup {k} ELSE SavedOn(r, u)
    <3>1. SavedOn(r, u)' = {j \in SavedBy(r) \cup {k} : TierOf[j] = u}
      BY <1>4, <2>1
    <3>2. CASE u = t
      BY <1>2, <2>1, <3>1, <3>2
    <3>3. CASE u # t
      BY <1>2, <2>1, <3>1, <3>3
    <3> QED
      BY <3>2, <3>3
  <2> QED
    BY <2>2, <2>3
<1>6. Cardinality(SavedOn(r, t) \cup {k}) = Cardinality(SavedOn(r, t)) + 1
  BY <1>2, <1>5, SavedFinite, FS_AddElement
<1>7. ASSUME \A u \in Tiers : LeastSold(u)' = LeastSold(u)
      PROVE  CallCounts(r)'
  <2>1. ASSUME NEW u \in Tiers, tierLock'[u] = r
        PROVE  mine'[r][u] >= LeastSold(u)' - Cardinality(SavedOn(r, u)')
    <3>1. CASE u = t
      <4>1. Cardinality(SavedOn(r, t)) \in Nat /\ LeastSold(t) \in Int /\ read[r] \in Nat
        BY <1>0, <1>2, SavedFinite, BoundType DEF RefundTypeOK
      <4>2. Cardinality(SavedOn(r, u)') = Cardinality(SavedOn(r, t)) + 1
        <5>1. SavedOn(r, u)' = SavedOn(r, t) \cup {k}
          BY <1>5, <3>1
        <5> QED
          BY <1>6, <5>1
      <4>3. mine'[r][u] = read[r] - 1 /\ LeastSold(u)' = LeastSold(t)
        BY <1>3, <1>7, <2>1, <3>1
      <4> QED
        BY <1>2, <4>1, <4>2, <4>3
    <3>2. CASE u # t
      BY <1>0, <1>3, <1>5, <1>7, <2>1, <3>2 DEF CallCounts
    <3> QED
      BY <3>1, <3>2
  <2>2. /\ rpc'[r] \in {"loop", "log"}
        /\ rpc'[r] = "log" => todo'[r] = {}
        /\ todo'[r] \subseteq TicketsOf(about'[r])
    BY <1>1, <1>2 DEF NextRound
  <2> QED
    BY <2>1, <2>2 DEF CallCounts, InLoop, TicketsOf
<1>8. \A q \in Calls \ {r} : \A u \in Tiers : tierLock'[u] = q => tierLock[u] = q
  BY <1>2, <1>3
<1>9. rpc'[r] # "refunded"
  BY <1>1 DEF NextRound
<1> QED
  BY <1>0, <1>1, <1>7, <1>8, <1>9, OneCounts

\* The counts become the table's as the tickets of the refund become returned.
LEMMA CommitCounts ==
    ASSUME RefundInv, SoldInv, NEW r \in Calls, CommitRefund(r)
    PROVE  SoldInv'
<1>0. RefundTypeOK /\ CallCounts(r)
  BY DEF RefundInv, SoldInv
<1>1. /\ UNCHANGED <<first, about>>
      /\ rpc[r] = "log" /\ rpc' = [rpc EXCEPT ![r] = "refunded"]
      /\ sold' = [t \in Tiers |-> SoldSeen(r, t)]
      /\ \A t \in Tiers : tierLock'[t] # r
      /\ \A t \in Tiers : \A q \in Calls : tierLock'[t] = q => tierLock[t] = q
      /\ \A q \in Calls \ {r} :
            /\ rpc'[q] = rpc[q] /\ about'[q] = about[q] /\ todo'[q] = todo[q]
            /\ at'[q] = at[q] /\ read'[q] = read[q] /\ mine'[q] = mine[q]
  BY <1>0, RefundsAssumption DEF RefundTypeOK, CommitRefund, RefundGoto, Unlock
<1>2. ASSUME NEW t \in Tiers
      PROVE  /\ IsFiniteSet(ReturnedOn(t))'
             /\ LeastSold(t)' = LeastSold(t) - Cardinality(SavedOn(r, t))
  <2> DEFINE new == {r} \X SavedOn(r, t)
  <2>1. SavedOn(r, t) = {k \in Tickets : TierOf[k] = t /\ PaymentOf[k] = about[r]}
    BY <1>0, <1>1 DEF CallCounts, SavedOn, SavedBy, TicketsOf
  <2>2. ReturnedOn(t)' = ReturnedOn(t) \cup new
    <3>1. \A q \in Calls : /\ rpc'[q] = "refunded" <=> rpc[q] = "refunded" \/ q = r
                           /\ about'[q] = about[q]
      BY <1>0, <1>1 DEF RefundTypeOK
    <3>2. ASSUME NEW pair \in Calls \X {k \in Tickets : TierOf[k] = t}
          PROVE  pair \in ReturnedOn(t)' <=> pair \in ReturnedOn(t) \cup new
      BY <1>1, <2>1, <3>1 DEF ReturnedOn
    <3>3. /\ ReturnedOn(t) \subseteq Calls \X {k \in Tickets : TierOf[k] = t}
          /\ ReturnedOn(t)' \subseteq Calls \X {k \in Tickets : TierOf[k] = t}
          /\ new \subseteq Calls \X {k \in Tickets : TierOf[k] = t}
      BY <2>1 DEF ReturnedOn
    <3> QED
      BY <3>2, <3>3
  <2>3. ReturnedOn(t) \cap new = {}
    BY <1>1 DEF ReturnedOn
  <2>4. IsFiniteSet(new) /\ Cardinality(new) = Cardinality(SavedOn(r, t))
    <3>1. IsFiniteSet({r}) /\ Cardinality({r}) = 1
      BY FS_Singleton
    <3>2. IsFiniteSet(SavedOn(r, t)) /\ Cardinality(SavedOn(r, t)) \in Nat
      BY SavedFinite
    <3>3. IsFiniteSet(new) /\ Cardinality(new) = 1 * Cardinality(SavedOn(r, t))
      BY <3>1, <3>2, FS_Product
    <3> QED
      BY <3>2, <3>3
  <2> HIDE DEF new
  <2>5. IsFiniteSet(ReturnedOn(t)) /\ Cardinality(ReturnedOn(t)) \in Nat
    BY FS_CardinalityType DEF SoldInv
  <2>6. /\ IsFiniteSet(ReturnedOn(t) \cup new)
        /\ Cardinality(ReturnedOn(t) \cup new) =
              Cardinality(ReturnedOn(t)) + Cardinality(new)
    <3>1. Cardinality(ReturnedOn(t) \cap new) = 0
      BY <2>3, FS_EmptySet
    <3>2. /\ IsFiniteSet(ReturnedOn(t) \cup new)
          /\ Cardinality(ReturnedOn(t) \cup new) =
                Cardinality(ReturnedOn(t)) + Cardinality(new)
                   - Cardinality(ReturnedOn(t) \cap new)
      BY <2>4, <2>5, FS_Union
    <3>3. Cardinality(new) \in Nat
      BY <2>4, FS_CardinalityType
    <3> QED
      BY <2>5, <3>1, <3>2, <3>3
  <2>7. /\ LeastSold(t)' = first[t] - Cardinality(ReturnedOn(t)')
        /\ LeastSold(t) = first[t] - Cardinality(ReturnedOn(t))
    BY <1>1 DEF LeastSold
  <2>8. first[t] \in Nat /\ Cardinality(SavedOn(r, t)) \in Nat
    BY <1>0, SavedFinite DEF RefundTypeOK
  <2>9. IsFiniteSet(ReturnedOn(t))'
    BY <2>2, <2>6
  <2>10. Cardinality(ReturnedOn(t)') = Cardinality(ReturnedOn(t)) + Cardinality(SavedOn(r, t))
    BY <2>2, <2>4, <2>6
  <2> QED
    BY <2>5, <2>7, <2>8, <2>9, <2>10
<1>3. \A t \in Tiers : /\ LeastSold(t) \in Int /\ LeastSold(t)' \in Int
                       /\ LeastSold(t)' <= LeastSold(t)
                       /\ sold[t] >= LeastSold(t)
  BY <1>0, <1>2, SavedFinite, BoundType
<1>4. NoPlaceMadeUp'
  <2> SUFFICES ASSUME NEW t \in Tiers
               PROVE  sold'[t] >= LeastSold(t)'
    BY DEF NoPlaceMadeUp, LeastSold
  <2>1. CASE tierLock[t] = r
    <3>1. sold'[t] = mine[r][t]
      BY <1>1, <2>1 DEF SoldSeen
    <3>2. mine[r][t] >= LeastSold(t) - Cardinality(SavedOn(r, t))
      BY <1>0, <2>1 DEF CallCounts
    <3> QED
      BY <1>2, <3>1, <3>2
  <2>2. CASE tierLock[t] # r
    <3>1. sold'[t] = sold[t] /\ sold[t] \in Nat
      BY <1>0, <1>1, <2>2 DEF SoldSeen, RefundTypeOK
    <3> QED
      BY <1>3, <3>1
  <2> QED
    BY <2>1, <2>2
<1>5. CallCounts(r)'
  <2>1. rpc'[r] = "refunded"
    BY <1>0, <1>1 DEF RefundTypeOK
  <2> QED
    BY <1>1, <2>1 DEF CallCounts, InLoop
<1>6. ASSUME NEW q \in Calls \ {r}
      PROVE  CallCounts(q)'
  <2>1. CallCounts(q)
    BY DEF SoldInv
  <2> QED
    BY <1>0, <1>1, <1>3, <2>1, OthersCount
<1> QED
  BY <1>2, <1>4, <1>5, <1>6 DEF SoldInv

\* Payments and the statuses of tickets are not counted.
LEMMA NothingCounted ==
    ASSUME SoldInv, UNCHANGED <<sold, first, tierLock, rpc, about, todo, at, read, mine>>
    PROVE  SoldInv'
<1>1. \A t \in Tiers : ReturnedOn(t)' = ReturnedOn(t) /\ LeastSold(t)' = LeastSold(t)
  BY ReturnedSame
<1>2. NoPlaceMadeUp' /\ \A t \in Tiers : IsFiniteSet(ReturnedOn(t))'
  BY <1>1 DEF SoldInv, NoPlaceMadeUp
<1>3. ASSUME NEW q \in Calls
      PROVE  CallCounts(q)'
  BY DEF SoldInv, CallCounts, LeastSold, ReturnedOn, SavedOn, SavedBy, TierAt, TicketsOf
<1> QED
  BY <1>2, <1>3 DEF SoldInv

LEMMA SoldAlways == RefundSpec => []SoldInv
<1>1. RefundInit => SoldInv
  <2> SUFFICES ASSUME RefundInit
               PROVE  SoldInv
    OBVIOUS
  <2>1. \A t \in Tiers : ReturnedOn(t) = {}
    BY DEF RefundInit, ReturnedOn
  <2>2. \A t \in Tiers : first[t] \in Nat /\ first[t] = sold[t]
    BY FirstInv DEF RefundInv, RefundTypeOK, RefundInit
  <2>3. NoPlaceMadeUp /\ \A t \in Tiers : IsFiniteSet(ReturnedOn(t))
    BY <2>1, <2>2, FS_EmptySet DEF NoPlaceMadeUp
  <2>4. \A r \in Calls : CallCounts(r)
    BY RefundsAssumption DEF RefundInit, CallCounts, InLoop
  <2> QED
    BY <2>3, <2>4 DEF SoldInv
<1>2. RefundInv /\ SoldInv /\ [RefundNext]_refundVars => SoldInv'
  <2> SUFFICES ASSUME RefundInv, SoldInv, [RefundNext]_refundVars
               PROVE  SoldInv'
    OBVIOUS
  <2>1. ASSUME NEW r \in Calls,
               \/ RefuseStatus(r) \/ RefuseCheckedIn(r) \/ UpdateNegative(r)
               \/ LogFails(r) \/ RefundDies(r) \/ DeadlockVictim(r)
        PROVE  SoldInv'
    BY <2>1, NoCounts
    DEF RefuseStatus, RefuseCheckedIn, UpdateNegative, LogFails, RefundDies,
        DeadlockVictim, Past
  <2>2. CASE AdminSavesTicket \/ AdminSavesPayment \/ UNCHANGED refundVars
    BY <2>2, NothingCounted
    DEF AdminSavesTicket, AdminSavesPayment, refundVars, committed, locks, loopVars
  <2> QED
    BY <2>1, <2>2, NoCounts, MarkCounts, ReadCounts, UpdateCounts, CommitCounts
    DEF RefundNext, RefundStep
<1> QED
  BY <1>1, <1>2, RefundAlways, PTL DEF RefundSpec, RefundSafety

\* NoPlaceMadeUp: however the reads and writes of refunds overlap, no tier gets
\* back more places than the tickets that were cancelled on it.
THEOREM PlacesAreNotMadeUp == RefundSpec => []NoPlaceMadeUp
<1>1. SoldInv => NoPlaceMadeUp
  BY DEF SoldInv
<1> QED
  BY <1>1, SoldAlways, PTL
=============================================================================
