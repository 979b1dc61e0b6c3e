--------------------------- MODULE Checkout_proofs ---------------------------
(***************************************************************************)
(* The safety of a hold's life, for any number of concurrent calls,        *)
(* releases and sweeps, whatever fails:                                    *)
(*   - LifeInv is inductive, and with it the properties it contains;       *)
(*   - AdmittedBound still is, releases and sweeps only lower its counts.  *)
(***************************************************************************)
EXTENDS Checkout, CreateHold_proofs

\* What a program counter says, expanded once.
USE DEF Locked, Admitted, Inserted, Ended, RelRunning, SweepRunning

\* Nothing has been called.
LEMMA InitLife == CheckoutInit => LifeInv
<1> SUFFICES ASSUME CheckoutInit PROVE LifeInv
  OBVIOUS
<1> USE DEF CheckoutInit, Init
<1>1. LifeTypes
  BY DEF LifeTypes
<1>2. Owners
  BY DEF Owners
<1>3. Pushed /\ ReleaseOwns /\ SweepOwns
  BY DEF Pushed, ReleaseOwns, SweepOwns
<1>4. ReleasedOnce /\ SweptOnce
  BY DEF ReleasedOnce, SweptOnce
<1>5. ActiveIsTracked /\ NoGhostEntry /\ EntryOfActive
  BY DEF ActiveIsTracked, NoGhostEntry, EntryOfActive, IsActive
<1> QED
  BY <1>1, <1>2, <1>3, <1>4, <1>5 DEF LifeInv

-----------------------------------------------------------------------------
(***************************************************************************)
(* create_hold.  A step of a call concerns its own token, which nobody     *)
(* else knows before the call has ended.                                   *)
(***************************************************************************)

\* The rows of the others are as they were; its own appears when it commits.
OwnRowOnly(h) ==
    /\ pc[h] \notin Ended
    /\ hold[h] = NoRow
    /\ \A g \in Tokens \ {h} : pc'[g] = pc[g] /\ args'[g] = args[g] /\ hold'[g] = hold[g]
    /\ hold'[h] # NoRow =>
          pc[h] = "invalidated" /\ pc'[h] = "done" /\ IsActive(hold', h)

\* It adds its own token to Redis, and removes none.
OwnTokenOnly(h) ==
    /\ registry \subseteq registry' /\ registry' \subseteq registry \cup {h}
    /\ zset \subseteq zset' /\ zset' \subseteq zset \cup {h}
    /\ pc'[h] \in {"registered", "pushed", "invalidated"} => h \in registry'
    /\ pc'[h] \in {"pushed", "invalidated"} => h \in zset'

\* A step that ends a transaction frees its tier and no other.
LEMMA EndOwners ==
    ASSUME LifeTypes, Owners, NEW h \in Tokens, NEW from \in Locked, NEW to \in Ended,
           End(h, from, to),
           hold' \in [Tokens -> Holds \cup {NoRow}],
           \A g \in Tokens \ {h} : hold'[g] = hold[g],
           to # "done" => hold'[h] = NoRow
    PROVE  Owners' /\ lock' \in [Tiers -> Tokens \cup Releases \cup {Free}]
<1> USE DEF LifeTypes, Owners, End, Goto
<1>1. args[h] \in Args /\ args[h].tier \in Tiers /\ lock[args[h].tier] = h
  BY DEF Args
<1>2. \A g \in Tokens \ {h} : pc[g] \in Locked =>
         args[g].tier \in Tiers /\ args[g].tier # args[h].tier
  BY <1>1 DEF Args
<1>3. \A g \in Tokens \ {h} : pc'[g] = pc[g] /\ args'[g] = args[g]
  OBVIOUS
<1>4. pc'[h] = to /\ pc' \in [Tokens -> {"idle", "start"} \cup Locked \cup Ended]
  OBVIOUS
<1>5. \A g \in Tokens \ {h} : pc[g] \in Locked => lock'[args[g].tier] = g
  BY <1>1, <1>2
<1> QED
  BY <1>1, <1>3, <1>4, <1>5

\* Every step of a call respects the discipline and stays with its own token.
LEMMA CreateEffect ==
    ASSUME LifeInv, NEW h \in Tokens,
           CreateCall(h) \/ Step(h) \/ AbortWaiting(h) \/ AbortLocked(h)
    PROVE  /\ Owners'
           /\ lock' \in [Tiers -> Tokens \cup Releases \cup {Free}]
           /\ OwnRowOnly(h)
           /\ OwnTokenOnly(h)
<1> USE DEF LifeInv
<1>1. ASSUME CreateCall(h) \/ AbortWaiting(h)
      PROVE  /\ Owners' /\ lock' = lock /\ OwnRowOnly(h) /\ OwnTokenOnly(h)
  BY <1>1 DEF CreateCall, AbortWaiting, Goto, rowVars, redisVars, Owners, OwnRowOnly, OwnTokenOnly
<1>2. ASSUME LockTier(h)
      PROVE  /\ Owners' /\ lock' \in [Tiers -> Tokens \cup Releases \cup {Free}]
             /\ OwnRowOnly(h) /\ OwnTokenOnly(h)
  <2>1. args[h].tier \in Tiers
    BY <1>2 DEF LockTier, Goto, Owners, Args
  <2>2. \A g \in Tokens : pc[g] \in Locked => args[g].tier # args[h].tier
    BY <1>2, CreateAssumption DEF LockTier, Owners
  <2> QED
    BY <1>2, <2>1, <2>2
    DEF LockTier, Goto, rowVars, redisVars, Owners, LifeTypes, OwnRowOnly, OwnTokenOnly
<1>3. ASSUME CountHolds(h) \/ Reserve(h) \/ RegisterHold(h) \/ PushExpiry(h) \/ Invalidate(h)
      PROVE  /\ Owners' /\ lock' = lock
  BY <1>3 DEF CountHolds, Reserve, RegisterHold, PushExpiry, Invalidate, Goto, rowVars, Owners
<1>4. ASSUME CountHolds(h) \/ Reserve(h) \/ RegisterHold(h) \/ PushExpiry(h) \/ Invalidate(h)
      PROVE  OwnRowOnly(h) /\ OwnTokenOnly(h)
  BY <1>4 DEF CountHolds, Reserve, RegisterHold, PushExpiry, Invalidate, Goto, rowVars, redisVars,
              Owners, Pushed, OwnRowOnly, OwnTokenOnly
<1>5. ASSUME RefuseAbuse(h) \/ RefuseSoldOut(h) \/ RefuseNegative(h) \/ AbortLocked(h)
      PROVE  /\ Owners' /\ lock' \in [Tiers -> Tokens \cup Releases \cup {Free}]
             /\ OwnRowOnly(h) /\ OwnTokenOnly(h)
  <2>1. PICK from \in Locked, to \in Ended \ {"done"} : Rollback(h, from, to)
    BY <1>5 DEF RefuseAbuse, RefuseSoldOut, RefuseNegative, AbortLocked
  <2>2. OwnRowOnly(h) /\ OwnTokenOnly(h) /\ hold' = hold /\ hold[h] = NoRow
    BY <2>1 DEF Rollback, End, Goto, rowVars, redisVars, Owners, OwnRowOnly, OwnTokenOnly
  <2>3. /\ End(h, from, to)
        /\ hold' \in [Tokens -> Holds \cup {NoRow}]
        /\ \A g \in Tokens \ {h} : hold'[g] = hold[g]
        /\ hold'[h] = NoRow
    BY <2>1, <2>2 DEF Rollback, Owners
  <2> QED
    BY <2>1, <2>2, <2>3, EndOwners
<1>6. ASSUME Commit(h)
      PROVE  /\ Owners' /\ lock' \in [Tiers -> Tokens \cup Releases \cup {Free}]
             /\ OwnRowOnly(h) /\ OwnTokenOnly(h)
  <2>1. args[h] \in Args /\ args[h].quantity \in Nat /\ pc[h] = "invalidated"
    BY <1>6, CreateAssumption DEF Commit, End, Goto, Owners, Args
  <2>2. hold' \in [Tokens -> Holds \cup {NoRow}]
    BY <1>6, <2>1 DEF Commit, Owners, Holds, Status, Args
  <2>3. \A g \in Tokens \ {h} : hold'[g] = hold[g]
    BY <1>6 DEF Commit, Owners
  <2>4. OwnRowOnly(h) /\ OwnTokenOnly(h)
    BY <1>6, <2>1, <2>3
    DEF Commit, End, Goto, redisVars, Owners, Pushed, OwnRowOnly, OwnTokenOnly, IsActive
  <2> QED
    BY <1>6, <2>2, <2>3, <2>4, EndOwners DEF Commit
<1> QED
  BY <1>1, <1>2, <1>3, <1>4, <1>5, <1>6 DEF Step, LifeTypes

\* A call of create_hold disturbs no release and no sweep.
LEMMA CreateKeepsLife ==
    ASSUME LifeInv, NEW h \in Tokens, CreateWork(h) \/ CreateFails(h)
    PROVE  LifeInv'
<1>1. /\ Owners'
      /\ lock' \in [Tiers -> Tokens \cup Releases \cup {Free}]
      /\ OwnRowOnly(h)
      /\ OwnTokenOnly(h)
      /\ UNCHANGED <<due, holdLock, rpc, rtok, spc, taken, todo, cur>>
  BY CreateEffect DEF CreateWork, CreateFails, relVars, sweepVars
<1> USE <1>1 DEF LifeInv, OwnRowOnly, OwnTokenOnly
<1>2. LifeTypes'
  BY DEF LifeTypes
<1>3. Pushed'
  BY DEF Pushed, Owners
<1>4. ASSUME NEW g \in Tokens, hold[g] # NoRow
      PROVE  /\ hold'[g] = hold[g] /\ g # h
             /\ (g \in registry') = (g \in registry)
             /\ (g \in zset') = (g \in zset)
  BY <1>4
<1>5. ReleaseOwns'
  BY <1>4 DEF ReleaseOwns, IsActive, LifeTypes
<1>6. SweepOwns'
  BY DEF SweepOwns, IsActive, LifeTypes
<1>7. ReleasedOnce'
  BY DEF ReleasedOnce
<1>8. SweptOnce'
  BY DEF SweptOnce, SweepOwns
<1>9. ActiveIsTracked'
  BY DEF ActiveIsTracked, IsActive, Pushed
<1>10. NoGhostEntry'
  BY <1>4 DEF NoGhostEntry, IsActive, LifeTypes
<1>11. EntryOfActive'
  BY DEF EntryOfActive, IsActive, Pushed
<1> QED
  BY <1>2, <1>3, <1>5, <1>6, <1>7, <1>8, <1>9, <1>10, <1>11

-----------------------------------------------------------------------------
(***************************************************************************)
(* Time.                                                                   *)
(***************************************************************************)

\* Expiry times pass, and registry keys expire, for calls that have ended and
\* holds that are due.
LEMMA TimeKeepsLife ==
    ASSUME LifeInv, NEW h \in Tokens, MakeDue(h) \/ RegistryExpire(h)
    PROVE  LifeInv'
<1> USE DEF LifeInv, createVars, rowVars, callVars, relVars, sweepVars
<1>1. CASE MakeDue(h)
  <2>1. LifeTypes' /\ Owners'
    BY <1>1 DEF MakeDue, LifeTypes, Owners
  <2>2. Pushed'
    BY <1>1 DEF MakeDue, Pushed, LifeTypes
  <2>3. ReleaseOwns' /\ SweepOwns'
    BY <1>1 DEF MakeDue, LifeTypes, ReleaseOwns, SweepOwns, IsActive
  <2>4. ReleasedOnce' /\ SweptOnce' /\ ActiveIsTracked'
    BY <1>1 DEF MakeDue, ReleasedOnce, SweptOnce, ActiveIsTracked, IsActive
  <2>5. NoGhostEntry' /\ EntryOfActive'
    BY <1>1 DEF MakeDue, NoGhostEntry, EntryOfActive, IsActive
  <2> QED
    BY <2>1, <2>2, <2>3, <2>4, <2>5
<1>2. CASE RegistryExpire(h)
  <2>0. LifeTypes' /\ Owners'
    BY <1>2 DEF RegistryExpire, LifeTypes, Owners
  <2>1. ReleaseOwns' /\ SweepOwns'
    BY <1>2 DEF RegistryExpire, LifeTypes, ReleaseOwns, SweepOwns, IsActive
  <2>2. Pushed'
    BY <1>2 DEF RegistryExpire, Pushed
  <2>3. ReleasedOnce' /\ SweptOnce' /\ ActiveIsTracked'
    BY <1>2 DEF RegistryExpire, ReleasedOnce, SweptOnce, ActiveIsTracked, IsActive
  <2>4. NoGhostEntry' /\ EntryOfActive'
    BY <1>2 DEF RegistryExpire, NoGhostEntry, EntryOfActive, IsActive
  <2> QED
    BY <2>0, <2>1, <2>2, <2>3, <2>4
<1> QED
  BY <1>1, <1>2

-----------------------------------------------------------------------------
(***************************************************************************)
(* release_hold_by_token.                                                  *)
(***************************************************************************)

\* The steps up to the tier row: they choose a token, take the lock of an
\* active row, and read.
LEMMA ReleaseBegins ==
    ASSUME LifeInv, NEW r \in Releases,
           \/ ReleaseCall(r) \/ TimeoutTask(r) \/ RelLockHold(r)
           \/ RelNoActiveHold(r) \/ RelReadTier(r)
    PROVE  LifeInv'
<1> USE DEF LifeInv, RelGoto, createVars, rowVars, callVars, redisVars, sweepVars
<1>1. UNCHANGED <<tier, hold, lock, pc, args, registry, zset, due, spc, taken, todo, cur>>
  BY DEF ReleaseCall, TimeoutTask, RelLockHold, RelNoActiveHold, RelReadTier
<1>2. LifeTypes'
  BY DEF ReleaseCall, TimeoutTask, RelLockHold, RelNoActiveHold, RelReadTier, LifeTypes, ReleaseOwns
<1>3. Owners' /\ Pushed' /\ SweepOwns'
  BY <1>1 DEF Owners, Pushed, SweepOwns, IsActive
<1>4. ReleaseOwns'
  <2>1. CASE ReleaseCall(r) \/ TimeoutTask(r)
    BY <1>1, <2>1 DEF ReleaseCall, TimeoutTask, LifeTypes, ReleaseOwns, IsActive
  <2>2. CASE RelLockHold(r)
    BY <1>1, <2>2, CheckoutAssumption DEF RelLockHold, LifeTypes, ReleaseOwns, IsActive
  <2>3. CASE RelNoActiveHold(r) \/ RelReadTier(r)
    BY <1>1, <2>3 DEF RelNoActiveHold, RelReadTier, LifeTypes, ReleaseOwns, IsActive
  <2> QED
    BY <2>1, <2>2, <2>3
<1>5. /\ \A q \in Releases : q # r => rpc'[q] = rpc[q] /\ rtok'[q] = rtok[q]
      /\ rpc'[r] \in {"start", "nothing", "locked", "read"}
      /\ rpc[r] \in {"idle", "start", "locked"}
  BY DEF ReleaseCall, TimeoutTask, RelLockHold, RelNoActiveHold, RelReadTier, LifeTypes
<1>6. ReleasedOnce'
  BY <1>5 DEF ReleasedOnce
<1>7. SweptOnce' /\ ActiveIsTracked' /\ NoGhostEntry'
  BY <1>1 DEF SweptOnce, ActiveIsTracked, NoGhostEntry, IsActive
<1>8. EntryOfActive'
  BY <1>1, <1>5 DEF EntryOfActive, IsActive
<1> QED
  BY <1>2, <1>3, <1>4, <1>6, <1>7, <1>8

\* The UPDATE of the tier and the two Redis calls: the entry disappears from
\* the registry while the release still owns an active row.
LEMMA ReleaseWrites ==
    ASSUME LifeInv, NEW r \in Releases,
           RelWriteTier(r) \/ RelForget(r) \/ RelInvalidate(r)
    PROVE  LifeInv'
<1> USE DEF LifeInv, RelGoto, createVars, rowVars, callVars, redisVars, sweepVars
<1>1. /\ UNCHANGED <<hold, pc, args, zset, due, holdLock, rtok, spc, taken, todo, cur>>
      /\ registry' \subseteq registry
      /\ registry \ {rtok[r]} \subseteq registry'
      /\ rpc[r] \in {"written", "forgotten"} \/ registry' = registry
  BY DEF RelWriteTier, RelForget, RelInvalidate
<1>2. rtok[r] \in Tokens /\ IsActive(hold, rtok[r]) /\ pc[rtok[r]] = "done"
  BY DEF RelWriteTier, RelForget, RelInvalidate, ReleaseOwns, Owners, IsActive
<1>3. LifeTypes'
  BY DEF RelWriteTier, RelForget, RelInvalidate, LifeTypes
<1>4. Owners'
  <2>1. CASE RelWriteTier(r)
    <3>1. \A t \in Tiers : lock[t] \in Tokens => lock'[t] = lock[t]
      BY <2>1, CreateAssumption DEF RelWriteTier, LifeTypes
    <3> QED
      BY <1>1, <3>1 DEF Owners, Args
  <2>2. CASE RelForget(r) \/ RelInvalidate(r)
    BY <2>2 DEF RelForget, RelInvalidate, Owners
  <2> QED
    BY <2>1, <2>2
<1>5. Pushed' /\ SweepOwns'
  BY <1>1, <1>2 DEF Pushed, SweepOwns, IsActive
<1>6. ReleaseOwns'
  BY <1>1 DEF RelWriteTier, RelForget, RelInvalidate, ReleaseOwns, LifeTypes, IsActive
<1>7. /\ \A q \in Releases : q # r => rpc'[q] = rpc[q]
      /\ rpc'[r] \in {"written", "forgotten", "invalidated"}
      /\ rpc'[r] = "written" => registry' = registry /\ rpc[r] = "read"
  BY DEF RelWriteTier, RelForget, RelInvalidate, LifeTypes
<1>8. ReleasedOnce' /\ SweptOnce' /\ ActiveIsTracked'
  BY <1>1, <1>7 DEF ReleasedOnce, SweptOnce, ActiveIsTracked, IsActive
<1>9. NoGhostEntry'
  BY <1>1 DEF NoGhostEntry, IsActive
<1>10. EntryOfActive'
  BY <1>1, <1>7 DEF EntryOfActive, IsActive
<1> QED
  BY <1>3, <1>4, <1>5, <1>6, <1>8, <1>9, <1>10

\* Both ends of the transaction give back the locks, those of others stay.
LEMMA ReleaseUnlocks ==
    ASSUME LifeInv, NEW r \in Releases, NEW from, NEW to, RelEnd(r, from, to),
           from \in RelRunning
    PROVE  /\ lock' \in [Tiers -> Tokens \cup Releases \cup {Free}]
           /\ holdLock' \in [Tokens -> Releases \cup {Free}]
           /\ \A t \in Tiers : lock[t] \in Tokens => lock'[t] = lock[t]
           /\ \A q \in Releases \ {r} :
                 rpc[q] \in RelRunning => rtok[q] # rtok[r] /\ holdLock'[rtok[q]] = q
<1> USE DEF LifeInv, LifeTypes, RelEnd, RelGoto
<1>1. lock' \in [Tiers -> Tokens \cup Releases \cup {Free}]
  OBVIOUS
<1>2. \A t \in Tiers : lock[t] \in Tokens => lock'[t] = lock[t]
  BY CheckoutAssumption
<1>3. holdLock' \in [Tokens -> Releases \cup {Free}]
  OBVIOUS
<1>4. holdLock[rtok[r]] = r
  BY DEF ReleaseOwns
<1>5. ASSUME NEW q \in Releases \ {r}, rpc[q] \in RelRunning
      PROVE  rtok[q] # rtok[r] /\ holdLock'[rtok[q]] = q
  <2>1. holdLock[rtok[q]] = q /\ rtok[q] \in Tokens
    BY <1>5 DEF ReleaseOwns
  <2> QED
    BY <1>4, <2>1
<1> QED
  BY <1>1, <1>2, <1>3, <1>5

\* A rollback, which leaves the row active and the registry as it is by now.
LEMMA ReleaseFails ==
    ASSUME LifeInv, NEW r \in Releases, RelRefused(r) \/ RelAbort(r)
    PROVE  LifeInv'
<1> USE DEF LifeInv
<1>1. PICK from \in RelRunning : RelEnd(r, from, "failed")
  BY DEF RelRefused, RelAbort
<1>2. UNCHANGED <<hold, pc, args, registry, zset, due, rtok, spc, taken, todo, cur>>
  BY <1>1 DEF RelRefused, RelAbort, RelEnd, rowVars, callVars, redisVars, sweepVars
<1>3. /\ rpc' = [rpc EXCEPT ![r] = "failed"]
      /\ rpc[r] \in RelRunning
  BY <1>1 DEF RelEnd, RelGoto
<1>4. /\ lock' \in [Tiers -> Tokens \cup Releases \cup {Free}]
      /\ holdLock' \in [Tokens -> Releases \cup {Free}]
      /\ \A t \in Tiers : lock[t] \in Tokens => lock'[t] = lock[t]
      /\ \A q \in Releases \ {r} :
            rpc[q] \in RelRunning => holdLock'[rtok[q]] = q
  BY <1>1, ReleaseUnlocks
<1>5. LifeTypes'
  BY <1>2, <1>3, <1>4 DEF LifeTypes
<1>6. Owners' /\ Pushed' /\ SweepOwns'
  <2>1. Owners'
    BY <1>2, <1>4 DEF Owners, Args
  <2>2. Pushed' /\ SweepOwns'
    BY <1>2 DEF Pushed, SweepOwns, IsActive
  <2> QED
    BY <2>1, <2>2
<1>7. ReleaseOwns'
  BY <1>2, <1>3, <1>4 DEF ReleaseOwns, LifeTypes, IsActive
<1>8. ReleasedOnce' /\ SweptOnce' /\ ActiveIsTracked' /\ NoGhostEntry'
  BY <1>2, <1>3 DEF ReleasedOnce, SweptOnce, ActiveIsTracked, NoGhostEntry, IsActive, LifeTypes
<1>9. EntryOfActive'
  BY <1>2, <1>3 DEF EntryOfActive, IsActive, LifeTypes
<1> QED
  BY <1>5, <1>6, <1>7, <1>8, <1>9

\* The commit returns an active hold, whose entry is gone, and no other
\* release has returned it or can: it is not active for them.
LEMMA ReleaseCommits ==
    ASSUME LifeInv, NEW r \in Releases, RelCommit(r)
    PROVE  LifeInv'
<1> DEFINE k == rtok[r]
<1> USE DEF LifeInv
<1>1. /\ RelEnd(r, "invalidated", "released")
      /\ UNCHANGED <<pc, args, registry, zset, due, rtok, spc, taken, todo, cur>>
  BY DEF RelCommit, RelEnd, callVars, redisVars, sweepVars
<1>2. /\ rpc' = [rpc EXCEPT ![r] = "released"]
      /\ rpc[r] = "invalidated"
  BY <1>1 DEF RelEnd, RelGoto
<1>3. /\ lock' \in [Tiers -> Tokens \cup Releases \cup {Free}]
      /\ holdLock' \in [Tokens -> Releases \cup {Free}]
      /\ \A t \in Tiers : lock[t] \in Tokens => lock'[t] = lock[t]
      /\ \A q \in Releases \ {r} :
            rpc[q] \in RelRunning => rtok[q] # k /\ holdLock'[rtok[q]] = q
  BY <1>1, ReleaseUnlocks
<1>4. k \in Tokens /\ IsActive(hold, k) /\ k \notin registry /\ pc[k] = "done"
  BY <1>2 DEF ReleaseOwns, Owners, IsActive
<1>5. hold[k] \in Holds /\ hold[k] # NoRow
  BY <1>4 DEF Owners, IsActive
<1>6. /\ hold' = [hold EXCEPT ![k].status = "released"]
      /\ hold'[k] = [hold[k] EXCEPT !.status = "released"]
      /\ \A g \in Tokens \ {k} : hold'[g] = hold[g]
  BY <1>4 DEF RelCommit, Owners
<1>7. hold'[k] \in Holds /\ hold'[k] # NoRow /\ ~IsActive(hold', k)
      /\ hold'[k].status = "released"
  BY <1>5, <1>6, NoRowAssumption DEF Holds, Status, IsActive
<1>8. LifeTypes'
  BY <1>1, <1>2, <1>3 DEF LifeTypes
<1>9. Owners'
  <2>1. hold' \in [Tokens -> Holds \cup {NoRow}]
    BY <1>4, <1>6, <1>7 DEF Owners
  <2>2. \A g \in Tokens : pc[g] \in Locked => lock'[args[g].tier] = g
    BY <1>3 DEF Owners, Args
  <2> QED
    BY <1>1, <1>4, <1>6, <2>1, <2>2 DEF Owners
<1>10. Pushed'
  BY <1>1 DEF Pushed
<1>11. \A g \in Tokens : /\ hold[g] # NoRow => hold'[g] # NoRow
                         /\ IsActive(hold', g) <=> IsActive(hold, g) /\ g # k
  BY <1>6, <1>7 DEF IsActive
<1>12. ReleaseOwns'
  BY <1>1, <1>2, <1>3, <1>11 DEF ReleaseOwns, LifeTypes
<1>13. SweepOwns'
  <2>1. \A g \in Tokens : hold[g] # NoRow /\ hold[g].status # "expired"
                              => hold'[g] # NoRow /\ hold'[g].status # "expired"
    BY <1>6, <1>7
  <2> QED
    BY <1>1, <1>11, <2>1 DEF SweepOwns, LifeTypes
<1>14. ReleasedOnce'
  BY <1>1, <1>2, <1>4 DEF ReleasedOnce, ReleaseOwns, LifeTypes
<1>15. SweptOnce' /\ ActiveIsTracked'
  BY <1>1, <1>11 DEF SweptOnce, ActiveIsTracked
<1>16. NoGhostEntry'
  BY <1>1, <1>4, <1>6 DEF NoGhostEntry, IsActive, LifeTypes
<1>17. EntryOfActive'
  BY <1>1, <1>2, <1>11 DEF EntryOfActive, LifeTypes, ReleaseOwns
<1> QED
  BY <1>8, <1>9, <1>10, <1>12, <1>13, <1>14, <1>15, <1>16, <1>17

-----------------------------------------------------------------------------
(***************************************************************************)
(* sweep_expired_holds.                                                    *)
(***************************************************************************)

\* What was popped left the sorted set in the same step.
LEMMA PopKeepsLife ==
    ASSUME LifeInv, NEW s \in Sweeps, SweepPop(s)
    PROVE  LifeInv'
<1> USE DEF LifeInv
<1>1. /\ UNCHANGED <<hold, lock, pc, args, registry, due, holdLock, rpc, rtok, todo, cur>>
      /\ spc[s] = "idle" /\ taken[s] = {} /\ todo[s] = {}
      /\ spc' = [spc EXCEPT ![s] = IF Expired = {} THEN "done" ELSE "popped"]
      /\ taken' = [taken EXCEPT ![s] = Expired]
      /\ zset' = zset \ Expired
  BY DEF SweepPop, SweepGoto, SweepOwns, rowVars, callVars, relVars
<1>2. \A h \in Expired : h \in Tokens /\ h \in zset /\ pc[h] \in Ended
  BY DEF Expired, Pushed
<1>3. LifeTypes'
  BY <1>1, <1>2 DEF LifeTypes
<1>4. Owners' /\ ReleaseOwns' /\ ReleasedOnce' /\ EntryOfActive'
  BY <1>1 DEF Owners, ReleaseOwns, ReleasedOnce, EntryOfActive, IsActive
<1>5. Pushed'
  BY <1>1, <1>2 DEF Pushed
<1>6. \A q \in Sweeps : q # s => spc'[q] = spc[q] /\ taken'[q] = taken[q]
  BY <1>1 DEF LifeTypes
<1>7. spc'[s] \in {"done", "popped"} /\ taken'[s] = Expired
      /\ (spc'[s] = "done" => Expired = {})
  BY <1>1 DEF LifeTypes
<1>8. SweepOwns'
  BY <1>1, <1>2, <1>6, <1>7 DEF SweepOwns, IsActive
<1>9. SweptOnce'
  BY <1>1, <1>2, <1>6, <1>7 DEF SweptOnce
<1>10. ActiveIsTracked'
  <2> SUFFICES ASSUME NEW h \in Tokens, IsActive(hold, h)
               PROVE  h \in zset' \/ \E q \in Sweeps : h \in taken'[q] /\ spc'[q] # "done"
    BY <1>1 DEF ActiveIsTracked, IsActive
  <2>1. CASE h \in Expired
    BY <1>7, <2>1
  <2>2. CASE h \notin Expired
    BY <1>1, <1>6, <2>2 DEF ActiveIsTracked
  <2> QED
    BY <2>1, <2>2
<1>11. NoGhostEntry'
  BY <1>1, <1>6 DEF NoGhostEntry, IsActive
<1> QED
  BY <1>3, <1>4, <1>5, <1>8, <1>9, <1>10, <1>11

\* The query of a sweep, its writes to the tiers, its return and its death
\* change no hold and nothing in Redis.
LEMMA SweepReads ==
    ASSUME LifeInv, NEW s \in Sweeps,
           \/ SweepFetch(s) \/ SweepUpdateTier(s) \/ SweepRefused(s)
           \/ SweepReturn(s) \/ SweepCrash(s) \/ SweepInvalidate(s)
    PROVE  LifeInv'
<1> USE DEF LifeInv, SweepGoto, createVars, rowVars, callVars, redisVars, relVars
<1>1. UNCHANGED <<hold, lock, pc, args, registry, zset, due, holdLock, rpc, rtok, taken>>
  BY DEF SweepFetch, SweepUpdateTier, SweepRefused, SweepReturn, SweepCrash, SweepInvalidate
<1>2. \A q \in Sweeps : q # s => spc'[q] = spc[q] /\ todo'[q] = todo[q] /\ cur'[q] = cur[q]
  BY DEF SweepFetch, SweepUpdateTier, SweepRefused, SweepReturn, SweepCrash, SweepInvalidate,
         LifeTypes
<1>3. \/ /\ spc[s] = "popped" /\ spc'[s] = "loop" /\ cur'[s] = cur[s]
         /\ todo'[s] = {h \in taken[s] : IsActive(hold, h)}
      \/ /\ todo'[s] = todo[s]
         /\ \/ spc[s] = "saved" /\ spc'[s] \in {"updated", "failed"} /\ cur'[s] = cur[s]
            \/ spc[s] = "loop" /\ spc'[s] = "done" /\ todo[s] = {} /\ cur'[s] = cur[s]
            \/ spc[s] \in {"popped"} \cup SweepRunning /\ spc'[s] = "failed" /\ cur'[s] = cur[s]
            \/ spc[s] = "forgotten" /\ spc'[s] = "loop"
  BY DEF SweepFetch, SweepUpdateTier, SweepRefused, SweepReturn, SweepCrash, SweepInvalidate,
         LifeTypes
<1>4. LifeTypes'
  BY <1>1 DEF SweepFetch, SweepUpdateTier, SweepRefused, SweepReturn, SweepCrash, SweepInvalidate,
         LifeTypes
<1>5. Owners' /\ Pushed' /\ ReleaseOwns' /\ ReleasedOnce' /\ SweptOnce' /\ EntryOfActive'
  BY <1>1 DEF Owners, Pushed, ReleaseOwns, ReleasedOnce, SweptOnce, EntryOfActive, IsActive
<1>6. SweepOwns'
  BY <1>1, <1>2, <1>3 DEF SweepOwns, IsActive
<1>7. ActiveIsTracked'
  <2> SUFFICES ASSUME NEW h \in Tokens, IsActive(hold, h), h \notin zset
               PROVE  \E q \in Sweeps : h \in taken[q] /\ spc'[q] # "done"
    BY <1>1 DEF ActiveIsTracked, IsActive
  <2>1. PICK q \in Sweeps : h \in taken[q] /\ spc[q] # "done"
    BY DEF ActiveIsTracked
  <2>2. spc'[q] # "done"
    BY <1>2, <1>3, <2>1 DEF SweepOwns
  <2> QED
    BY <2>1, <2>2
<1>8. NoGhostEntry'
  <2> SUFFICES ASSUME NEW h \in registry, hold[h] # NoRow, ~IsActive(hold, h)
               PROVE  \E q \in Sweeps : cur'[q] = h /\ spc'[q] \in {"saved", "updated", "failed"}
    BY <1>1 DEF NoGhostEntry, IsActive
  <2>1. PICK q \in Sweeps : cur[q] = h /\ spc[q] \in {"saved", "updated", "failed"}
    BY DEF NoGhostEntry
  <2>2. cur'[q] = h /\ spc'[q] \in {"saved", "updated", "failed"}
    BY <1>2, <1>3, <2>1
  <2> QED
    BY <2>1, <2>2
<1> QED
  BY <1>4, <1>5, <1>6, <1>7, <1>8

\* The status is written without a look at what it is: the hold may have been
\* released since the query, but no release is at it now.
LEMMA SaveKeepsLife ==
    ASSUME LifeInv, NEW s \in Sweeps, SweepSave(s)
    PROVE  LifeInv'
<1> USE DEF LifeInv
<1>1. PICK k \in todo[s] :
         /\ SweepGoto(s, "loop", "saved")
         /\ holdLock[k] = Free
         /\ hold' = [hold EXCEPT ![k].status = "expired"]
         /\ cur' = [cur EXCEPT ![s] = k]
         /\ todo' = [todo EXCEPT ![s] = @ \ {k}]
         /\ UNCHANGED <<tier, lock, callVars, redisVars, due, relVars, taken, sread>>
  BY DEF SweepSave
<1>2. /\ UNCHANGED <<lock, pc, args, registry, zset, due, holdLock, rpc, rtok, taken>>
      /\ spc[s] = "loop"
      /\ spc' = [spc EXCEPT ![s] = "saved"]
  BY <1>1 DEF SweepGoto, callVars, redisVars, relVars
<1>3. k \in Tokens /\ k \in taken[s] /\ hold[k] \in Holds /\ hold[k] # NoRow /\ pc[k] = "done"
  BY <1>1 DEF SweepOwns, LifeTypes, Owners
<1>4. /\ hold'[k] = [hold[k] EXCEPT !.status = "expired"]
      /\ \A g \in Tokens \ {k} : hold'[g] = hold[g]
  BY <1>1, <1>3 DEF Owners
<1>5. hold'[k] \in Holds /\ hold'[k] # NoRow /\ hold'[k].status = "expired"
  BY <1>3, <1>4, NoRowAssumption DEF Holds, Status
<1>6. \A g \in Tokens : /\ hold[g] # NoRow <=> hold'[g] # NoRow
                        /\ IsActive(hold', g) <=> IsActive(hold, g) /\ g # k
  BY <1>3, <1>4, <1>5 DEF IsActive
<1>7. /\ \A q \in Sweeps \ {s} : spc'[q] = spc[q] /\ todo'[q] = todo[q] /\ cur'[q] = cur[q]
      /\ spc'[s] = "saved" /\ cur'[s] = k /\ todo'[s] = todo[s] \ {k}
  BY <1>1, <1>2 DEF LifeTypes
<1>8. LifeTypes'
  BY <1>1, <1>2, <1>3 DEF LifeTypes
<1>9. Owners'
  <2>1. hold' \in [Tokens -> Holds \cup {NoRow}]
    BY <1>1, <1>3, <1>4, <1>5 DEF Owners
  <2> QED
    BY <1>2, <1>6, <2>1 DEF Owners
<1>10. Pushed'
  BY <1>2 DEF Pushed
<1>11. \A r \in Releases : rpc[r] \in RelRunning => rtok[r] # k
  BY <1>1, CheckoutAssumption DEF ReleaseOwns
<1>12. ReleaseOwns'
  BY <1>2, <1>6, <1>11 DEF ReleaseOwns
<1>13. \A q \in Sweeps \ {s} : k \notin taken[q] /\ k \notin todo[q]
  BY <1>3 DEF SweptOnce, SweepOwns
<1>14. SweepOwns'
  <2>1. ASSUME NEW q \in Sweeps, q # s
        PROVE  \A h \in todo'[q] : hold'[h] # NoRow /\ hold'[h].status # "expired"
    BY <1>4, <1>7, <1>13, <2>1 DEF SweepOwns, LifeTypes
  <2>2. \A h \in todo'[s] : hold'[h] # NoRow /\ hold'[h].status # "expired"
    BY <1>4, <1>7 DEF SweepOwns, LifeTypes
  <2>3. ASSUME NEW q \in Sweeps
        PROVE  /\ todo'[q] \subseteq taken[q]
               /\ spc'[q] \in SweepRunning =>
                     \A h \in taken[q] : IsActive(hold', h) => h \in todo'[q]
    BY <1>2, <1>6, <1>7 DEF SweepOwns, LifeTypes
  <2>4. ASSUME NEW q \in Sweeps
        PROVE  /\ spc'[q] \in SweepRunning \ {"loop"} =>
                     cur'[q] \in Tokens /\ hold'[cur'[q]] # NoRow /\ ~IsActive(hold', cur'[q])
               /\ spc'[q] = "forgotten" => cur'[q] \notin registry
               /\ spc'[q] = "idle" => taken[q] = {}
               /\ spc'[q] \in {"idle", "popped"} => todo'[q] = {}
    BY <1>3, <1>6, <1>7 DEF SweepOwns
  <2> QED
    BY <1>2, <2>1, <2>2, <2>3, <2>4 DEF SweepOwns
<1>15. ReleasedOnce' /\ SweptOnce'
  BY <1>2 DEF ReleasedOnce, SweptOnce
<1>16. ActiveIsTracked'
  BY <1>2, <1>6, <1>7 DEF ActiveIsTracked
<1>17. NoGhostEntry'
  <2> SUFFICES ASSUME NEW h \in registry, hold'[h] # NoRow, ~IsActive(hold', h)
               PROVE  \E q \in Sweeps : cur'[q] = h /\ spc'[q] \in {"saved", "updated", "failed"}
    BY <1>2 DEF NoGhostEntry
  <2>1. CASE h = k
    BY <1>7, <2>1
  <2>2. CASE h # k
    <3>1. hold[h] # NoRow /\ ~IsActive(hold, h)
      BY <1>6, <2>2 DEF LifeTypes
    <3>2. PICK q \in Sweeps : cur[q] = h /\ spc[q] \in {"saved", "updated", "failed"}
      BY <3>1 DEF NoGhostEntry
    <3>3. q # s
      BY <1>2, <3>2
    <3> QED
      BY <1>7, <3>2, <3>3
  <2> QED
    BY <2>1, <2>2
<1>18. EntryOfActive'
  BY <1>2, <1>6 DEF EntryOfActive
<1> QED
  BY <1>8, <1>9, <1>10, <1>12, <1>14, <1>15, <1>16, <1>17, <1>18

\* The entry of an expired hold is deleted.
LEMMA ForgetKeepsLife ==
    ASSUME LifeInv, NEW s \in Sweeps, SweepForget(s)
    PROVE  LifeInv'
<1> USE DEF LifeInv
<1>1. /\ UNCHANGED <<hold, lock, pc, args, zset, due, holdLock, rpc, rtok, taken, todo, cur>>
      /\ registry' = registry \ {cur[s]}
      /\ spc[s] = "updated"
      /\ spc' = [spc EXCEPT ![s] = "forgotten"]
  BY DEF SweepForget, SweepGoto, rowVars, callVars, relVars
<1>2. cur[s] \in Tokens /\ hold[cur[s]] # NoRow /\ ~IsActive(hold, cur[s]) /\ pc[cur[s]] = "done"
  BY <1>1 DEF SweepOwns, Owners
<1>3. \A q \in Sweeps : q # s => spc'[q] = spc[q]
  BY <1>1 DEF LifeTypes
<1>4. spc'[s] = "forgotten"
  BY <1>1 DEF LifeTypes
<1>5. LifeTypes' /\ Owners'
  BY <1>1 DEF LifeTypes, Owners
<1>6. Pushed'
  BY <1>1, <1>2 DEF Pushed
<1>7. ReleaseOwns' /\ ReleasedOnce' /\ SweptOnce'
  BY <1>1 DEF ReleaseOwns, ReleasedOnce, SweptOnce, IsActive
<1>8. SweepOwns'
  BY <1>1, <1>3, <1>4 DEF SweepOwns, IsActive
<1>9. ActiveIsTracked'
  BY <1>1, <1>3, <1>4 DEF ActiveIsTracked, IsActive
<1>10. NoGhostEntry'
  BY <1>1, <1>3 DEF NoGhostEntry, IsActive
<1>11. EntryOfActive'
  BY <1>1, <1>2 DEF EntryOfActive, IsActive
<1> QED
  BY <1>5, <1>6, <1>7, <1>8, <1>9, <1>10, <1>11

-----------------------------------------------------------------------------
(***************************************************************************)
(* The theorems.                                                           *)
(***************************************************************************)

LEMMA NextLife == LifeInv /\ [CheckoutNext]_checkoutVars => LifeInv'
<1> SUFFICES ASSUME LifeInv, [CheckoutNext]_checkoutVars
             PROVE  LifeInv'
  OBVIOUS
<1>1. CASE UNCHANGED checkoutVars
  <2> USE <1>1 DEF checkoutVars, createVars, relVars, sweepVars, LifeInv
  <2>1. LifeTypes' /\ Owners' /\ Pushed'
    BY DEF LifeTypes, Owners, Pushed
  <2>2. ReleaseOwns' /\ SweepOwns'
    BY DEF ReleaseOwns, SweepOwns, IsActive
  <2>3. ReleasedOnce' /\ SweptOnce' /\ ActiveIsTracked'
    BY DEF ReleasedOnce, SweptOnce, ActiveIsTracked, IsActive
  <2>4. NoGhostEntry' /\ EntryOfActive'
    BY DEF NoGhostEntry, EntryOfActive, IsActive
  <2> QED
    BY <2>1, <2>2, <2>3, <2>4
<1>2. CASE Work
  <2>1. ASSUME NEW h \in Tokens, CreateWork(h) \/ MakeDue(h) \/ RegistryExpire(h)
        PROVE  LifeInv'
    BY <2>1, CreateKeepsLife, TimeKeepsLife
  <2>2. ASSUME NEW r \in Releases, ReleaseCall(r) \/ TimeoutTask(r) \/ RelStep(r)
        PROVE  LifeInv'
    BY <2>2, ReleaseBegins, ReleaseWrites, ReleaseFails, ReleaseCommits DEF RelStep
  <2>3. ASSUME NEW s \in Sweeps, SweepPop(s) \/ SweepStep(s)
        PROVE  LifeInv'
    BY <2>3, PopKeepsLife, SweepReads, SaveKeepsLife, ForgetKeepsLife DEF SweepStep
  <2> QED
    BY <1>2, <2>1, <2>2, <2>3 DEF Work
<1>3. CASE Failures
  BY <1>3, CreateKeepsLife, ReleaseFails, SweepReads DEF Failures
<1> QED
  BY <1>1, <1>2, <1>3 DEF CheckoutNext

\* The inductive invariant of the life of a hold.
THEOREM LifeAlways == CheckoutSafety => []LifeInv
<1> QED
  BY InitLife, NextLife, PTL DEF CheckoutSafety

\* Of any number of overlapping releases of a hold, one returns it.
THEOREM ReleasesOnce == CheckoutSafety => []ReleasedOnce
<1>1. LifeInv => ReleasedOnce
  BY DEF LifeInv
<1> QED
  BY <1>1, LifeAlways, PTL

\* No two sweeps have popped the same token, and none is back in the queue.
THEOREM SweepsOnce == CheckoutSafety => []SweptOnce
<1>1. LifeInv => SweptOnce
  BY DEF LifeInv
<1> QED
  BY <1>1, LifeAlways, PTL

\* An active hold is in the expiry queue or in the hands of a sweep, which may
\* have died with it.
THEOREM ActiveHoldsTracked == CheckoutSafety => []ActiveIsTracked
<1>1. LifeInv => ActiveIsTracked
  BY DEF LifeInv
<1> QED
  BY <1>1, LifeAlways, PTL

\* The registry shows a returned hold only while, or because, the sweep that
\* expired it has not come to delete the entry.
THEOREM GhostEntriesExplained == CheckoutSafety => []NoGhostEntry
<1>1. LifeInv => NoGhostEntry
  BY DEF LifeInv
<1> QED
  BY <1>1, LifeAlways, PTL

\* The registry misses an active hold before its time only through a release
\* that has not committed, or will not.
THEOREM MissingEntriesExplained == CheckoutSafety => []EntryOfActive
<1>1. LifeInv => EntryOfActive
  BY DEF LifeInv
<1> QED
  BY <1>1, LifeAlways, PTL

\* The rows that a step of each kind writes.
LEMMA RowsWritten ==
    ASSUME LifeInv, CheckoutNext
    PROVE  \/ UNCHANGED <<hold, pc, args>>
           \/ \E h \in Tokens :
                 (CreateCall(h) \/ Step(h) \/ AbortWaiting(h) \/ AbortLocked(h))
           \/ \E r \in Releases : RelCommit(r)
           \/ \E s \in Sweeps : SweepSave(s)
<1> USE DEF createVars, rowVars, callVars, relVars, sweepVars
<1>1. ASSUME NEW h \in Tokens, MakeDue(h) \/ RegistryExpire(h)
      PROVE  UNCHANGED <<hold, pc, args>>
  BY <1>1 DEF MakeDue, RegistryExpire
<1>2. ASSUME NEW r \in Releases,
             \/ ReleaseCall(r) \/ TimeoutTask(r) \/ RelLockHold(r) \/ RelNoActiveHold(r)
             \/ RelReadTier(r) \/ RelWriteTier(r) \/ RelForget(r) \/ RelInvalidate(r)
             \/ RelRefused(r) \/ RelAbort(r)
      PROVE  UNCHANGED <<hold, pc, args>>
  BY <1>2 DEF ReleaseCall, TimeoutTask, RelLockHold, RelNoActiveHold, RelReadTier,
              RelWriteTier, RelForget, RelInvalidate, RelRefused, RelAbort, RelEnd
<1>3. ASSUME NEW s \in Sweeps,
             \/ SweepPop(s) \/ SweepFetch(s) \/ SweepUpdateTier(s) \/ SweepRefused(s)
             \/ SweepForget(s) \/ SweepInvalidate(s) \/ SweepReturn(s) \/ SweepCrash(s)
      PROVE  UNCHANGED <<hold, pc, args>>
  BY <1>3 DEF SweepPop, SweepFetch, SweepUpdateTier, SweepRefused, SweepForget,
              SweepInvalidate, SweepReturn, SweepCrash
<1> QED
  BY <1>1, <1>2, <1>3
  DEF CheckoutNext, Work, Failures, CreateWork, CreateFails, RelStep, SweepStep

\* A returned hold is not reserved again, and "expired" is final.
THEOREM ReturnedIsFinal == CheckoutSafety => NoResurrection
<1> DEFINE Final ==
      \A h \in Tokens :
         hold[h] # NoRow /\ hold'[h] # hold[h] =>
            /\ hold'[h] = [hold[h] EXCEPT !.status = hold'[h].status]
            /\ hold'[h].status \in (IF hold[h].status = "active"
                                    THEN {"released", "expired"}
                                    ELSE {"expired"})
            /\ hold[h].status # "expired"
<1>1. LifeInv /\ [CheckoutNext]_checkoutVars => [Final]_checkoutVars
  <2> SUFFICES ASSUME LifeInv, CheckoutNext
               PROVE  Final
    OBVIOUS
  <2>1. ASSUME NEW h \in Tokens,
               CreateCall(h) \/ Step(h) \/ AbortWaiting(h) \/ AbortLocked(h)
        PROVE  Final
    BY <2>1, CreateEffect DEF OwnRowOnly
  <2>2. ASSUME NEW r \in Releases, RelCommit(r)
        PROVE  Final
    <3>1. rtok[r] \in Tokens /\ IsActive(hold, rtok[r])
      BY <2>2 DEF RelCommit, RelEnd, RelGoto, LifeInv, ReleaseOwns
    <3>2. /\ hold[rtok[r]] \in Holds /\ hold[rtok[r]].status = "active"
          /\ hold'[rtok[r]] = [hold[rtok[r]] EXCEPT !.status = "released"]
          /\ \A h \in Tokens \ {rtok[r]} : hold'[h] = hold[h]
      BY <2>2, <3>1 DEF RelCommit, LifeInv, Owners, IsActive
    <3>3. hold'[rtok[r]].status = "released"
      BY <3>2 DEF Holds
    <3> QED
      BY <3>2, <3>3
  <2>3. ASSUME NEW s \in Sweeps, SweepSave(s)
        PROVE  Final
    <3>1. PICK k \in todo[s] : hold' = [hold EXCEPT ![k].status = "expired"]
      BY <2>3 DEF SweepSave
    <3>2. /\ k \in Tokens /\ hold[k] \in Holds /\ hold[k].status # "expired"
          /\ hold'[k] = [hold[k] EXCEPT !.status = "expired"]
          /\ \A h \in Tokens \ {k} : hold'[h] = hold[h]
      BY <3>1 DEF LifeInv, LifeTypes, SweepOwns, Owners
    <3>3. hold'[k].status = "expired"
      BY <3>2 DEF Holds
    <3> QED
      BY <3>2, <3>3
  <2> QED
    BY <2>1, <2>2, <2>3, RowsWritten
<1> QED
  BY <1>1, LifeAlways, PTL DEF CheckoutSafety, NoResurrection

\* Releases and sweeps take holds out of what the guard counts, and calls stay
\* within the bound as they do by themselves.
LEMMA NextCheckoutBound ==
    LifeInv /\ LifeInv' /\ AdmittedBound /\ [CheckoutNext]_checkoutVars
        => AdmittedBound'
<1> SUFFICES ASSUME LifeInv, LifeInv', AdmittedBound, [CheckoutNext]_checkoutVars
             PROVE  AdmittedBound'
  OBVIOUS
<1>1. ASSUME UNCHANGED <<pc, args>>,
             \A h \in Tokens : IsActive(hold', h) =>
                /\ IsActive(hold, h)
                /\ hold'[h].user = hold[h].user /\ hold'[h].tier = hold[h].tier
      PROVE  AdmittedBound'
  <2>1. \A u \in Users, t \in Tiers : CountedOn(u, t)' \subseteq CountedOn(u, t)
    BY <1>1 DEF CountedOn, PendingOn, ActiveOfTier, ActiveOn
  <2>2. \A u \in Users, e \in Events : Counted(u, e)' \subseteq Counted(u, e)
    BY <1>1 DEF Counted, Pending, ActiveOf
  <2> QED
    BY <2>1, <2>2, BoundMonotone
<1>2. ASSUME NEW h \in Tokens,
             CreateCall(h) \/ Step(h) \/ AbortWaiting(h) \/ AbortLocked(h)
      PROVE  AdmittedBound'
  <2>1. Next
    BY <1>2 DEF Next
  <2> QED
    BY <2>1, NextBound DEF LifeInv
<1>3. ASSUME NEW r \in Releases, RelCommit(r)
      PROVE  AdmittedBound'
  <2>1. UNCHANGED <<pc, args>>
    BY <1>3 DEF RelCommit, RelEnd, callVars
  <2>2. hold' = [hold EXCEPT ![rtok[r]].status = "released"]
    BY <1>3 DEF RelCommit
  <2>3. ASSUME NEW h \in Tokens, IsActive(hold', h)
        PROVE  /\ IsActive(hold, h)
               /\ hold'[h].user = hold[h].user /\ hold'[h].tier = hold[h].tier
    BY <2>2, <2>3, NoRowAssumption DEF LifeInv, Owners, IsActive, Holds
  <2> QED
    BY <1>1, <2>1, <2>3
<1>4. ASSUME NEW s \in Sweeps, SweepSave(s)
      PROVE  AdmittedBound'
  <2>1. UNCHANGED <<pc, args>>
    BY <1>4 DEF SweepSave, callVars
  <2>2. PICK k \in todo[s] : hold' = [hold EXCEPT ![k].status = "expired"]
    BY <1>4 DEF SweepSave
  <2>3. ASSUME NEW h \in Tokens, IsActive(hold', h)
        PROVE  /\ IsActive(hold, h)
               /\ hold'[h].user = hold[h].user /\ hold'[h].tier = hold[h].tier
    BY <2>2, <2>3, NoRowAssumption DEF LifeInv, Owners, IsActive, Holds
  <2> QED
    BY <1>1, <2>1, <2>3
<1>5. CASE UNCHANGED <<hold, pc, args>>
  BY <1>1, <1>5 DEF IsActive
<1>6. CASE UNCHANGED checkoutVars
  BY <1>5, <1>6 DEF checkoutVars, createVars
<1> QED
  BY <1>2, <1>3, <1>4, <1>5, <1>6, RowsWritten

\* What the guard has admitted stays within the bound, with releases and
\* sweeps at work.
THEOREM CheckoutBound == CheckoutSafety => []AdmittedBound
<1>1. CheckoutInit => AdmittedBound
  BY InitBound DEF CheckoutInit
<1> QED
  BY <1>1, NextCheckoutBound, LifeAlways, PTL DEF CheckoutSafety

\* The limit per tier holds for the whole checkout.
THEOREM CheckoutTierBound == CheckoutSafety => []TierHoldBound
<1> QED
  BY CheckoutBound, BoundImplies, PTL

\* So does the limit per event, which is higher than the code means it to be.
THEOREM CheckoutEventBound == CheckoutSafety => []EventHoldBound
<1> QED
  BY CheckoutBound, BoundImplies, PTL
=============================================================================
