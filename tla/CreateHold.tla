----------------------------- MODULE CreateHold -----------------------------
(***************************************************************************)
(* checkout.services.create_hold, called concurrently by the threads of    *)
(* the application servers: one database transaction per call              *)
(* (@transaction.atomic, READ COMMITTED), with three Redis calls before    *)
(* its commit.                                                             *)
(*                                                                         *)
(* tier and hold are the committed rows.  What a transaction has written   *)
(* and not committed is a function of its arguments and of the tier row it *)
(* read under the lock, so it becomes visible, all at once, in Commit.     *)
(* Redis knows no transaction: its writes are visible at once and survive  *)
(* a rollback.                                                             *)
(***************************************************************************)
EXTENDS HoldRows

CONSTANTS
    Totals,       \* bound: the capacities a tier is opened with
    Solds,        \* bound: the places sold before the first call
    Quantities,   \* bound: the quantities a caller passes (an int, any sign)
    Free,         \* no transaction holds the row lock
    None          \* no arguments, no snapshot

ASSUME CreateAssumption ==
    /\ Totals \subseteq Nat
    /\ Solds \subseteq Nat
    /\ Quantities \subseteq Int
    /\ Free \notin Tokens

Args == [user : Users, tier : Tiers, quantity : Quantities]

ASSUME NoneAssumption == None \notin Args /\ None \notin TierRows

VARIABLES
    tier,       \* inventory_tier, committed rows
    hold,       \* checkout_hold, committed rows
    lock,       \* row lock of each tier: the transaction holding it, or Free
    pc,         \* where the create_hold call of each token stands
    args,       \* its arguments, while it runs
    snap,       \* the tier row it read with SELECT ... FOR UPDATE
    registry,   \* Redis keys hold:<token>
    zset,       \* Redis sorted set hold_expiry_zset
    avail       \* Redis keys tier_avail:<tier>: the cached number, or None

rowVars    == <<tier, hold>>
callVars   == <<pc, args, snap>>
redisVars  == <<registry, zset, avail>>
createVars == <<tier, hold, lock, pc, args, snap, registry, zset, avail>>

\* The stages of a call that owns the lock of its tier, in program order.
Locked == {"locked", "counted", "reserved", "registered", "pushed", "invalidated"}

\* The stages in which it has passed the abuse guard and not yet committed.
Admitted == Locked \ {"locked"}

\* The stages in which it has inserted its hold row.
Inserted == Admitted \ {"counted"}

Ended == {"done", "abuse", "sold_out", "failed"}

\* A tier that nobody holds yet, with some of its places sold.
OpeningRows ==
    {r \in [total : Totals, held : {0}, sold : Solds] : r.sold <= r.total}

Init ==
    /\ tier \in [Tiers -> OpeningRows]
    /\ hold = [h \in Tokens |-> NoRow]
    /\ lock = [t \in Tiers |-> Free]
    /\ pc = [h \in Tokens |-> "idle"]
    /\ args = [h \in Tokens |-> None]
    /\ snap = [h \in Tokens |-> None]
    /\ registry = {}
    /\ zset = {}
    /\ avail = [t \in Tiers |-> None]

-----------------------------------------------------------------------------
Goto(h, from, to) ==
    /\ pc[h] = from
    /\ pc' = [pc EXCEPT ![h] = to]

\* The transaction ends: its row lock is released and its locals are gone.
End(h, from, to) ==
    /\ Goto(h, from, to)
    /\ lock' = [lock EXCEPT ![args[h].tier] = Free]
    /\ args' = [args EXCEPT ![h] = None]
    /\ snap' = [snap EXCEPT ![h] = None]

\* Mutant: an error path that leaves the transaction open.
RollbackOpen(h, from, to) ==
    /\ Goto(h, from, to)
    /\ args' = [args EXCEPT ![h] = None]
    /\ snap' = [snap EXCEPT ![h] = None]
    /\ UNCHANGED <<rowVars, lock, redisVars>>

\* An exception leaves the atomic block: nothing it wrote reaches the tables.
Rollback(h, from, to) ==
    /\ End(h, from, to)
    /\ UNCHANGED <<rowVars, redisVars>>

CreateCall(h) ==
    /\ Goto(h, "idle", "start")
    /\ \E a \in Args : args' = [args EXCEPT ![h] = a]
    /\ UNCHANGED <<rowVars, lock, snap, redisVars>>

\* Mutant: get() without select_for_update().
ReadTier(h) ==
    /\ Goto(h, "start", "locked")
    /\ lock' = [lock EXCEPT ![args[h].tier] = h]
    /\ snap' = [snap EXCEPT ![h] = tier[args[h].tier]]
    /\ UNCHANGED <<rowVars, args, redisVars>>

\* SELECT ... FOR UPDATE: waits for the lock, then reads the latest row.
LockTier(h) ==
    /\ Goto(h, "start", "locked")
    /\ lock[args[h].tier] = Free
    /\ lock' = [lock EXCEPT ![args[h].tier] = h]
    /\ snap' = [snap EXCEPT ![h] = tier[args[h].tier]]
    /\ UNCHANGED <<rowVars, args, redisVars>>

\* The abuse guard counts the committed active holds of the user on the event.
HoldsCounted(h) ==
    Cardinality(ActiveOf(hold, args[h].user, EventOf[args[h].tier]))

\* Mutant: > instead of >= in the abuse guard.
CountHoldsOff(h) ==
    /\ Goto(h, "locked", "counted")
    /\ HoldsCounted(h) <= MaxHolds
    /\ UNCHANGED <<rowVars, lock, args, snap, redisVars>>

CountHolds(h) ==
    /\ Goto(h, "locked", "counted")
    /\ HoldsCounted(h) < MaxHolds
    /\ UNCHANGED <<rowVars, lock, args, snap, redisVars>>

RefuseAbuse(h) ==
    /\ Rollback(h, "locked", "abuse")
    /\ HoldsCounted(h) >= MaxHolds

\* Mutants: the places sold forgotten; <= instead of < in the comparison.
EnoughUnsold(h) == snap[h].total - snap[h].held >= args[h].quantity
MoreThanEnough(h) == Available(snap[h]) > args[h].quantity

Enough(h) == Available(snap[h]) >= args[h].quantity

\* Mutant: a plain IntegerField, without the CHECK.
ReserveAny(h) ==
    /\ Goto(h, "counted", "reserved")
    /\ Enough(h)
    /\ UNCHANGED <<rowVars, lock, args, snap, redisVars>>

\* INSERT of the hold and UPDATE of the tier, private until the commit.  The
\* CHECK on checkout_hold.quantity refuses a negative quantity, which the
\* comparison with quantity_available lets through.
Reserve(h) ==
    /\ Goto(h, "counted", "reserved")
    /\ Enough(h)
    /\ args[h].quantity >= 0
    /\ UNCHANGED <<rowVars, lock, args, snap, redisVars>>

RefuseSoldOut(h) ==
    /\ Rollback(h, "counted", "sold_out")
    /\ ~Enough(h)

RefuseNegative(h) ==
    /\ Rollback(h, "counted", "failed")
    /\ Enough(h)
    /\ args[h].quantity < 0

RegisterHold(h) ==
    /\ Goto(h, "reserved", "registered")
    /\ registry' = registry \cup {h}
    /\ UNCHANGED <<rowVars, lock, args, snap, zset, avail>>

\* Mutant: the hold is not pushed.
PushNothing(h) ==
    /\ Goto(h, "registered", "pushed")
    /\ UNCHANGED <<rowVars, lock, args, snap, redisVars>>

PushExpiry(h) ==
    /\ Goto(h, "registered", "pushed")
    /\ zset' = zset \cup {h}
    /\ UNCHANGED <<rowVars, lock, args, snap, registry, avail>>

\* The cached availability is dropped, before the commit changes the real one.
Invalidate(h) ==
    /\ Goto(h, "pushed", "invalidated")
    /\ avail' = [avail EXCEPT ![args[h].tier] = None]
    /\ UNCHANGED <<rowVars, lock, args, snap, registry, zset>>

\* Mutant: one place, whatever the quantity.
NewHeldOne(h) == snap[h].held + 1

NewHeld(h) == snap[h].held + args[h].quantity

Commit(h) ==
    /\ End(h, "invalidated", "done")
    /\ hold' = [hold EXCEPT ![h] = [user     |-> args[h].user,
                                    tier     |-> args[h].tier,
                                    quantity |-> args[h].quantity,
                                    status   |-> "active"]]
    /\ tier' = [tier EXCEPT ![args[h].tier].held = NewHeld(h)]
    /\ UNCHANGED redisVars

\* A database or Redis error, or the death of the worker: while it waits for
\* the tier (or finds no such tier), and later in the transaction.
AbortWaiting(h) ==
    /\ Goto(h, "start", "failed")
    /\ args' = [args EXCEPT ![h] = None]
    /\ UNCHANGED <<rowVars, lock, snap, redisVars>>

AbortLocked(h) == \E s \in Locked : Rollback(h, s, "failed")

Step(h) ==
    \/ LockTier(h)
    \/ CountHolds(h)
    \/ RefuseAbuse(h)
    \/ Reserve(h)
    \/ RefuseSoldOut(h)
    \/ RefuseNegative(h)
    \/ RegisterHold(h)
    \/ PushExpiry(h)
    \/ Invalidate(h)
    \/ Commit(h)

Next == \E h \in Tokens :
    CreateCall(h) \/ Step(h) \/ AbortWaiting(h) \/ AbortLocked(h)

\* A thread that runs a call goes on running it, and PostgreSQL grants a free
\* row lock.  Nothing obliges a client to call, or a call to fail.
Fairness == \A h \in Tokens : WF_createVars(Step(h))

Spec == Init /\ [][Next]_createVars /\ Fairness

\* The same without fairness: enough for invariants.
SafetySpec == Init /\ [][Next]_createVars
-----------------------------------------------------------------------------
(***************************************************************************)
(* What create_hold, alone, guarantees.                                    *)
(***************************************************************************)

\* Types, and the agreement of each row lock with the stage of its owner.
TypeOK ==
    /\ tier \in [Tiers -> TierRows]
    /\ hold \in [Tokens -> Holds \cup {NoRow}]
    /\ lock \in [Tiers -> Tokens \cup {Free}]
    /\ pc \in [Tokens -> {"idle", "start"} \cup Locked \cup Ended]
    /\ args \in [Tokens -> Args \cup {None}]
    /\ snap \in [Tokens -> TierRows \cup {None}]
    /\ registry \subseteq Tokens
    /\ zset \subseteq Tokens
    /\ avail \in [Tiers -> Nat \cup {None}]

\* The counter of a tier is the sum of the quantities of its active holds,
\* whatever calls failed, were refused or are under way (services.py:71-78).
HeldMatchesActive ==
    \A t \in Tiers : tier[t].held = Cardinality(Places(hold, t))

\* "SELECT FOR UPDATE prevents oversell under concurrency" (services.py:11):
\* the places that active holds reserve and the places sold fit in the tier.
NoOversell ==
    \A t \in Tiers :
        Cardinality(Places(hold, t)) + tier[t].sold <= tier[t].total

\* On ONE tier a user never has more than MaxHolds active holds: the calls
\* that could add one are serialised by the lock of the tier.
TierHoldBound ==
    \A u \in Users, t \in Tiers :
        Cardinality(ActiveOfTier(hold, u, t)) <= MaxHolds

\* On an EVENT the guard counts rows that calls on its other tiers, holding
\* other locks, have not committed yet; each tier admits one such call at a
\* time, so a user exceeds MaxHolds by at most the number of other tiers.
EventHoldBound ==
    \A u \in Users, e \in Events :
        TiersOf(e) # {} =>
            Cardinality(ActiveOf(hold, u, e))
                <= MaxHolds + Cardinality(TiersOf(e)) - 1

\* A committed hold is already known to the registry and to the expiry sweep
\* (the Redis writes of services.py:87-89 precede the commit).
CommittedIsTracked ==
    \A h \in Tokens : hold[h] # NoRow => h \in registry /\ h \in zset

\* A call is told "sold out" only when the committed ledger, counted from the
\* hold rows and not from quantity_held, has too few places for it: no caller
\* is turned away on account of a hold that was rolled back.
SoldOutIsTrue ==
    [][\A h \in Tokens :
         pc[h] = "counted" /\ pc'[h] = "sold_out" =>
            LET t == args[h].tier
            IN  Cardinality(Places(hold, t)) + args[h].quantity
                    > tier[t].total - tier[t].sold]_createVars

\* Seen without its transactions, a create_hold call is one step of the book
\* of HoldLedger: locks, counters, errors and Redis do not show.
Stock == [t \in Tiers |-> [total |-> tier[t].total, sold |-> tier[t].sold]]

Ledger == INSTANCE HoldLedger
             WITH book <- hold, stock <- Stock,
                  Openings <- {[total |-> r.total, sold |-> r.sold] :
                                  r \in OpeningRows},
                  Amounts <- {q \in Quantities : q >= 0}

ImplementsLedger == Ledger!LedgerSpec

-----------------------------------------------------------------------------
(***************************************************************************)
(* The inductive invariants behind the two guarantees, proved so in        *)
(* CreateHold_proofs.                                                      *)
(***************************************************************************)

\* A call past SELECT ... FOR UPDATE owns its tier, and therefore has read the
\* row as it still is.  No call that can still commit has a row already.
LockDiscipline ==
    \A h \in Tokens :
        /\ pc[h] = "start" \/ pc[h] \in Locked => args[h] \in Args
        /\ pc[h] \in Locked => /\ lock[args[h].tier] = h
                               /\ snap[h] = tier[args[h].tier]
        /\ pc[h] # "done" => hold[h] = NoRow
        /\ pc[h] \in Inserted => Enough(h) /\ args[h].quantity >= 0

\* The part of it that holds whoever else writes rows (Checkout).
Owners ==
    /\ hold \in [Tokens -> Holds \cup {NoRow}]
    /\ pc \in [Tokens -> {"idle", "start"} \cup Locked \cup Ended]
    /\ args \in [Tokens -> Args \cup {None}]
    /\ \A h \in Tokens :
        /\ pc[h] \in {"start"} \cup Locked => args[h] \in Args
        /\ pc[h] \in Locked => lock[args[h].tier] = h
        /\ pc[h] # "done" => hold[h] = NoRow
        /\ pc[h] \in Inserted => args[h].quantity >= 0

\* Counters and rows agree and fit, at every step of every call.
InventoryInv ==
    /\ TypeOK
    /\ LockDiscipline
    /\ HeldMatchesActive
    /\ \A t \in Tiers : tier[t].held + tier[t].sold <= tier[t].total

\* What a call writes to Redis before its commit is there after it.
Tracked ==
    \A h \in Tokens :
        /\ pc[h] \in {"registered", "pushed", "invalidated", "done"} => h \in registry
        /\ pc[h] \in {"pushed", "invalidated", "done"} => h \in zset

\* The calls of a user on an event that the guard has let through and that
\* may still commit, together with the active holds, respect the bound: what
\* a later guard cannot see is at most one call on each other tier.
Pending(u, e) ==
    {h \in Tokens : /\ pc[h] \in Admitted
                    /\ args[h].user = u
                    /\ EventOf[args[h].tier] = e}

PendingOn(u, t) ==
    {h \in Tokens : pc[h] \in Admitted /\ args[h].user = u /\ args[h].tier = t}

Counted(u, e) == ActiveOf(hold, u, e) \cup Pending(u, e)
CountedOn(u, t) == ActiveOfTier(hold, u, t) \cup PendingOn(u, t)

AdmittedBound ==
    /\ \A u \in Users, t \in Tiers : Cardinality(CountedOn(u, t)) <= MaxHolds
    /\ \A u \in Users, e \in Events :
          TiersOf(e) # {} => Cardinality(Counted(u, e))
                                <= MaxHolds + Cardinality(TiersOf(e)) - 1

-----------------------------------------------------------------------------
\* Every call ends: calls wait for one lock at most and whoever holds it
\* commits or rolls back.
CallsFinish ==
    \A h \in Tokens : pc[h] = "start" ~> pc[h] \in Ended
=============================================================================
