------------------------------ MODULE Checkout ------------------------------
(***************************************************************************)
(* The life of a hold: create_hold (CreateHold) running against            *)
(*   - release_hold_by_token, called for a token or by the task            *)
(*     release_hold_on_payment_timeout, a transaction that locks the hold  *)
(*     row and, from its UPDATE to its commit, the tier row;               *)
(*   - the Celery task sweep_expired_holds, which runs in autocommit: each *)
(*     of its statements is a transaction of its own;                      *)
(*   - the passing of the expiry times, and the TTL of the registry keys.  *)
(* A release or a sweep is one invocation; it runs once.                   *)
(***************************************************************************)
EXTENDS CreateHold

CONSTANTS
    Releases,   \* bound: invocations of release_hold_by_token
    Sweeps      \* bound: invocations of sweep_expired_holds

ASSUME CheckoutAssumption == Releases \cap (Tokens \cup {Free}) = {}

VARIABLES
    due,        \* tokens whose expires_at has passed
    holdLock,   \* row lock of each hold
    rpc,        \* stage of each release
    rtok,       \* the token it was called with
    rheld,      \* hold.tier.quantity_held as it read it, without a lock
    spc,        \* stage of each sweep
    taken,      \* the tokens it popped from the sorted set
    todo,       \* the holds of its query that it has not finished
    cur,        \* the hold its loop is at
    sread       \* quantity_held of the tiers as its only query read them

relVars    == <<holdLock, rpc, rtok, rheld>>
sweepVars  == <<spc, taken, todo, cur, sread>>
checkoutVars == <<createVars, due, relVars, sweepVars>>

CheckoutInit ==
    /\ Init
    /\ due = {}
    /\ holdLock = [h \in Tokens |-> Free]
    /\ rpc = [r \in Releases |-> "idle"]
    /\ rtok = [r \in Releases |-> None]
    /\ rheld = [r \in Releases |-> None]
    /\ spc = [s \in Sweeps |-> "idle"]
    /\ taken = [s \in Sweeps |-> {}]
    /\ todo = [s \in Sweeps |-> {}]
    /\ cur = [s \in Sweeps |-> None]
    /\ sread = [s \in Sweeps |-> None]

-----------------------------------------------------------------------------
(***************************************************************************)
(* Time.  A hold lasts 15 minutes from the INSERT; the rest of its call is *)
(* five statements, so the call has ended when the hold is due.            *)
(***************************************************************************)
MakeDue(h) ==
    /\ h \in (registry \cup zset) \ due
    /\ pc[h] \in Ended
    /\ due' = due \cup {h}
    /\ UNCHANGED <<createVars, relVars, sweepVars>>

\* Mutant: a TTL shorter than the hold.
RegistryExpireEarly(h) ==
    /\ h \in registry
    /\ pc[h] \in Ended
    /\ registry' = registry \ {h}
    /\ UNCHANGED <<rowVars, lock, callVars, zset, avail, due, relVars, sweepVars>>

\* The registry key outlives its hold by HOLD_TTL_BUFFER seconds.
RegistryExpire(h) ==
    /\ h \in due \cap registry
    /\ registry' = registry \ {h}
    /\ UNCHANGED <<rowVars, lock, callVars, zset, avail, due, relVars, sweepVars>>

-----------------------------------------------------------------------------
(***************************************************************************)
(* release_hold_by_token.  A caller knows the token of a committed hold.   *)
(***************************************************************************)
RelGoto(r, from, to) ==
    /\ rpc[r] = from
    /\ rpc' = [rpc EXCEPT ![r] = to]

ReleaseCall(r) ==
    /\ RelGoto(r, "idle", "start")
    /\ \E h \in Tokens : /\ hold[h] # NoRow
                         /\ rtok' = [rtok EXCEPT ![r] = h]
    /\ UNCHANGED <<createVars, due, holdLock, rheld, sweepVars>>

\* release_hold_on_payment_timeout reads the row first, without a lock.
TimeoutTask(r) ==
    \E h \in Tokens :
        /\ hold[h] # NoRow
        /\ RelGoto(r, "idle", IF IsActive(hold, h) /\ h \in due
                              THEN "start" ELSE "nothing")
        /\ rtok' = [rtok EXCEPT ![r] = h]
        /\ UNCHANGED <<createVars, due, holdLock, rheld, sweepVars>>

\* Mutant: no status in the WHERE.
RelLockAny(r) ==
    /\ RelGoto(r, "start", "locked")
    /\ holdLock[rtok[r]] = Free
    /\ holdLock' = [holdLock EXCEPT ![rtok[r]] = r]
    /\ UNCHANGED <<createVars, due, rtok, rheld, sweepVars>>

\* SELECT ... FOR UPDATE of the row if it is (still) active.
RelLockHold(r) ==
    /\ RelGoto(r, "start", "locked")
    /\ holdLock[rtok[r]] = Free
    /\ IsActive(hold, rtok[r])
    /\ holdLock' = [holdLock EXCEPT ![rtok[r]] = r]
    /\ UNCHANGED <<createVars, due, rtok, rheld, sweepVars>>

RelNoActiveHold(r) ==
    /\ RelGoto(r, "start", "nothing")
    /\ holdLock[rtok[r]] = Free
    /\ ~IsActive(hold, rtok[r])
    /\ UNCHANGED <<createVars, due, holdLock, rtok, rheld, sweepVars>>

RelTier(r) == hold[rtok[r]].tier

\* hold.tier is loaded here, by a plain SELECT.
RelReadTier(r) ==
    /\ RelGoto(r, "locked", "read")
    /\ rheld' = [rheld EXCEPT ![r] = tier[RelTier(r)].held]
    /\ UNCHANGED <<createVars, due, holdLock, rtok, sweepVars>>

RelNewHeld(r) == rheld[r] - hold[rtok[r]].quantity

\* UPDATE waits for the row lock and then writes the value computed before.
RelWriteTier(r) ==
    /\ RelGoto(r, "read", "written")
    /\ lock[RelTier(r)] = Free
    /\ RelNewHeld(r) >= 0
    /\ lock' = [lock EXCEPT ![RelTier(r)] = r]
    /\ UNCHANGED <<rowVars, callVars, redisVars, due, holdLock, rtok, rheld,
                   sweepVars>>

\* Mutant: the registry entry is left to its TTL.
RelKeepEntry(r) ==
    /\ RelGoto(r, "written", "forgotten")
    /\ UNCHANGED <<createVars, due, holdLock, rtok, rheld, sweepVars>>

RelForget(r) ==
    /\ RelGoto(r, "written", "forgotten")
    /\ registry' = registry \ {rtok[r]}
    /\ UNCHANGED <<rowVars, lock, callVars, zset, avail, due, holdLock, rtok, rheld,
                   sweepVars>>

RelInvalidate(r) ==
    /\ RelGoto(r, "forgotten", "invalidated")
    /\ avail' = [avail EXCEPT ![RelTier(r)] = None]
    /\ UNCHANGED <<rowVars, lock, callVars, registry, zset, due, holdLock, rtok,
                   rheld, sweepVars>>

\* Mutant: the transaction ends without giving its locks back.
RelEndOpen(r, from, to) ==
    /\ RelGoto(r, from, to)
    /\ rheld' = [rheld EXCEPT ![r] = None]
    /\ UNCHANGED <<lock, holdLock, callVars, due, rtok, sweepVars>>

\* The transaction is over: its locks are free.
RelEnd(r, from, to) ==
    /\ RelGoto(r, from, to)
    /\ holdLock' = [holdLock EXCEPT ![rtok[r]] = Free]
    /\ lock' = [t \in Tiers |-> IF lock[t] = r THEN Free ELSE lock[t]]
    /\ rheld' = [rheld EXCEPT ![r] = None]
    /\ UNCHANGED <<callVars, due, rtok, sweepVars>>

RelCommit(r) ==
    /\ RelEnd(r, "invalidated", "released")
    /\ hold' = [hold EXCEPT ![rtok[r]].status = "released"]
    /\ tier' = [tier EXCEPT ![RelTier(r)].held = RelNewHeld(r)]
    /\ UNCHANGED redisVars

\* The CHECK on quantity_held refuses a negative count: rollback.
RelRefused(r) ==
    /\ RelEnd(r, "read", "failed")
    /\ lock[RelTier(r)] = Free
    /\ RelNewHeld(r) < 0
    /\ UNCHANGED <<rowVars, redisVars>>

RelRunning == {"locked", "read", "written", "forgotten", "invalidated"}

RelStep(r) ==
    \/ RelLockHold(r)
    \/ RelNoActiveHold(r)
    \/ RelReadTier(r)
    \/ RelWriteTier(r)
    \/ RelRefused(r)
    \/ RelForget(r)
    \/ RelInvalidate(r)
    \/ RelCommit(r)

\* An error or the death of the process: rollback, Redis as it is.
RelAbort(r) ==
    /\ \E st \in RelRunning : RelEnd(r, st, "failed")
    /\ UNCHANGED <<rowVars, redisVars>>

-----------------------------------------------------------------------------
(***************************************************************************)
(* sweep_expired_holds.                                                    *)
(***************************************************************************)
SweepGoto(s, from, to) ==
    /\ spc[s] = from
    /\ spc' = [spc EXCEPT ![s] = to]

\* MULTI/EXEC: the due members are read and removed in one step.
Expired == due \cap zset

\* Mutant: ZRANGEBYSCORE without ZREMRANGEBYSCORE.
SweepPeek(s) ==
    /\ SweepGoto(s, "idle", IF Expired = {} THEN "done" ELSE "popped")
    /\ taken' = [taken EXCEPT ![s] = Expired]
    /\ UNCHANGED <<createVars, due, relVars, todo, cur, sread>>

SweepPop(s) ==
    /\ SweepGoto(s, "idle", IF Expired = {} THEN "done" ELSE "popped")
    /\ taken' = [taken EXCEPT ![s] = Expired]
    /\ zset' = zset \ Expired
    /\ UNCHANGED <<rowVars, lock, callVars, registry, avail, due, relVars, todo,
                   cur, sread>>

\* One SELECT with a join: the active holds, and their tiers as they are now.
SweepFetch(s) ==
    /\ SweepGoto(s, "popped", "loop")
    /\ todo' = [todo EXCEPT ![s] = {h \in taken[s] : IsActive(hold, h)}]
    /\ sread' = [sread EXCEPT ![s] = [t \in Tiers |-> tier[t].held]]
    /\ UNCHANGED <<createVars, due, relVars, taken, cur>>

\* UPDATE of the status by primary key, whatever the status is by now.
SweepSave(s) ==
    \E h \in todo[s] :
        /\ SweepGoto(s, "loop", "saved")
        /\ holdLock[h] = Free
        /\ hold' = [hold EXCEPT ![h].status = "expired"]
        /\ cur' = [cur EXCEPT ![s] = h]
        /\ todo' = [todo EXCEPT ![s] = @ \ {h}]
        /\ UNCHANGED <<tier, lock, callVars, redisVars, due, relVars, taken,
                       sread>>

SweepTier(s) == hold[cur[s]].tier

SweepNewHeld(s) == sread[s][SweepTier(s)] - hold[cur[s]].quantity

SweepUpdateTier(s) ==
    /\ SweepGoto(s, "saved", "updated")
    /\ lock[SweepTier(s)] = Free
    /\ SweepNewHeld(s) >= 0
    /\ tier' = [tier EXCEPT ![SweepTier(s)].held = SweepNewHeld(s)]
    /\ UNCHANGED <<hold, lock, callVars, redisVars, due, relVars, taken, todo,
                   cur, sread>>

\* The CHECK refuses a negative count and the exception ends the task.
SweepRefused(s) ==
    /\ SweepGoto(s, "saved", "failed")
    /\ lock[SweepTier(s)] = Free
    /\ SweepNewHeld(s) < 0
    /\ UNCHANGED <<createVars, due, relVars, taken, todo, cur, sread>>

SweepForget(s) ==
    /\ SweepGoto(s, "updated", "forgotten")
    /\ registry' = registry \ {cur[s]}
    /\ UNCHANGED <<rowVars, lock, callVars, zset, avail, due, relVars, taken,
                   todo, cur, sread>>

SweepInvalidate(s) ==
    /\ SweepGoto(s, "forgotten", "loop")
    /\ avail' = [avail EXCEPT ![SweepTier(s)] = None]
    /\ cur' = [cur EXCEPT ![s] = None]
    /\ UNCHANGED <<rowVars, lock, callVars, registry, zset, due, relVars, taken,
                   todo, sread>>

\* Mutant: return inside the loop.
SweepReturnEarly(s) ==
    /\ SweepGoto(s, "loop", "done")
    /\ UNCHANGED <<createVars, due, relVars, taken, todo, cur, sread>>

SweepReturn(s) ==
    /\ SweepGoto(s, "loop", "done")
    /\ todo[s] = {}
    /\ UNCHANGED <<createVars, due, relVars, taken, todo, cur, sread>>

SweepRunning == {"loop", "saved", "updated", "forgotten"}

SweepStep(s) ==
    \/ SweepFetch(s)
    \/ SweepSave(s)
    \/ SweepUpdateTier(s)
    \/ SweepRefused(s)
    \/ SweepForget(s)
    \/ SweepInvalidate(s)
    \/ SweepReturn(s)

\* The worker dies, or a statement or Redis fails, between two steps.
SweepCrash(s) ==
    /\ \E st \in {"popped"} \cup SweepRunning :
          SweepGoto(s, st, "failed")
    /\ UNCHANGED <<createVars, due, relVars, taken, todo, cur, sread>>

-----------------------------------------------------------------------------
CreateWork(h) ==
    /\ CreateCall(h) \/ Step(h)
    /\ UNCHANGED <<due, relVars, sweepVars>>

CreateFails(h) ==
    /\ AbortWaiting(h) \/ AbortLocked(h)
    /\ UNCHANGED <<due, relVars, sweepVars>>

\* Nothing fails but what the statements themselves make fail.
Work ==
    \/ \E h \in Tokens : CreateWork(h) \/ MakeDue(h) \/ RegistryExpire(h)
    \/ \E r \in Releases : ReleaseCall(r) \/ TimeoutTask(r) \/ RelStep(r)
    \/ \E s \in Sweeps : SweepPop(s) \/ SweepStep(s)

Failures ==
    \/ \E h \in Tokens : CreateFails(h)
    \/ \E r \in Releases : RelAbort(r)
    \/ \E s \in Sweeps : SweepCrash(s)

CheckoutNext == Work \/ Failures

\* Each call goes on once it has started.  Nothing obliges a client to call,
\* a worker to fail or, for no code schedules it, the sweep to run.
CheckoutFairness ==
    /\ \A h \in Tokens : WF_checkoutVars(Step(h) /\ CreateWork(h))
    /\ \A r \in Releases : WF_checkoutVars(RelStep(r))
    /\ \A s \in Sweeps : WF_checkoutVars(SweepStep(s))

CheckoutSpec == CheckoutInit /\ [][CheckoutNext]_checkoutVars /\ CheckoutFairness

\* Without fairness, and without failures of the environment.
CheckoutSafety == CheckoutInit /\ [][CheckoutNext]_checkoutVars
FaultFreeSafety == CheckoutInit /\ [][Work]_checkoutVars
-----------------------------------------------------------------------------
(***************************************************************************)
(* What the checkout guarantees whatever runs together and whatever fails. *)
(* EventHoldBound and TierHoldBound of CreateHold are checked here too.    *)
(***************************************************************************)

\* A hold that is no longer active never becomes active again, and "expired"
\* is final: the places of a returned hold are not reserved a second time.
NoResurrection ==
    [][\A h \in Tokens :
         hold[h] # NoRow /\ hold'[h] # hold[h] =>
            /\ hold'[h] = [hold[h] EXCEPT !.status = hold'[h].status]
            /\ hold'[h].status \in (IF hold[h].status = "active"
                                    THEN {"released", "expired"}
                                    ELSE {"expired"})
            /\ hold[h].status # "expired"]_checkoutVars

\* The row lock and the status in the WHERE let one release return a hold.
ReleasedOnce ==
    \A r1, r2 \in Releases :
        rpc[r1] = "released" /\ rpc[r2] = "released" /\ r1 # r2
            => rtok[r1] # rtok[r2]

\* A token belongs to one sweep at most, however the sweeps overlap.
SweptOnce ==
    \A s1, s2 \in Sweeps :
        s1 # s2 => taken[s1] \cap (taken[s2] \cup zset) = {}

\* An active hold is still in the sorted set or in the hands of a sweep, one
\* that has not finished or one that failed: no third way out of sight.
ActiveIsTracked ==
    \A h \in Tokens :
        IsActive(hold, h) =>
            \/ h \in zset
            \/ \E s \in Sweeps : h \in taken[s] /\ spc[s] # "done"

\* hold_registry never shows a returned hold for longer than the sweep that
\* expires it takes, unless that sweep dies on the way (services.py:112,
\* tasks.py:50): the entry goes before, or with, the status.
NoGhostEntry ==
    \A h \in registry :
        hold[h] # NoRow /\ ~IsActive(hold, h) =>
            \E s \in Sweeps : cur[s] = h /\ spc[s] \in {"saved", "updated", "failed"}

\* The entry of an active hold disappears before its expiry only by a release
\* that has not committed yet, or that was rolled back after deleting it.
EntryOfActive ==
    \A h \in Tokens \ due :
        IsActive(hold, h) /\ h \notin registry =>
            \E r \in Releases : rtok[r] = h /\ rpc[r] \in {"forgotten", "invalidated", "failed"}

\* Releases take the hold row before the tier row and creations only the tier
\* row: nobody waits for ever, and every started call and sweep ends.
EverythingEnds ==
    /\ CallsFinish
    /\ \A r \in Releases :
          rpc[r] = "start" ~> rpc[r] \in {"nothing", "released", "failed"}
    /\ \A s \in Sweeps : spc[s] = "popped" ~> spc[s] \in {"done", "failed"}

-----------------------------------------------------------------------------
(***************************************************************************)
(* The inductive invariant behind the safety properties, proved so in      *)
(* Checkout_proofs.  The counters of the tiers play no part in it.         *)
(***************************************************************************)
LifeTypes ==
    /\ lock \in [Tiers -> Tokens \cup Releases \cup {Free}]
    /\ registry \subseteq Tokens
    /\ zset \subseteq Tokens
    /\ holdLock \in [Tokens -> Releases \cup {Free}]
    /\ rpc \in [Releases -> {"idle", "start", "nothing", "released", "failed"}
                                \cup RelRunning]
    /\ rtok \in [Releases -> Tokens \cup {None}]
    /\ spc \in [Sweeps -> {"idle", "popped", "done", "failed"} \cup SweepRunning]
    /\ taken \in [Sweeps -> SUBSET Tokens]
    /\ todo \in [Sweeps -> SUBSET Tokens]
    /\ cur \in [Sweeps -> Tokens \cup {None}]

\* The Redis writes of a call are there until its end, for nobody else knows
\* the token; what is due belongs to calls that have ended.
Pushed ==
    /\ \A h \in Tokens :
          /\ pc[h] \in {"registered", "pushed", "invalidated"} => h \in registry
          /\ pc[h] \in {"pushed", "invalidated"} => h \in zset
    /\ \A h \in due : h \in Tokens /\ pc[h] \in Ended

\* From its SELECT ... FOR UPDATE to its end a release owns the row of its
\* hold, which stays active until it commits and never is again.
ReleaseOwns ==
    \A r \in Releases :
        /\ rpc[r] # "idle" => rtok[r] \in Tokens /\ hold[rtok[r]] # NoRow
        /\ rpc[r] \in RelRunning => holdLock[rtok[r]] = r /\ IsActive(hold, rtok[r])
        /\ rpc[r] \in {"forgotten", "invalidated"} => rtok[r] \notin registry
        /\ rpc[r] = "released" => ~IsActive(hold, rtok[r])

\* What a sweep popped is in no queue any more, it has not expired what it
\* is still to do, and it has seen all that is active.
SweepOwns ==
    \A s \in Sweeps :
        /\ spc[s] = "idle" => taken[s] = {}
        /\ spc[s] \in {"idle", "popped"} => todo[s] = {}
        /\ todo[s] \subseteq taken[s]
        /\ taken[s] \cap zset = {}
        /\ \A h \in taken[s] : pc[h] \in Ended
        /\ \A h \in todo[s] : hold[h] # NoRow /\ hold[h].status # "expired"
        /\ spc[s] \in SweepRunning =>
              \A h \in taken[s] : IsActive(hold, h) => h \in todo[s]
        /\ spc[s] \in SweepRunning \ {"loop"} =>
              cur[s] \in Tokens /\ hold[cur[s]] # NoRow /\ ~IsActive(hold, cur[s])
        /\ spc[s] = "forgotten" => cur[s] \notin registry

LifeInv ==
    /\ LifeTypes
    /\ Owners
    /\ Pushed
    /\ ReleaseOwns
    /\ SweepOwns
    /\ ReleasedOnce
    /\ SweptOnce
    /\ ActiveIsTracked
    /\ NoGhostEntry
    /\ EntryOfActive

-----------------------------------------------------------------------------
(***************************************************************************)
(* What the documentation says and the code does not keep.                 *)
(***************************************************************************)

\* No transaction or sweep is between two of its steps.
Quiescent ==
    /\ \A h \in Tokens : pc[h] \in {"idle"} \cup Ended
    /\ \A r \in Releases : rpc[r] \in {"idle", "nothing", "released", "failed"}
    /\ \A s \in Sweeps : spc[s] \in {"idle", "done", "failed"}

\* "Restore inventory for each expired hold" (tasks.py:27): when all is still,
\* the counters hold no place of a hold that is no longer active.
InventoryRestored ==
    Quiescent =>
        \A t \in Tiers : tier[t].held <= Cardinality(Places(hold, t))
=============================================================================
