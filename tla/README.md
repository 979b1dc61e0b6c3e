# Verification of the ticketing system

TLA+ models of the ticketing system's own logic, the TLC runs that check them on
small instances, and theorems about them with proofs that TLAPS checks.
`PROJECT.json` lists the components, the runs, the source lines each definition
stands for, the hazards, the findings and the theorems.

## 1. The system

A Django application on PostgreSQL (READ COMMITTED) and Redis, served by gunicorn
(two processes of four threads, `docker-compose.yml:26`) with Celery workers
(concurrency four, `:40`). Many requests and tasks therefore run the same service
functions at once, on the same rows and the same Redis keys. PostgreSQL
transactions do not cover Redis: what a function writes there is visible at once
and survives a rollback.

| Component | State | Operations | Talks to | What is hard | What makes it correct |
|---|---|---|---|---|---|
| Hold service (`checkout/services.py`) | `checkout_hold` rows, counters of `inventory_tier` | `create_hold`, `release_hold_by_token` | registry, expiry set, availability cache | concurrent transactions, unlocked reads, Redis before commit | no oversell, counters equal to rows, hold limit, a hold is returned once |
| Expiry sweep (`checkout/tasks.py`, `expiry_heap.py`) | Redis sorted set of expiry times | push, atomic pop, sweep | hold rows, tier rows, registry | autocommit, one stale snapshot, a worker that dies after the pop | every expired hold is expired, its places restored once |
| Hold registry (`checkout/hold_registry.py`) | Redis key per hold, TTL | register, get, release | hold service, sweep | rollbacks | it follows the rows |
| Payment timeout (`payments/tasks.py`) | none | `release_hold_on_payment_timeout` | hold service | races with the sweep | releases expired holds only |
| Ticket tiers (`inventory/models.py`, `views.py`) | capacity, held, sold | `quantity_available`, tier API | everything above | an API update writes the whole row back | a save changes what was asked |
| Availability cache (`inventory/availability_cache.py`) | Redis key per tier, 30 s | get, set, invalidate | hold service, sweep | invalidation before commit | does not outlive the number it holds |
| Tier selector (`inventory/tier_selector.py`) | none | binary search and walk | tiers | order of its input | highest price within budget |
| Refunds (`payments/refunds.py`) | payment, tickets, `quantity_sold` | `request_refund` | audit log, tiers, check-in | unlocked reads, a log that raises | refunded once, not after check-in, counts restored |
| Audit log (`audit/`) | append-only rows | `log_action`, `save`, `delete` | refunds, webhooks | first save raises | appends succeed, updates do not |
| Webhooks (`webhooks/handlers.py`, `payments/idempotency_store.py`) | Redis key per provider event | two handlers | audit log | duplicated deliveries, mark before commit | handled once, and not zero times |
| Check-in (`checkin/`) | Bloom filter per process, Redis hash | mark, test, register | tickets | many processes, check then set, TTL of the whole hash | one admission per ticket |
| Rate limiter (`core/rate_limiter.py`) | Redis counter per window | `is_allowed`, `remaining` | — | get, set, incr are separate | refusals are earned, no key lasts, overshoot only by overlapping calls |
| Event cache (`events/lru_cache.py`) | ordered dictionary under a lock | get, set, invalidate | — | capacity, recency | bounded, evicts the least recent |
| Slug index (`companies/slug_index.py`) | Redis key per slug, 1 h | get, invalidate, warm | companies | no invalidation, late fills | resolves to the active company |
| Tenancy (`companies/`, `events/views.py`, `inventory/views.py`, `core/permissions.py`) | companies, members, events, tiers | view sets, permissions | accounts, hold service | whole rows written back, checks made before the write | an owner's events are his, a save changes what was asked |
| Accounts (`accounts/`) | users and their roles, claims of tokens | register, login, profile | tenancy | claims that are out of date, roles written back | a role that was taken away is gone |

The view functions of checkout, payments, tickets and check-in are stubs: the
services are the entry points, and the models take every call of them that their
signature and their comments allow. The view sets of companies, events and tiers are
complete but not routed (`config/urls.py` includes the URLs of accounts only); they are
modelled as the API they are written to be. No Celery beat schedule exists, although
`checkout/tasks.py:30` says the sweep runs every 60 seconds; the models let it run
at any time and never oblige it to.

## 2. What is modelled

```
HoldRows            rows and queries
  CreateHold        create_hold, concurrent      CreateHold_proofs
    Checkout        + release, sweep, time       Checkout_proofs
  HoldLedger        what create_hold promises (implemented by CreateHold)
RateLimiter         is_allowed, overlapping      RateLimiter_proofs
Webhooks            handlers, marks, audit log   Webhooks_proofs
TierSelector        the two searches             DataStructures_proofs
LRUCache            the event cache              DataStructures_proofs
  RecencyMap        what it promises (implemented by LRUCache)
Refunds             request_refund, admin saves  Refunds_proofs
CheckIn             filters, scan registry       CheckIn_proofs
Companies           rows of companies
  SlugIndex         the cache of slugs           Tenancy_proofs
  Tenancy           accounts, companies, events and tiers through the API
                                                 Tenancy_proofs
    Tenants         Tenancy and SlugIndex over one table of companies
                                                 Tenancy_proofs
MCCreateHold, MCCheckout, MCRateLimiter, MCWebhooks, MCTierSelector, MCRefunds,
MCCheckIn, MCTenancy        instances for TLC
```

### HoldRows
The columns of a hold (user, tier, quantity, status) and of a tier (total, held,
sold), `quantity_available`, and the sets of active holds on a tier, of a user on a
tier and of a user on an event. `Places(rows, t)` is the set of pairs
`<<hold, i>>`, one for each place an active hold keeps: its cardinality is the sum
of the quantities, in a form that both TLC and the prover can work with.

### CreateHold
One process per hold token (the code draws a fresh uuid4 per call). The stages of
`pc` are the statements of `create_hold` in order:

| Action | `services.py` | Effect |
|---|---|---|
| `LockTier` | 52 | waits for the row lock, reads the committed row into `snap` |
| `CountHolds`, `RefuseAbuse` | 55–63 | counts committed active holds, goes on or rolls back |
| `Reserve`, `RefuseSoldOut`, `RefuseNegative` | 65–78 | compares with the row read, inserts and updates (private), or rolls back; the CHECK of `PositiveIntegerField` refuses a negative quantity |
| `RegisterHold`, `PushExpiry`, `Invalidate` | 81–91 | Redis, visible at once |
| `Commit` | 93 | the hold row and the counter become visible, the lock is free |
| `AbortWaiting`, `AbortLocked` | anywhere | an error or the death of the worker: rollback, Redis stays as it is |

`tier` and `hold` are the committed tables. What a transaction wrote and did not
commit is a function of `args` and `snap`, so no variable is needed for it.

### Checkout
Extends CreateHold with `release_hold_by_token` (called for the token of a committed
hold or by `TimeoutTask`), `sweep_expired_holds`, and time:

- a release locks the hold row (`holdLock`), reads the tier **without** a lock
  (`RelReadTier`, `services.py:110`), waits for the tier lock and writes the value
  computed from that reading, deletes the registry entry, invalidates, commits;
- a sweep pops the due tokens in one step (MULTI/EXEC), reads the active holds with
  their tiers in one query (`SweepFetch`), then per hold saves the status by primary
  key, writes the tier's count from the reading of the query, deletes the entry and
  invalidates. It runs in autocommit, so every one of these steps is visible at
  once, and it may die between any two of them;
- `MakeDue` lets the expiry time of a hold pass. It does so only after the call that
  made the hold has ended: expiry is 15 minutes after the insert, and five statements
  follow the insert. `RegistryExpire` is the TTL of the entry, 60 s later.

Each release and each sweep is one invocation; their number is a bound.

### HoldLedger
A book of holds without transactions, locks, counters or Redis: `Open` enters a hold
in one step if its places are left and its user has fewer than `MaxHolds` on the tier.

### RateLimiter
One key of the cache, that is one identifier in one scope, and the calls of
`is_allowed` on it. A call is a read (`ReadNone`, `ReadSome` or `Deny`, lines 36–40)
and a later write: `SetFirst` (`cache.set(key, 1, window)`, 42) or `Incr` (44), and
`IncrMissing`, the `ValueError` that `cache.incr` raises when the key has expired
in between. `Tick` is the clock of Redis; it takes the key with it. The window is
fixed and begins with the first request, although line 2 calls it sliding: twice the
limit can be admitted within one window length around the end of a key.

Calls that overlap can also exceed the limit within one key, so `win <= Limit` is
not stated. `OvershootExplained` says by how much: a call is *stale* when another
has written since it read, and only the writes of stale calls to a live key count.

### Webhooks
Deliveries to the two handlers, each of one payment, any number of times and at once;
the order of `is_processed`, `mark_processed` and `log_action` is that of
`handlers.py`. The store is in Redis, outside the transaction of the handler: the mark
stays when the handler fails. `LogRaises` is the only way on from a mark other
than a crash: `AuditLog.save` refuses an entry with a primary key, and the default
of `id` gives every entry one. M-Pesa callbacks without an id are let through
and share one key (`NoId`); `NoCrossTalk` excludes them. Two deliveries that overlap
can both pass the check and both mark: `RetrySafe` speaks of a delivery that begins after
the handling before it has ended, and nothing stronger holds.

### TierSelector
One execution is one query of one list. `StepRight` and `StepLeft` are the loops of
`bisect_right` and `bisect_left`, step by step, because what they return on a list
that is not sorted depends on the way they take. `MetaOrdered` is the order the
database returns: `sort_order` first, then price. The searches are right on the lists
that are in order of price too (`PriceOrdered`), and never leave the list; on others they
return tiers above the budget.

### LRUCache and RecencyMap
The ordered dictionary as a sequence of keys and a value for each. All methods run
under the cache's lock, so each is one action. `RecencyMap` has no list: each key
remembers when it was last used, and a full map drops the key used longest ago.
LRUCache carries the history `uses` and `lastUse`, on which the refinement mapping
is built.

### Refunds
One process per call of `request_refund`; `rpc` follows its statements:

| Action | `refunds.py` | Effect |
|---|---|---|
| `LockPayment`, `RefuseStatus` | 43–46 | waits for the lock of the payment; refused unless it is `succeeded` |
| `PassGuard`, `RefuseCheckedIn` | 49–58 | counts the committed tickets that are checked in, without locking them |
| `MarkRefunded` | 60–66 | saves the status (private) and starts the loop over the tickets |
| `ReadTier` | 66–68 | takes the next ticket, in no fixed order, and reads `quantity_sold` of its tier without a lock |
| `UpdateTier`, `UpdateNegative` | 67–71 | waits for the row, writes one less than it read, cancels the ticket; the CHECK refuses a negative count |
| `LogFails`, `CommitRefund` | 73–85 | the log raises and all rolls back; or it returns, and the writes of the transaction become visible at once |

Since rows are locked by UPDATE in the order of the tickets, two refunds can wait for
each other: `DeadlockVictim` is PostgreSQL failing one of a cycle. The log raises
whenever it is the real one (see Webhooks) and returns when it is replaced, as in
`tests/test_refunds.py:29`; `LogOutcomes` has both, so what a refund would do is checked
and not only that it never commits. The admin site's forms save whole rows of payments and
tickets, and are the only code that checks a ticket in. `late` records which tickets were
saved since a call counted.

### CheckIn
Gates are threads, several to a process. `mark_scanned` and `might_be_scanned` go
through the positions of a fingerprint one by one, on the filter that all threads of
the process share; `register_checkin` is `HSET` and then `EXPIRE`, on a hash that all
processes share. Redis expires the whole key, between any two commands; a process may
end anywhere and starts with an empty filter. Either command may raise while the process
lives, before Redis has run it or after (`HSetFails`, `ExpireFails`): the call ends, and the
field may stay on a key that never expires. `promise` is the history of what
`register_checkin` promised: `TTL` ticks from its return, if its field lived from the one
command to the other. `settled` says that a call has returned since the key came to be.
Until then it may have no end: `ReturnGivesEnd` says that one complete call mends
what failures left, and that no later failure or death undoes it.

### Companies, SlugIndex, Tenancy
`Companies` has the rows of companies and what writes them: creation through the API
and the forms of the admin site. A name stands for its slug, as `Company.save` makes it.

`SlugIndex` is the cache of `slug_index.py`: a lookup that misses reads the table and then
sets the key, a warm-up reads all active companies and then sets their keys one after
the other, and changes of companies, invalidations and expiry come in between. No code
calls `invalidate_slug` when a company changes, and none runs `warm_slug_cache`: they are
calls that anybody may make. `outdated` and `grace` are histories: which answers a change
has overtaken, and how long an entry may therefore be wrong.

`Tenancy` is the API: a request is authenticated and passes `check_permissions`
(`Begin`), finds its object through the queryset of its view (`FindObject`), and saves or
deletes it (`SaveObject`, `DeleteObject`). These are separate database statements
outside any transaction. `Model.save` writes all columns as they were read and inserts
the row if it is gone: that is in `AskedFor` and `SaveObject`. The tables change under a
request by other requests, by administrators (users, roles, companies, events, tiers,
deletions) and by holds. `Delete` is every deletion, of the API or the admin site: the
events of a company and the tiers of an event go with it (`GoneWith`), a user who owns a
company cannot be deleted (`on_delete=PROTECT`), and a request that has read what is gone fails on a foreign key or
inserts the row again. `HoldTakes` is the locked increment of `create_hold`. A release or a
sweep writes a number that it computed from an old reading, so `HoldGivesBack` writes any
number the CHECK allows: nothing here is said about what the count should be, only whether
a request of the API may touch it. What releases and sweeps do to it is in Checkout.

Histories: `stale`, the requests whose copy another has overtaken; `demoted`, the users from
whom the role of an organizer was taken while no profile update had read it; `early`, the
requests that were under way when it was taken; `deleted`, what is gone, since no uuid
comes twice. `tokens` keeps every role a login or a refresh may still claim. `TablesGiven`
says which tables a run may begin with: what the migrations and the foreign keys allow.

`Tenants` composes the two: a change of a company by the API or an administrator is one
that the index is not told of (`CompaniesChange`), and the index leaves the tables alone.

## 3. What the runs show

| Run | Instance | Shows |
|---|---|---|
| `create_inventory` | 3 calls, 2 users, 1 tier of 2 places with 0 or 1 sold, quantities −1, 0, 1, 2, failures | counters, rows and capacity agree; a refusal for lack of places is true; a committed hold is registered and queued for expiry; CreateHold implements HoldLedger; every call ends |
| `checkout_tiers` | 3 calls of one user, 2 tiers of an event, `MaxHolds` 1, 1 release, 2 sweeps, failures | the bounds on active holds with returns; no hold is swept twice, or lost from sight except by a failed sweep; the registry follows the rows |
| `checkout_races` | 2 holds on one tier, 2 releases, 1 sweep, failures, fairness | a hold is released once and never revived; everything started ends, so hold and tier locks do not deadlock |
| `limiter_overlap` | 6 calls, limit 2, window 2, clock to 5 | every key ends; refusals are earned; what exceeds the limit is explained by stale writes |
| `webhook_retries` | 4 deliveries of 4 payments, one id at both providers, two payments without an id, failures, expiry | a redelivery after the first handling is not handled again; marks of one provider do not answer the other |
| `selector_lists` | all lists of up to 4 tiers in Meta.ordering, 3 prices, 2 values of `sort_order`, open or closed, budgets 1 to 6 | both searches are right on lists in order of price, and end inside the list on all |
| `lru_recency` | 4 keys, capacity 2, 6 uses | the dictionary keeps its order and implements RecencyMap |
| `refunds` | 2 calls, 2 payments with 3 and 2 tickets on 2 tiers, tickets counted as sold or not, a log that raises or returns, saves of two tickets and of payments by the admin site, failures, fairness | a payment is refunded once, whole or not at all; refunds make no place up; only check-ins later than the count are refunded; refunds that deadlock end |
| `gate_scans` | 3 gates in 2 processes, 2 fingerprints that share a position, TTL 2, commands that raise, restarts, expiry | the filter misses nothing its process marked; a registered scan is kept for its time; a registry for which a call has returned has an end |
| `tenancy` | 2 requests, 2 users (the second may be yet to register), 2 companies, 2 slugs, 1 event and 1 tier of one place, there at first or not, 1 change by an administrator, 1 lookup, TTL 1 | a role that was taken away stays away, whatever tokens claim; saves and deletions of events are their owners'; whatever else a save overwrites, and whatever the index gets wrong, a stale read explains |
| `oversell` (violation) | 3 calls, 1 release, no failures | finding 1 |
| `restored` (violation) | 2 calls, 1 sweep, no failures | finding 2 |

**Bounds.** Three calls are the fewest in which a third competes with the changes of
two others; a tier of two places is at its limit after one or two of them. Two
tiers are the fewest for the event bound to differ from the tier bound, and with
`MaxHolds` 1 three calls are enough to exceed it by one. Two releases, or two sweeps, allow
two owners of the same work against each other, and the runs mix them with one of
the other kind. Six limiter calls fill a limit of two, overlap, and meet a second
key after the first has expired. Four payments are one pair with the same id at
the two providers and one payment without an id at each. Lists of four make bisect
take three steps and leave room for a walk over closed tiers. Two places for four
keys evict more than once within six uses. Two refunds compete for one payment, or for the
rows of two tiers that they can lock in opposite orders; a payment with two tickets on one
tier makes a refund write a row twice, and tickets that are not counted as sold reach the
CHECK. Two gates of one process share a filter and a third has one of its own; the shared
position is set by the mark of the other fingerprint. A life of two ticks lets one gate
renew the life another has begun. Two requests can overtake each other; one change by an
administrator is enough to overtake a request: a save, a deletion or a demotion, while the
other request reads, saves or deletes too. One place has a tier with and without a hold. The
named bounds are `Tokens`, `Releases`
and `Sweeps` (invocations), `Totals`, `Solds`, `Quantities`, `Calls`, `MaxTime`,
`Deliveries`, `Payments`, `Sizes`, `Prices`, `Orders`, `Budgets`, `MaxUses`, `AdminStatuses`,
`AdminTickets`, `AdminMarks`, `Requests`, `Lookups`, `Statuses`, `MaxPlaces` and `MaxSaves`;
`TTL` is counted in ticks.

Symmetry is used in `checkout_tiers`, `limiter_overlap`, `webhook_retries`, `gate_scans` and
`tenancy`, which check no liveness property. `CHECK_DEADLOCK FALSE` stands where all invocations of an instance may have
ended; `CallsFinish`, `EverythingEnds` and `Finishes` say that calls, releases,
sweeps and searches do not stop before.

**Fairness.** Weak fairness of the steps of each started call, release and sweep: a
thread goes on, and PostgreSQL grants a lock that is free. A call waits for a lock
that a finite number of others take once each, so weak fairness is enough. A
search has the weak fairness of its own thread. Nothing is assumed of clients,
failures, the passing of time or the start of a sweep. A refund has the weak fairness of
its own statements, and PostgreSQL that of ending a deadlock (its detector runs after
`deadlock_timeout`): without the latter `RefundsEnd` is false, for two refunds that wait
for each other are stuck. The other modules state safety only and assume no fairness.

### Findings
1. **A release can cause an oversell** (`checkout/services.py:110`). The count is read
   without a lock and written as an absolute value; a hold created in between
   vanishes from `quantity_held`. Lines 5 and 11 promise the opposite.
2. **A sweep loses places** (`checkout/tasks.py:48`). All counts come from one query;
   of several holds on a tier only the last one's places are restored. Nothing else
   has to run. Line 27 promises "Restore inventory for each expired hold".

Further disagreements between the code and what it says of itself, met while
modelling. The models contain them, and the properties are stated around them:

- *The limit of two holds per event* (`checkout/services.py:55`, promised in line 9) is
  exceeded by calls on different tiers, which hold different locks. What holds, and is
  proved with releases and sweeps at work, is `EventHoldBound`.
- *The audit log never appends* (`audit/models.py:35`). `save` raises whenever a primary key
  is set, and `default=uuid4` sets it before the first save. Every webhook that is
  handled and every refund fails and is rolled back; `audit/services.py:7` and
  `tests/test_audit.py:11` expect an entry.
- *A tier above the budget is selected* (`inventory/tier_selector.py:51`). Lines 8 and 9 take
  Meta.ordering for an order of price, but `sort_order` comes first; line 41 promises a
  maximum price. `BestWithinBudget` and `ExactFound` speak of lists in order of price.
- *A refund loses places* (`payments/refunds.py:68`): two refunds on one tier that read
  before either has committed give back one count. `NoPlaceMadeUp` is the direction
  that holds. *Check-ins during a refund* (line 50) are not seen by the guard and are
  cancelled with the rest: `OnlyLateCheckIns`.
- *"Definitely not scanned"* (`checkin/bloom_guard.py:64`) is true of the process asked, and
  since its last start, only.
- *No company can be changed through the API*: `IsCompanyMember` looks for an attribute
  `company` that a company does not have, and refuses every PATCH. *No event can be
  created* through it: `company` is read-only and `perform_create` does not supply one.
  *Any organizer can change any tier*: the queryset of `TicketTierViewSet` has no owner.
- *A request overwrites what it did not mean to*: a profile update brings back the role
  that was taken away since it loaded the user, a tier update the counters of before a
  hold, and a PATCH re-inserts a row deleted meanwhile. `SavesOnlyWhatWasAsked` says that it
  takes a change between read and save, and `DemotionLasts` that nothing else brings a role
  back.
- *A registry may never expire* (`checkin/scan_registry.py:32`): `HSET` and `EXPIRE` are not
  one command. If the second fails and no call follows, the key stays; `ReturnGivesEnd` is
  what holds.
- *No code invalidates a slug* on a company update, as `slug_index.py:37` has it; the bound
  is `StaleIsBounded`.

With releases and sweeps in play no equation between counters and rows is left;
this is why `HeldMatchesActive` and `NoOversell` are stated, and proved, for
`create_hold` alone, and refuted for Checkout. A sweep that fails after its pop
leaves its tokens in no queue: `ActiveIsTracked` allows for exactly that.

## 4. What is proved

`CreateHold_proofs` proves, for any finite sets of tokens and tiers, any users,
events, capacities, `MaxHolds > 0` and any integers as quantities:

- `InventoryAlways`: `InventoryInv` is inductive. `HeldMatchesActive` and the bound
  `held + sold <= total` are not inductive by themselves: a commit adds to a count
  read many steps before. `LockDiscipline` supplies what is missing: past `LockTier`
  a call owns the lock of its tier and `snap` is still the tier's row; and from
  `Reserve` on its quantity fits and is not negative. `CommitKeeps` is the step that
  matters; `PlacesAdd` says that one more hold adds its quantity to
  the number of places. `TypeCorrect`, `HeldCorrect` and `NeverOversold` follow.
- `BoundAlways`: `AdmittedBound` counts the active holds together with the calls that
  have passed the guard. When a call passes it, it has seen fewer than `MaxHolds`
  holds, and the calls it cannot see hold the locks of different tiers
  (`CountHoldsBound`, an injection from pending calls to tiers). Every other step
  counts no new hold (`BoundMonotone`). `TierBoundHolds` and `EventBoundHolds` follow.
- `LedgerImplemented`: the refinement of HoldLedger. `Commit` is `Open`
  (`CommitOpens`), all else stutters.
- `SoldOutHonest`: the action property about refusals.
- `CommittedTracked`: `Tracked` follows the two Redis writes from the stage of a call in
  which they are made to its commit. `LockDiscipline` tells that only calls past their
  commit have rows.

`Checkout_proofs`, for any numbers of calls, releases and sweeps and any failures:

- `LifeAlways`: `LifeInv` is inductive. It speaks of rows, locks and Redis and not of the
  counters, which nothing can be said of here (findings 1 and 2). Of the five properties
  in it none is inductive alone. `ReleaseOwns` gives a release the row of its hold from
  its SELECT to its end, and the hold stays active meanwhile; a sweep's save does not wait
  for a status but waits for this lock, so two releases cannot both commit
  (`ReleasesOnce`). `SweepOwns` says what a sweep knows: what it popped is in no
  queue (`SweepsOnce`, `ActiveHoldsTracked`), belongs to calls that have ended, and is
  active only if still to do. `Pushed` keeps the two Redis writes of a call until
  its end, since nobody else knows its token. `GhostEntriesExplained` and
  `MissingEntriesExplained`, of registry and rows, follow from these.
- `ReturnedIsFinal` is the action property: a commit finds no row, a release an active
  hold, and a sweep one that no sweep has expired.
- `CheckoutBound`: a release or sweep only takes a hold from what `AdmittedBound` counts,
  and steps of a call keep it by the lemma proved for `create_hold` (`NextBound`), which
  needs of the rows no more than `Owners` and therefore not `InventoryInv`, which is false
  here. `CheckoutTierBound` and `CheckoutEventBound` follow.

`RateLimiter_proofs`, for any finite or infinite set of calls, any limit, window and
clock bound: `LimiterInv` is inductive (`LimiterAlways`). The argument is that a
call that is not stale acts on the count as it read it, or finds no key; so its
write leaves the count equal to what it claims to be, and only stale writes add to
`excuse`. `count <= win <= excuse + count` then gives `OvershootBounded`, and
`DenialsEarned`, since a denial means `count >= Limit`. `KeyEnds` needs only the
types and has its own short induction (`KeysEnd`).

`Webhooks_proofs`, for any deliveries and payments: `WebhookInv` is inductive
(`WebhookAlways`). A mark in the store comes from a handling, and a handling leaves a
mark until it expires; the conjunct about `checked` deliveries carries the check of
`CheckNew` to `Mark`. `RetriesSafe` and `AnswersOwn` follow; the latter uses that a
provider gives each payment an id of its own.

`DataStructures_proofs`, for lists of any length and any integers as prices and
budgets: `SelectorInv` (`SelectorAlways`) holds the loop invariants of both bisections
and of the walk, conditional on `PriceOrdered`; the bounds on `lo`, `hi` and `idx` are
not conditional. `BudgetQueriesRight` and `ExactQueriesRight` follow. For any keys, values
and capacity, zero included, `CacheAlways` has the cache's order ascend in the last uses of
its keys; that a key stands in it once follows. `CacheTypes` adds what makes this inductive:
no key was used later than now, so a key moved to the end is the last used. `Unlinked`
and `FrontGone` say what removal and eviction do to the order; the front is then the key
that RecencyMap drops, which is the step that matters in `LRUIsARecencyMap`.

`Refunds_proofs`, for any calls, payments, tiers and finite set of tickets: `RefundInv` is
inductive (`RefundAlways`). `OwnsPayment` is what makes it so: from `LockPayment` to its
end a call holds the lock of its payment, whose committed status is still `succeeded`, for
all who write it wait for the lock. Two calls can therefore not both commit
(`RefundsOnce`). `CheckInsAreLate` follows from the guard and from the history, which
grows with every save; `RefundsAreWhole` is an action property: of the steps of a call only
the commit touches payments and tickets. `PlacesAreNotMadeUp` needs `SoldInv`: not only the
committed count of a tier, but every count that a call has read or has written under its
lock is at least `LeastSold`, what refunds had returned, less the tickets the call itself
has dealt with (`SavedOn`). Commits of others only lower `LeastSold` (`OthersCount`), an
update lowers the count and enlarges `SavedOn` by one (`UpdateCounts`), and a commit turns
one into the other (`CommitCounts`), since no payment is refunded twice to be counted twice.

`CheckIn_proofs`, for any gates, processes, fingerprints and hash functions:
`RegistryAlways` has the promises shorter than the life of the key, and a gate whose field
has lived since its `HSET` with that field in the hash; `RegisteredIsKept` follows, and
`RegistryHasAnEnd` (`ReturnGivesEnd`) is the part about `settled`. `FilterAlways` has the bits before the position of every loop under way set, and
all bits of what was marked; a lookup that fails its test at a position therefore has a
fingerprint that was not marked before it began (`FilterHasNoFalseNegative`).

`Tenancy_proofs`, for any users, companies, events, tiers and requests, over any tables
that `TablesGiven` allows: `TenancyInv` is inductive (`TenancyAlways`). `TablesOK` has the
tables well-formed and every event with a company; `RequestsOK` that a request with an
object has read a row of the right table; `Fresh` that a request nobody has overtaken has
the row as it is, and that an event it has is of a company of its user. `DemotionInv` adds
to `DemotionLasts` that no request holds a copy in which a demoted user is an organizer,
for such a copy would bring the role back when it is saved; `DemotionHolds` is part of it.
`Known`, that whoever is demoted is in the table or among the deleted, is carried along
(`KnownStep`): a user who is added is a new one.
The action properties `SavesNothingElse` and `TenantsStayApart` follow from `Fresh` in the
state before the save. For any slugs
and lookups, over any changes of companies, `IndexInv` (`IndexAlways`) adds to
`StaleIsBounded` that what a call is still to set is what the table says, unless a change
came after its reading; `WrongEntriesEnd` follows. `TogetherAsApart` maps the steps of
Tenants to steps of each, so that all of this holds of what the run checks
(`TogetherRight`); the run's first tables are `TablesGiven` by an ASSUME of MCTenancy.

The assumptions are the named ASSUMEs of the modules: for holds, finiteness, an
event for each tier, and that the null values are no rows, arguments or tokens; for
the limiter, that limit and window are positive; for webhooks, that ids are unique within a
provider; for the selector, integers; for refunds and check-in, that tickets and gates have
their payments, tiers and processes, and fingerprints at least one position; for releases,
that they are not calls; for the cache, that its capacity is a natural number and None no
value; for the API, that users,
companies, events and tiers are different things and None is no row. TLC evaluates them in every run.

Only model-checked: liveness (`CallsFinish`, `EverythingEnds`, `Finishes`, `RefundsEnd`), which
is outside the prover's reach. Every invariant and action property of a passing run is
stated by a theorem.

## 5. Not modelled

- **Payment providers** (`payments/mpesa.py`, `lemon_squeezy.py`): HTTP requests, signatures
  and a list of addresses; I/O and cryptography. Webhooks takes their deliveries as they
  come. `parse_stk_callback` keeps no state and nothing calls it.
- **Readers of the availability cache**: `get_cached_availability` and
  `set_cached_availability` have no caller. The invalidations of the services come before
  their commits, so a reader that fills the cache in between would keep the old number for 30
  seconds; there is no such reader whose order of calls could be modelled.
- **What a gate decides**: nothing in the source calls the filter or the registry, or
  creates a row of `checkin_checkin`. CheckIn lets a gate make any call at any time, and
  says nothing of admissions.
- **The schedule of the sweep**: no beat schedule runs the sweep, so nothing says that a hold
  is ever returned; runs take the sweep as something that may happen.
- **Reads of the API, members of companies, dates of events**: they change nothing the
  modelled operations depend on. `IsCompanyMember` asks for members only after it has found
  a company, which it never does.
- **Saves of holds and tiers by the admin site**, where the counters are at stake (Checkout,
  Refunds): they may write any value over any counter.
  Deletions by the site are modelled, but not the members, dates and holds that go with a
  row. Payments and tickets protect companies, users and tiers from deletion; Tenancy has
  neither, so there every such deletion may succeed or be refused.
- **Passwords, e-mail, token signatures and expiry**: library code. A token that has expired
  only takes requests away.
- **Health checks, query audit, settings, migrations**: no state of their own.

## 6. Further work

1. What Checkout still promises of the counters: they change only for a tier that a call,
   release or sweep has locked or read, and by no more than its holds.
2. CheckIn as a refinement: one filter and one registry for all gates, and where the code's
   differ from them.
3. HoldLedger with returns, implemented by the rows of Checkout.
4. The hazards that have a note in `PROJECT.json` instead of a property.
