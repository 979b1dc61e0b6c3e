------------------------------- MODULE Refunds -------------------------------
(***************************************************************************)
(* payments.refunds.request_refund, called concurrently.  A refund is one  *)
(* transaction of PostgreSQL (READ COMMITTED): what it wrote is seen by    *)
(* others from its commit on, and the rows it wrote stay locked until it   *)
(* ends.  The admin site saves payments and tickets meanwhile.             *)
(*                                                                         *)
(* The last statement is log_action.  As AuditLog.save stands it raises    *)
(* whatever it is given (see Webhooks), and so no refund commits; the      *)
(* tests replace it by one that returns (tests/test_refunds.py:29).  Both  *)
(* are modelled, by LogOutcomes.                                           *)
(***************************************************************************)
EXTENDS Integers, FiniteSets

CONSTANTS
    Calls,          \* bound: invocations of request_refund
    Payments,
    Tickets,
    Tiers,
    PaymentOf,      \* ticket -> payment
    TierOf,         \* ticket -> tier
    LogOutcomes,    \* what log_action does: "raises", "returns"
    AdminStatuses,  \* bound: the statuses an administrator gives to payments
    AdminTickets,   \* bound: the tickets an administrator saves
    AdminMarks,     \* bound: the statuses given to them
    Free,           \* the owner of a row that is not locked
    None

PaymentStatus ==
    {"pending", "processing", "succeeded", "failed", "refunded", "disputed"}

TicketStatus == {"issued", "checked_in", "cancelled", "transferred"}

ASSUME RefundsAssumption ==
    /\ PaymentOf \in [Tickets -> Payments]
    /\ TierOf \in [Tickets -> Tiers]
    /\ IsFiniteSet(Tickets)
    /\ LogOutcomes \subseteq {"raises", "returns"}
    /\ AdminStatuses \subseteq PaymentStatus
    /\ AdminTickets \subseteq Tickets
    /\ AdminMarks \subseteq TicketStatus
    /\ Free \notin Calls
    /\ None \notin Payments \cup Tickets

TicketsOf(p) == {k \in Tickets : PaymentOf[k] = p}

VARIABLES
    payment,        \* committed: payment -> status
    ticket,         \* committed: ticket -> status
    sold,           \* committed: tier -> quantity_sold
    paymentLock,    \* payment -> the call that holds the row, or Free
    tierLock,       \* tier -> the call that has written the row, or Free
    rpc,            \* where each call stands
    about,          \* the payment it refunds
    todo,           \* the tickets its loop has not reached
    at,             \* the ticket of this round of the loop
    read,           \* quantity_sold of its tier, as the call read it
    mine,           \* call -> tier -> quantity_sold as the call wrote it
    first,          \* history: quantity_sold at first
    late            \* history: tickets saved by others since the call counted

committed  == <<payment, ticket, sold>>
locks      == <<paymentLock, tierLock>>
loopVars   == <<todo, at, read, mine>>
refundVars == <<committed, locks, rpc, about, loopVars, first, late>>

EndedRefund == {"not_succeeded", "post_checkin", "failed", "refunded"}

\* Past the count of the tickets that are checked in.
Past == {"mark", "loop", "update", "log"}

\* Nothing in the repository counts a ticket as sold; administrators may.
RefundInit ==
    /\ payment \in [Payments -> {"succeeded", "pending"}]
    /\ ticket = [k \in Tickets |-> "issued"]
    /\ \/ sold = [t \in Tiers |-> 0]
       \/ sold = [t \in Tiers |-> Cardinality({k \in Tickets : TierOf[k] = t})]
    /\ paymentLock = [p \in Payments |-> Free]
    /\ tierLock = [t \in Tiers |-> Free]
    /\ rpc = [r \in Calls |-> "idle"]
    /\ about = [r \in Calls |-> None]
    /\ todo = [r \in Calls |-> {}]
    /\ at = [r \in Calls |-> None]
    /\ read = [r \in Calls |-> 0]
    /\ mine = [r \in Calls |-> [t \in Tiers |-> 0]]
    /\ first = sold
    /\ late = [r \in Calls |-> {}]

-----------------------------------------------------------------------------
RefundGoto(r, from, to) ==
    /\ rpc[r] = from
    /\ rpc' = [rpc EXCEPT ![r] = to]

\* The end of the transaction, either way: its row locks are free, and what the
\* call knew is forgotten.
Unlock(r) ==
    /\ paymentLock' = [p \in Payments |->
                          IF paymentLock[p] = r THEN Free ELSE paymentLock[p]]
    /\ tierLock' = [t \in Tiers |-> IF tierLock[t] = r THEN Free ELSE tierLock[t]]
    /\ todo' = [todo EXCEPT ![r] = {}]
    /\ at' = [at EXCEPT ![r] = None]
    /\ read' = [read EXCEPT ![r] = 0]
    /\ mine' = [mine EXCEPT ![r] = [t \in Tiers |-> 0]]
    /\ late' = [late EXCEPT ![r] = {}]
    /\ UNCHANGED <<about, first>>

RollbackRefund(r, from, to) ==
    /\ RefundGoto(r, from, to)
    /\ Unlock(r)
    /\ UNCHANGED committed

RefundCall(r) ==
    /\ RefundGoto(r, "idle", "start")
    /\ \E p \in Payments : about' = [about EXCEPT ![r] = p]
    /\ UNCHANGED <<committed, locks, loopVars, first, late>>

\* Mutant: get() without select_for_update().
ReadPayment(r) ==
    /\ RefundGoto(r, "start", "count")
    /\ payment[about[r]] = "succeeded"
    /\ UNCHANGED <<committed, locks, about, loopVars, first, late>>

\* select_for_update().get(), and the status is right.
LockPayment(r) ==
    /\ RefundGoto(r, "start", "count")
    /\ paymentLock[about[r]] = Free
    /\ payment[about[r]] = "succeeded"
    /\ paymentLock' = [paymentLock EXCEPT ![about[r]] = r]
    /\ UNCHANGED <<committed, tierLock, about, loopVars, first, late>>

RefuseStatus(r) ==
    /\ RollbackRefund(r, "start", "not_succeeded")
    /\ paymentLock[about[r]] = Free
    /\ payment[about[r]] # "succeeded"

CheckedIn(p) == {k \in TicketsOf(p) : ticket[k] = "checked_in"}

\* Mutant: one ticket that is checked in is let through.
MostUnused(r) == Cardinality(CheckedIn(about[r])) <= 1

AllUnused(r) == CheckedIn(about[r]) = {}

PassGuard(r) ==
    /\ RefundGoto(r, "count", "mark")
    /\ AllUnused(r)
    /\ late' = [late EXCEPT ![r] = {}]
    /\ UNCHANGED <<committed, locks, about, loopVars, first>>

RefuseCheckedIn(r) ==
    /\ RollbackRefund(r, "count", "post_checkin")
    /\ ~AllUnused(r)

NextRound(tickets) == IF tickets = {} THEN "log" ELSE "loop"

\* Mutant: without @transaction.atomic the save is visible at once.
MarkAtOnce(r) ==
    /\ RefundGoto(r, "mark", NextRound(TicketsOf(about[r])))
    /\ payment' = [payment EXCEPT ![about[r]] = "refunded"]
    /\ todo' = [todo EXCEPT ![r] = TicketsOf(about[r])]
    /\ UNCHANGED <<ticket, sold, locks, about, at, read, mine, first, late>>

\* payment.save(), not committed; and the query of the loop.
MarkRefunded(r) ==
    /\ RefundGoto(r, "mark", NextRound(TicketsOf(about[r])))
    /\ todo' = [todo EXCEPT ![r] = TicketsOf(about[r])]
    /\ UNCHANGED <<committed, locks, about, at, read, mine, first, late>>

\* quantity_sold as the transaction sees it: its own write, or what is committed.
SoldSeen(r, t) == IF tierLock[t] = r THEN mine[r][t] ELSE sold[t]

\* The next ticket, in no order the query fixes; ticket.tier is read, unlocked.
ReadTier(r) ==
    /\ RefundGoto(r, "loop", "update")
    /\ \E k \in todo[r] :
          /\ at' = [at EXCEPT ![r] = k]
          /\ todo' = [todo EXCEPT ![r] = @ \ {k}]
          /\ read' = [read EXCEPT ![r] = SoldSeen(r, TierOf[k])]
    /\ UNCHANGED <<committed, locks, about, mine, first, late>>

TierAt(r) == TierOf[at[r]]

\* Mutant: a lock that its owner cannot take again.
TierUntouched(r) == tierLock[TierAt(r)] = Free

MayWriteTier(r) == tierLock[TierAt(r)] \in {Free, r}

\* Mutant: the places of all tickets of the payment, for each of them.
FewerByAll(r) == read[r] - Cardinality(TicketsOf(about[r]))

FewerSold(r) == read[r] - 1

\* update(quantity_sold=...), once the lock of the row is free; then
\* ticket.save(update_fields=['status']), which waits for no other call: those
\* of the same payment wait for its row.
UpdateTier(r) ==
    /\ RefundGoto(r, "update", NextRound(todo[r]))
    /\ MayWriteTier(r)
    /\ FewerSold(r) >= 0
    /\ tierLock' = [tierLock EXCEPT ![TierAt(r)] = r]
    /\ mine' = [mine EXCEPT ![r][TierAt(r)] = FewerSold(r)]
    /\ UNCHANGED <<committed, paymentLock, about, todo, at, read, first, late>>

\* The CHECK of PositiveIntegerField refuses the update.
UpdateNegative(r) ==
    /\ RollbackRefund(r, "update", "failed")
    /\ MayWriteTier(r)
    /\ FewerSold(r) < 0

LogFails(r) ==
    /\ "raises" \in LogOutcomes
    /\ RollbackRefund(r, "log", "failed")

\* Everything the transaction wrote, at once.
CommitRefund(r) ==
    /\ "returns" \in LogOutcomes
    /\ RefundGoto(r, "log", "refunded")
    /\ payment' = [payment EXCEPT ![about[r]] = "refunded"]
    /\ ticket' = [k \in Tickets |->
                    IF k \in TicketsOf(about[r]) THEN "cancelled" ELSE ticket[k]]
    /\ sold' = [t \in Tiers |-> SoldSeen(r, t)]
    /\ Unlock(r)

\* The database fails, or the worker dies.
RefundDies(r) ==
    \E s \in {"start", "count"} \cup Past : RollbackRefund(r, s, "failed")

Blocked(r) == rpc[r] = "update" /\ ~MayWriteTier(r)

\* PostgreSQL ends a cycle of transactions, each of which waits for the lock of
\* another, by making one of them fail.
DeadlockVictim(r) ==
    /\ \E cycle \in SUBSET {q \in Calls : Blocked(q)} :
          /\ r \in cycle
          /\ \A q \in cycle : tierLock[TierAt(q)] # q
          /\ cycle = {tierLock[TierAt(q)] : q \in cycle}
    /\ RollbackRefund(r, "update", "failed")

InLoop == {"loop", "update", "log"}

\* The tickets the loop has dealt with.
SavedBy(r) == {k \in TicketsOf(about[r]) \ todo[r] : rpc[r] = "update" => k # at[r]}

\* Saved tickets are locked until the transaction ends.
TicketLocked(k) == \E r \in Calls : rpc[r] \in InLoop /\ k \in SavedBy(r)

\* The form of the admin site saves the whole row, status included.
AdminSavesTicket ==
    \E k \in AdminTickets, s \in AdminMarks :
        /\ ~TicketLocked(k)
        /\ ticket' = [ticket EXCEPT ![k] = s]
        /\ late' = [r \in Calls |->
                      IF rpc[r] \in Past THEN late[r] \cup {k} ELSE late[r]]
        /\ UNCHANGED <<payment, sold, locks, rpc, about, loopVars, first>>

AdminSavesPayment ==
    \E p \in Payments, s \in AdminStatuses :
        /\ paymentLock[p] = Free
        /\ payment' = [payment EXCEPT ![p] = s]
        /\ UNCHANGED <<ticket, sold, locks, rpc, about, loopVars, first, late>>

RefundStep(r) ==
    \/ LockPayment(r) \/ RefuseStatus(r)
    \/ PassGuard(r) \/ RefuseCheckedIn(r)
    \/ MarkRefunded(r)
    \/ ReadTier(r) \/ UpdateTier(r) \/ UpdateNegative(r)
    \/ LogFails(r) \/ CommitRefund(r)

RefundNext ==
    \/ \E r \in Calls : \/ RefundCall(r)
                        \/ RefundStep(r)
                        \/ RefundDies(r)
                        \/ DeadlockVictim(r)
    \/ AdminSavesTicket
    \/ AdminSavesPayment

\* A thread goes on when it can, and PostgreSQL looks for deadlocks.
RefundFairness ==
    /\ \A r \in Calls : WF_refundVars(RefundStep(r))
    /\ WF_refundVars(\E r \in Calls : DeadlockVictim(r))

RefundSafety == RefundInit /\ [][RefundNext]_refundVars
RefundSpec   == RefundSafety /\ RefundFairness
-----------------------------------------------------------------------------
RefundTypeOK ==
    /\ payment \in [Payments -> PaymentStatus]
    /\ ticket \in [Tickets -> TicketStatus]
    /\ sold \in [Tiers -> Nat]
    /\ first \in [Tiers -> Nat]
    /\ paymentLock \in [Payments -> Calls \cup {Free}]
    /\ tierLock \in [Tiers -> Calls \cup {Free}]
    /\ rpc \in [Calls -> {"idle", "start", "count"} \cup Past \cup EndedRefund]
    /\ about \in [Calls -> Payments \cup {None}]
    /\ todo \in [Calls -> SUBSET Tickets]
    /\ at \in [Calls -> Tickets \cup {None}]
    /\ read \in [Calls -> Nat]
    /\ mine \in [Calls -> [Tiers -> Nat]]
    /\ late \in [Calls -> SUBSET Tickets]

\* A payment is refunded once, however many calls compete for it, as long as
\* no administrator sets it back (refunds.py:43-46).
RefundedOnce ==
    "succeeded" \notin AdminStatuses =>
        \A r, q \in Calls :
            rpc[r] = "refunded" /\ rpc[q] = "refunded" /\ about[r] = about[q] => r = q

\* "Atomic: payment status + inventory restoration in single transaction"
\* (refunds.py:6): payment and tickets change together or not at all, even
\* when the last of many statements fails.
RefundIsWhole ==
    [][\A p \in Payments :
         (\E r \in Calls : about[r] = p /\ rpc'[r] # rpc[r]) =>
             /\ payment'[p] # payment[p] =>
                   \A k \in TicketsOf(p) : ticket'[k] = "cancelled"
             /\ (\E k \in TicketsOf(p) : ticket'[k] # ticket[k]) =>
                   payment'[p] = "refunded"]_refundVars

\* A refund takes no ticket that was checked in when it counted: those that
\* are checked in by now were saved since (refunds.py:49-58).  Nothing locks
\* them, and a refund does cancel those.
OnlyLateCheckIns ==
    \A r \in Calls :
        rpc[r] \in Past => CheckedIn(about[r]) \subseteq late[r]

\* Refunds never return more places than the tickets they cancelled, although
\* each writes a count that it read without a lock; updates that overlap lose
\* places, and never make any up (refunds.py:67-69).
ReturnedOn(t) ==
    {pair \in Calls \X {k \in Tickets : TierOf[k] = t} :
        rpc[pair[1]] = "refunded" /\ PaymentOf[pair[2]] = about[pair[1]]}

NoPlaceMadeUp ==
    \A t \in Tiers : sold[t] >= first[t] - Cardinality(ReturnedOn(t))

\* Every refund ends: refunds that lock tiers in different orders wait for each
\* other only until PostgreSQL fails one of them (refunds.py:66-69).
RefundsEnd == \A r \in Calls : rpc[r] = "start" ~> rpc[r] \in EndedRefund

\* The inductive invariant: from the lock of its payment to its end a call owns
\* the row, which nobody changes; what a refund committed is no longer succeeded.
OwnsPayment ==
    /\ \A r \in Calls :
          /\ rpc[r] # "idle" => about[r] \in Payments
          /\ rpc[r] = "update" => at[r] \in Tickets
          /\ rpc[r] \in {"count"} \cup Past =>
                paymentLock[about[r]] = r /\ payment[about[r]] = "succeeded"

RefundedStays ==
    "succeeded" \notin AdminStatuses =>
        \A r \in Calls : rpc[r] = "refunded" => payment[about[r]] # "succeeded"

RefundInv ==
    RefundTypeOK /\ OwnsPayment /\ RefundedStays /\ RefundedOnce /\ OnlyLateCheckIns

\* What NoPlaceMadeUp needs to be inductive: a count that a call has read or
\* written is down by the tickets it has dealt with, and by those that refunds
\* had returned, and more may have been returned since.
LeastSold(t) == first[t] - Cardinality(ReturnedOn(t))

SavedOn(r, t) == {k \in SavedBy(r) : TierOf[k] = t}

CallCounts(r) ==
    /\ rpc[r] \in InLoop => todo[r] \subseteq TicketsOf(about[r])
    /\ rpc[r] = "log" => todo[r] = {}
    /\ rpc[r] = "update" =>
          /\ at[r] \in TicketsOf(about[r]) \ todo[r]
          /\ read[r] >= LeastSold(TierAt(r)) - Cardinality(SavedOn(r, TierAt(r)))
    /\ \A t \in Tiers : tierLock[t] = r =>
          /\ rpc[r] \in InLoop
          /\ mine[r][t] >= LeastSold(t) - Cardinality(SavedOn(r, t))

SoldInv ==
    /\ NoPlaceMadeUp
    /\ \A t \in Tiers : IsFiniteSet(ReturnedOn(t))
    /\ \A r \in Calls : CallCounts(r)
=============================================================================
