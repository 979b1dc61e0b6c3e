------------------------------ MODULE Webhooks ------------------------------
(***************************************************************************)
(* webhooks.handlers, the idempotency store of payments and the audit log: *)
(* deliveries of payment events by LemonSqueezy and M-Pesa, any number of  *)
(* times and at once.  A handler is a transaction, but the store is in     *)
(* Redis: a mark is visible at once and survives a rollback.               *)
(***************************************************************************)
EXTENDS Naturals, FiniteSets

CONSTANTS
    Deliveries,   \* bound: calls of a handler
    Payments,     \* the payments that events report
    Provider,     \* payment -> "ls" or "mpesa"
    OrderId,      \* payment -> order id or CheckoutRequestID, or NoId
    NoId,         \* the payload has no id: the empty string
    None

Providers == {"ls", "mpesa"}
Ids == {OrderId[p] : p \in Payments} \ {NoId}

\* A provider gives each payment an id of its own; the two may use the same.
ASSUME WebhooksAssumption ==
    /\ Provider \in [Payments -> Providers]
    /\ DOMAIN OrderId = Payments
    /\ \A p, q \in Payments :
          /\ p # q
          /\ Provider[p] = Provider[q]
          /\ OrderId[p] # NoId
          => OrderId[p] # OrderId[q]
    /\ None \notin Payments

Keys == Providers \X (Ids \cup {NoId})

VARIABLES
    store,      \* keys idem:payment:<key> of Redis
    dpc,        \* where each delivery stands
    about,      \* the payment it reports
    handled,    \* history: deliveries that got past the check and marked
    before,     \* history: deliveries that had ended when this one began
    expired     \* history: keys whose mark has expired

webhookVars == <<store, dpc, about, handled, before, expired>>

EndedDelivery == {"already", "rejected", "failed"}

WebhookInit ==
    /\ store = {}
    /\ dpc = [d \in Deliveries |-> "idle"]
    /\ about = [d \in Deliveries |-> None]
    /\ handled = {}
    /\ before = [d \in Deliveries |-> {}]
    /\ expired = {}

-----------------------------------------------------------------------------
DeliveryGoto(d, from, to) ==
    /\ dpc[d] = from
    /\ dpc' = [dpc EXCEPT ![d] = to]

Deliver(d) ==
    /\ DeliveryGoto(d, "idle", "start")
    /\ \E p \in Payments : about' = [about EXCEPT ![d] = p]
    /\ before' = [before EXCEPT ![d] = {e \in Deliveries : dpc[e] \in EndedDelivery}]
    /\ UNCHANGED <<store, handled, expired>>

\* Mutant: a key without the prefix of the provider.
KeyUnprefixed(p) == <<"ls", OrderId[p]>>

\* f'ls:{order_id}', f'mpesa:{checkout_request_id}'
IdemKey(p) == <<Provider[p], OrderId[p]>>

\* Only the LemonSqueezy handler insists on an id.
RejectMissingId(d) ==
    /\ DeliveryGoto(d, "start", "rejected")
    /\ Provider[about[d]] = "ls"
    /\ OrderId[about[d]] = NoId
    /\ UNCHANGED <<store, about, handled, before, expired>>

HasNeededId(p) == Provider[p] = "ls" => OrderId[p] # NoId

\* is_processed
CheckNew(d) ==
    /\ DeliveryGoto(d, "start", "checked")
    /\ HasNeededId(about[d])
    /\ IdemKey(about[d]) \notin store
    /\ UNCHANGED <<store, about, handled, before, expired>>

AnswerAlready(d) ==
    /\ DeliveryGoto(d, "start", "already")
    /\ HasNeededId(about[d])
    /\ IdemKey(about[d]) \in store
    /\ UNCHANGED <<store, about, handled, before, expired>>

\* Mutant: the handler of one provider marks the key of the other.
MarkOther(d) ==
    /\ DeliveryGoto(d, "checked", "marked")
    /\ store' = store \cup {<<"ls", OrderId[about[d]]>>}
    /\ handled' = handled \cup {d}
    /\ UNCHANGED <<about, before, expired>>

\* mark_processed
Mark(d) ==
    /\ DeliveryGoto(d, "checked", "marked")
    /\ store' = store \cup {IdemKey(about[d])}
    /\ handled' = handled \cup {d}
    /\ UNCHANGED <<about, before, expired>>

\* log_action creates an AuditLog, whose id has a default, and saves it; save
\* refuses an entry that has a primary key.  The ValueError leaves the handler
\* and rolls its transaction back; the mark stays.
LogRaises(d) ==
    /\ DeliveryGoto(d, "marked", "failed")
    /\ UNCHANGED <<store, about, handled, before, expired>>

\* Redis or the database fails, or the worker dies.
DeliveryDies(d) ==
    /\ \E s \in {"start", "checked", "marked"} : DeliveryGoto(d, s, "failed")
    /\ UNCHANGED <<store, about, handled, before, expired>>

\* IDEM_TTL, seven days after the mark.
MarkExpires(k) ==
    /\ k \in store
    /\ store' = store \ {k}
    /\ expired' = expired \cup {k}
    /\ UNCHANGED <<dpc, about, handled, before>>

Handling ==
    \E d \in Deliveries :
        \/ Deliver(d)
        \/ RejectMissingId(d)
        \/ CheckNew(d)
        \/ AnswerAlready(d)
        \/ Mark(d)
        \/ LogRaises(d)

WebhookNext ==
    \/ Handling
    \/ \E d \in Deliveries : DeliveryDies(d)
    \/ \E k \in Keys : MarkExpires(k)

WebhookSpec == WebhookInit /\ [][WebhookNext]_webhookVars
-----------------------------------------------------------------------------
WebhookTypeOK ==
    /\ store \subseteq Keys
    /\ expired \subseteq Keys
    /\ dpc \in [Deliveries -> {"idle", "start", "checked", "marked"} \cup EndedDelivery]
    /\ about \in [Deliveries -> Payments \cup {None}]
    /\ handled \subseteq Deliveries
    /\ before \in [Deliveries -> SUBSET Deliveries]

\* A redelivery that begins after the first handling has ended, however that
\* ended, is not handled again within the life of the mark (handlers.py:57,
\* "to prevent double-issue on crash-retry").
RetrySafe ==
    \A d \in handled : \A e \in before[d] \cap handled :
        about[e] = about[d] => IdemKey(about[d]) \in expired

\* A payment is answered "already processed" only on account of a handling of
\* this payment, never of one of the other provider with the same id.  It
\* needs an id: M-Pesa callbacks without one share a key.
NoCrossTalk ==
    \A d \in Deliveries :
        dpc[d] = "already" /\ OrderId[about[d]] # NoId =>
            \E e \in handled : about[e] = about[d]

\* The inductive invariant behind them: a mark comes from a handling, and a
\* handling leaves a mark until it expires.
WebhookInv ==
    /\ WebhookTypeOK
    /\ \A d \in Deliveries : dpc[d] # "idle" => about[d] \in Payments
    /\ \A d \in Deliveries : dpc[d] = "idle" => d \notin handled
    /\ \A d \in handled : /\ dpc[d] \in {"marked", "failed"}
                          /\ IdemKey(about[d]) \in store \cup expired
    /\ \A k \in store : \E e \in handled : IdemKey(about[e]) = k
    /\ \A d \in Deliveries : \A e \in before[d] : dpc[e] \in EndedDelivery
    /\ \A d \in Deliveries :
          dpc[d] = "checked" =>
            \A e \in before[d] \cap handled :
                about[e] = about[d] => IdemKey(about[d]) \in expired
    /\ RetrySafe
    /\ NoCrossTalk
=============================================================================
