-------------------------- MODULE Webhooks_proofs --------------------------
(***************************************************************************)
(* Webhooks for any number of deliveries, payments and ids.                *)
(***************************************************************************)
EXTENDS Webhooks, TLAPS

\* Two payments with the same key are the same payment, or have no id.
LEMMA KeyIdentifies ==
    ASSUME NEW p \in Payments, NEW q \in Payments,
           IdemKey(p) = IdemKey(q), OrderId[p] # NoId
    PROVE  p = q
BY WebhooksAssumption DEF IdemKey

\* Every payment has a key.
LEMMA KeyType == \A p \in Payments : IdemKey(p) \in Keys
BY WebhooksAssumption DEF IdemKey, Keys, Ids

\* The inductive invariant: marks come from handlings, and handlings leave
\* marks, through overlaps, rollbacks, deaths and expiries.
THEOREM WebhookAlways == WebhookSpec => []WebhookInv
<1>1. WebhookInit => WebhookInv
  BY DEF WebhookInit, WebhookInv, WebhookTypeOK, RetrySafe, NoCrossTalk, EndedDelivery
<1>2. WebhookInv /\ [WebhookNext]_webhookVars => WebhookInv'
  <2> SUFFICES ASSUME WebhookInv, [WebhookNext]_webhookVars
               PROVE  WebhookInv'
    OBVIOUS
  <2> USE WebhooksAssumption, KeyType
      DEF WebhookInv, WebhookTypeOK, RetrySafe, NoCrossTalk, EndedDelivery
  <2>1. ASSUME NEW d \in Deliveries, Deliver(d)
        PROVE  WebhookInv'
    BY <2>1 DEF Deliver, DeliveryGoto
  <2>2. ASSUME NEW d \in Deliveries, RejectMissingId(d)
        PROVE  WebhookInv'
    BY <2>2 DEF RejectMissingId, DeliveryGoto
  <2>3. ASSUME NEW d \in Deliveries, CheckNew(d)
        PROVE  WebhookInv'
    BY <2>3 DEF CheckNew, DeliveryGoto
  <2>4. ASSUME NEW d \in Deliveries, AnswerAlready(d)
        PROVE  WebhookInv'
    <3>1. PICK e \in handled : IdemKey(about[e]) = IdemKey(about[d])
      BY <2>4 DEF AnswerAlready
    <3>2. about[d] \in Payments /\ about[e] \in Payments /\ e # d
      BY <2>4, <3>1 DEF AnswerAlready, DeliveryGoto
    <3>3. OrderId[about[d]] # NoId => about[e] = about[d]
      BY <3>1, <3>2, KeyIdentifies
    <3> QED
      BY <2>4, <3>1, <3>3 DEF AnswerAlready, DeliveryGoto
  <2>5. ASSUME NEW d \in Deliveries, Mark(d)
        PROVE  WebhookInv'
    BY <2>5 DEF Mark, DeliveryGoto
  <2>6. ASSUME NEW d \in Deliveries, LogRaises(d)
        PROVE  WebhookInv'
    BY <2>6 DEF LogRaises, DeliveryGoto
  <2>7. ASSUME NEW d \in Deliveries, DeliveryDies(d)
        PROVE  WebhookInv'
    BY <2>7 DEF DeliveryDies, DeliveryGoto
  <2>8. ASSUME NEW k \in Keys, MarkExpires(k)
        PROVE  WebhookInv'
    BY <2>8 DEF MarkExpires
  <2>9. CASE UNCHANGED webhookVars
    BY <2>9 DEF webhookVars
  <2> QED
    BY <2>1, <2>2, <2>3, <2>4, <2>5, <2>6, <2>7, <2>8, <2>9
    DEF WebhookNext, Handling
<1> QED
  BY <1>1, <1>2, PTL DEF WebhookSpec

\* A delivery that begins after a handling of its payment has ended is not
\* handled again while the mark lives.
THEOREM RetriesSafe == WebhookSpec => []RetrySafe
<1>1. WebhookInv => RetrySafe
  BY DEF WebhookInv
<1> QED
  BY <1>1, WebhookAlways, PTL

\* "Already processed" is said only of a payment that was handled itself.
THEOREM AnswersOwn == WebhookSpec => []NoCrossTalk
<1>1. WebhookInv => NoCrossTalk
  BY DEF WebhookInv
<1> QED
  BY <1>1, WebhookAlways, PTL
=============================================================================
