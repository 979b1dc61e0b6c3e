----------------------------- MODULE MCWebhooks -----------------------------
(***************************************************************************)
(* TLC instances of Webhooks: two payments with the same id at the two     *)
(* providers, and one without an id at each.                               *)
(***************************************************************************)
EXTENDS Webhooks, TLC

CONSTANTS p1, p2, p3, p4, i1

WithMissing == {p1, p2, p3, p4}

PaymentProvider == (p1 :> "ls") @@ (p2 :> "mpesa") @@ (p3 :> "ls") @@ (p4 :> "mpesa")
PaymentIds == (p1 :> i1) @@ (p2 :> i1) @@ (p3 :> NoId) @@ (p4 :> NoId)

\* The same, of the payments the instance has.
ProviderOf == [p \in Payments |-> PaymentProvider[p]]
OrderIdOf == [p \in Payments |-> PaymentIds[p]]

DeliverySymmetry == Permutations(Deliveries)
=============================================================================
