------------------------------ MODULE MCRefunds ------------------------------
(***************************************************************************)
(* A TLC instance of Refunds: two payments with tickets on two tiers, so   *)
(* that their refunds can lock the tiers in opposite orders; one of them   *)
(* has two tickets on one tier, so that its refund writes a row twice.     *)
(***************************************************************************)
EXTENDS Refunds, TLC

CONSTANTS p1, p2, k1, k2, k3, k4, k5, t1, t2

ThreeAndTwo ==
    (k1 :> p1) @@ (k2 :> p1) @@ (k3 :> p1) @@ (k4 :> p2) @@ (k5 :> p2)
Crossed ==
    (k1 :> t1) @@ (k2 :> t1) @@ (k3 :> t2) @@ (k4 :> t1) @@ (k5 :> t2)
=============================================================================
