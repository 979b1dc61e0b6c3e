------------------------------ MODULE MCCheckIn ------------------------------
(***************************************************************************)
(* A TLC instance of CheckIn: two gates in one process and one in another. *)
(* The fingerprints share positions.                                       *)
(***************************************************************************)
EXTENDS CheckIn, TLC

CONSTANTS g1, g2, g3, p1, p2, f1, f2

TwoProcesses == (g1 :> p1) @@ (g2 :> p1) @@ (g3 :> p2)
GateSymmetry == Permutations({g1, g2})

SharedPosition == (f1 :> <<1, 2>>) @@ (f2 :> <<2, 3>>)
=============================================================================
