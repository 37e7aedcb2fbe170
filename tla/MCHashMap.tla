------------------------------ MODULE MCHashMap ------------------------------
(***************************************************************************)
(* Keys whose homes collide in a small array and part in a larger one: the *)
(* first three start at the last slot of four and wrap around; of   *)
(* eight slots, two start at slot 3 and two at slot 7.                     *)
(***************************************************************************)
EXTENDS HashMap, TLC

CONSTANTS k1, k2, k3, k4, k5, k6

MCKeys == {k1, k2, k3, k4, k5, k6}
MCHash == (k1 :> 3) @@ (k2 :> 7) @@ (k3 :> 11) @@ (k4 :> 0) @@ (k5 :> 15) @@ (k6 :> 14)
=============================================================================
