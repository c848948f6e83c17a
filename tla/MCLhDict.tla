------------------------------ MODULE MCLhDict ------------------------------
(***************************************************************************)
(* A small instance of LhDict.                                             *)
(***************************************************************************)
EXTENDS LhDict, TLC

CONSTANTS k1, k2, k3, k4, k5, k6   \* model values: keys

SixKeys == {k1, k2, k3, k4, k5, k6}

(* k1 and k2 collide in the last slot of a table of 11, k2 and k5 in that  *)
(* of one of 2, 4 or 8, so that their search wraps around; k5 and k6, k1   *)
(* and k3 collide in other slots.                                          *)
Collisions ==
  (k1 :> 10) @@ (k2 :> 87) @@ (k3 :> 2) @@ (k4 :> 4) @@ (k5 :> 7) @@ (k6 :> 18)

(* One value for each key, and a second one for k1.                        *)
MostPuts == (SixKeys \X {1}) \cup {<<k1, 2>>}

TheThird == {k3}
=============================================================================
