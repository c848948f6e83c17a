-------------------------------- MODULE LhList --------------------------------
(***************************************************************************)
(* The list of core/utils/data_structures.c: an array that is doubled when *)
(* it is full.  The size and the capacity have CapacityBits bits.          *)
(***************************************************************************)
EXTENDS Integers, Sequences

CONSTANTS
  CapacityBits,    \* 16
  InitialCapacity  \* LIST_INITIAL_CAPACITY: 10

ASSUME ListAssumption ==
  /\ CapacityBits \in Nat \ {0}
  /\ InitialCapacity \in 1..(2^CapacityBits - 1)

CapacityMod == 2^CapacityBits

(* lh_list_new_custom_capacity, lh_list_new.  "stuck" is a list that can   *)
(* not be added to, "cut" one that has lost items.                         *)
NewListOf(capacity) ==
  [max |-> capacity % CapacityMod, items |-> << >>, stuck |-> FALSE, cut |-> FALSE]
NewList == NewListOf(InitialCapacity)

(* A list that was never made: a NULL pointer.                             *)
NoList == [max |-> 0, items |-> << >>, stuck |-> FALSE, cut |-> FALSE]

(* The capacity after k doublings: as if it was of a signed type, and as   *)
(* it is.                                                                  *)
DoubledSigned(max, k) == (max * 2^k) % (CapacityMod \div 2)
Doubled(max, k) == (max * 2^k) % CapacityMod

(* lh_list_add.  The first item is stored whatever the capacity.  A full   *)
(* list is doubled and lh_list_add called again, until there is room,      *)
(* which may be never; each realloc keeps only what it has room for.       *)
Add(list, e) ==
  LET size == Len(list.items)
      enough == {k \in 1..CapacityBits : Doubled(list.max, k) > size}
      last == CHOOSE k \in enough : \A n \in enough : k <= n
      appended == [list EXCEPT !.items = Append(@, e)]
  IN  IF size = 0 \/ size < list.max THEN appended
      ELSE IF enough = {} THEN [list EXCEPT !.stuck = TRUE]
      ELSE [appended EXCEPT
              !.max = Doubled(@, last),
              !.cut = @ \/ \E k \in 1..last : Doubled(list.max, k) < size]
=============================================================================
