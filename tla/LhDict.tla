-------------------------------- MODULE LhDict --------------------------------
(***************************************************************************)
(* LH_Dict of core/utils/data_structures.c: an open-addressing table with  *)
(* linear probing.  The library keeps in it the headers of HTTP requests   *)
(* and the arguments handed to action functions.  A key that is removed    *)
(* stays in its slot as the empty string, is counted no more, and gives    *)
(* its slot back only when the table grows.  The capacity is kept in       *)
(* CapacityBits bits: a doubling may make the table smaller, or leave it   *)
(* without slots, and the next put then divides by zero.                   *)
(*                                                                         *)
(* Keys are non-empty strings; a value is a pointer, and NULL reads like   *)
(* no value.                                                               *)
(***************************************************************************)
EXTENDS Integers, Sequences, FiniteSets

CONSTANTS
  Keys,               \* the strings used as keys
  Values,             \* the pointers stored
  Hash,               \* string_hash_code of each key
  CapacityBits,       \* of max_capacity: 16
  InitialCapacities,  \* of lh_dict_new_custom_capacity
  Puts,               \* bound: the keys that are put, with their values
  Removable,          \* bound: the keys that are removed
  NoKey, NoValue,     \* NULL
  Removed             \* the empty string

ASSUME DictAssumption ==
  /\ Hash \in [Keys -> Nat]
  /\ Puts \subseteq Keys \X Values /\ Removable \subseteq Keys
  /\ CapacityBits \in Nat
  /\ InitialCapacities \subseteq 1..(2^CapacityBits - 1)
  /\ NoKey # Removed /\ {NoKey, Removed} \cap Keys = {}
  /\ NoValue \notin Values

VARIABLES
  items,     \* the slots 0, ..., max_capacity - 1, each a key and a value
  size,      \* the keys that are counted
  crashed    \* a put has written through NULL or divided by zero

vars == <<items, size, crashed>>

GrowthFactor == 2   \* DICT_INCREMENT_CAPACITY_FACTOR
CapacityMod == 2^CapacityBits

NoSlot == -1
Slot(k, v) == [key |-> k, value |-> v]
EmptyTable(capacity) == [p \in 0..(capacity - 1) |-> Slot(NoKey, NoValue)]
Capacity(t) == Cardinality(DOMAIN t)

-----------------------------------------------------------------------------
(* dict_get_entry: the first slot from the key's own on that holds the key *)
(* or nothing.                                                             *)
Probe(t, k, i) == (Hash[k] + i) % Capacity(t)

Stops(t, k, p) == t[p].key \in {NoKey, k}

Entry(t, k) ==
  IF \A p \in DOMAIN t : ~Stops(t, k, p) THEN NoSlot
  ELSE LET i == CHOOSE i \in DOMAIN t :
                  /\ Stops(t, k, Probe(t, k, i))
                  /\ \A j \in 0..(i - 1) : ~Stops(t, k, Probe(t, k, j))
       IN  Probe(t, k, i)

(* lh_dict_get                                                             *)
Get(t, k) ==
  LET p == Entry(t, k)
  IN  IF p = NoSlot THEN NoValue
      ELSE IF t[p].key = NoKey THEN NoValue ELSE t[p].value

(* The first n slots, without those that hold none of the keys.            *)
SlotsListed(t, keys, n) ==
  LET listed[p \in 0..n] ==
        IF p = 0 THEN << >>
        ELSE IF t[p - 1].key \notin keys THEN listed[p - 1]
        ELSE Append(listed[p - 1], t[p - 1])
  IN  listed[n]

(* The keys in the first n slots, removed ones among them as the empty     *)
(* string.                                                                 *)
KeysListed(t, n) ==
  LET listed == SlotsListed(t, Keys \cup {Removed}, n)
  IN  [i \in 1..Len(listed) |-> listed[i].key]

(* lh_dict_get_keys, as if it did not look at the last slot, and as it is. *)
GetKeysShort(t) == KeysListed(t, Capacity(t) - 1)

GetKeys(t) == KeysListed(t, Capacity(t))

(* What free_args_dictionary frees, and the headers http_execute_request   *)
(* sends: both go through the first size of these keys; lh_list_get gives  *)
(* NULL beyond the last one.                                               *)
Visited ==
  LET listed == GetKeys(items)
  IN  {listed[i] : i \in 1..size \cap DOMAIN listed} \cap Keys

(* size / max_capacity > DICT_MAX_LOAD_FACTOR                              *)
Overloaded(n, capacity) == 2 * n > capacity

(* The keys and values that dict_increase_and_rehash collects from t: the  *)
(* live ones, of which it has room for n.                                  *)
Collected(t, n) ==
  LET live == SlotsListed(t, Keys, Capacity(t))
  IN  IF n < Len(live) THEN SubSeq(live, 1, n) ELSE live

(* The number of live keys: size, in a table from which none was removed.  *)
Counted(t) == Cardinality({p \in DOMAIN t : t[p].key \in Keys})

(* The new capacity, as if max_capacity had a sign, and as it is.          *)
DoubledSigned(capacity) == (GrowthFactor * capacity) % (CapacityMod \div 2)

Doubled(capacity) == (GrowthFactor * capacity) % CapacityMod

(* As if the load was tested only by those who call from outside.          *)
PutAgainUnchecked(grow, u, s) ==
  IF Capacity(u) = 0 THEN u ELSE [u EXCEPT ![Entry(u, s.key)] = s]

(* lh_dict_put of a collected key into the new table u.  If that overloads *)
(* u, it grows in its turn; a table without slots is put into no more.     *)
PutAgain(grow, u, s) ==
  IF Capacity(u) = 0 THEN u
  ELSE LET filled == [u EXCEPT ![Entry(u, s.key)] = s]
           n == Counted(filled)
       IN  IF Overloaded(n, Capacity(u))
             THEN grow[<<Collected(filled, n), Doubled(Capacity(u))>>] ELSE filled

(* A new table of that capacity with what was collected, where grow is     *)
(* what makes of it another one.                                           *)
PutAll(grow, collected, capacity) ==
  LET put[i \in 0..Len(collected)] ==
        IF i = 0 THEN EmptyTable(capacity)
        ELSE PutAgain(grow, put[i - 1], collected[i])
  IN  put[Len(collected)]

(* dict_increase_and_rehash, which calls itself through lh_dict_put, but   *)
(* no deeper than CapacityBits: so many doublings make any capacity 0.     *)
LiveSlots == [key : Keys, value : Values]

Rehashed(t, n) ==
  LET grow[d \in 0..CapacityBits] ==
        [new \in Seq(LiveSlots) \X (0..(CapacityMod - 1)) |->
           IF d = 0 THEN EmptyTable(0) ELSE PutAll(grow[d - 1], new[1], new[2])]
  IN  PutAll(grow[CapacityBits], Collected(t, n), Doubled(Capacity(t)))

-----------------------------------------------------------------------------
Init ==
  /\ \E capacity \in InitialCapacities : items = EmptyTable(capacity)
  /\ size = 0
  /\ crashed = FALSE

Update(k, v, p) ==
  /\ items' = [items EXCEPT ![p] = Slot(k, v)]
  /\ UNCHANGED <<size, crashed>>

Insert(k, v, p) ==
  LET filled == [items EXCEPT ![p] = Slot(k, v)]
      grown == IF Overloaded(size + 1, Capacity(items))
                 THEN Rehashed(filled, size + 1) ELSE filled
  IN  \/ /\ Capacity(grown) > 0
         /\ items' = grown /\ size' = size + 1 /\ UNCHANGED crashed
      \/ /\ Capacity(grown) = 0
         /\ crashed' = TRUE /\ UNCHANGED <<items, size>>

(* lh_dict_put: if the table has no room for a new key there is no entry   *)
(* to write to; if it is left without slots, they are divided by.          *)
DictPut(k, v) ==
  /\ ~crashed
  /\ LET p == Entry(items, k) IN
     \/ p # NoSlot /\ items[p].key = k /\ Update(k, v, p)
     \/ p # NoSlot /\ items[p].key = NoKey /\ Insert(k, v, p)
     \/ p = NoSlot /\ crashed' = TRUE /\ UNCHANGED <<items, size>>

(* With the slot given back at once.                                       *)
DictRemoveClearing(k) ==
  /\ ~crashed
  /\ LET p == Entry(items, k) IN
     /\ p # NoSlot /\ items[p].key = k
     /\ items' = [items EXCEPT ![p] = Slot(NoKey, NoValue)]
     /\ size' = size - 1
  /\ UNCHANGED crashed

(* Without the test that the slot holds the key.                           *)
DictRemoveUnguarded(k) ==
  /\ ~crashed
  /\ LET p == Entry(items, k) IN
     /\ p # NoSlot
     /\ items' = [items EXCEPT ![p] = Slot(Removed, NoValue)]
     /\ size' = size - 1
  /\ UNCHANGED crashed

(* lh_dict_remove; a key that is not there changes nothing.                *)
DictRemove(k) ==
  /\ ~crashed
  /\ LET p == Entry(items, k) IN
     /\ p # NoSlot /\ items[p].key = k
     /\ items' = [items EXCEPT ![p] = Slot(Removed, NoValue)]
     /\ size' = size - 1
  /\ UNCHANGED crashed

Next ==
  \/ \E k \in Removable : DictRemove(k)
  \/ \E k \in Keys, v \in Values : <<k, v>> \in Puts /\ DictPut(k, v)

Spec == Init /\ [][Next]_vars
-----------------------------------------------------------------------------
(* Properties                                                              *)

TypeOK ==
  /\ Capacity(items) > 0 /\ DOMAIN items = 0..(Capacity(items) - 1)
  /\ \A p \in DOMAIN items :
       items[p] \in [key : Keys \cup {NoKey, Removed}, value : Values \cup {NoValue}]
  /\ size \in Nat /\ crashed \in BOOLEAN

Holding(k) == {p \in DOMAIN items : items[p].key = k}

(* Whatever collides, wraps around, is removed and put again, and whenever *)
(* the table grows, a lookup finds the last value put for its key and      *)
(* nothing else: the table implements a map.                               *)
Map == INSTANCE DictMap WITH contents <- [k \in Keys |-> Get(items, k)]

ImplementsMap == Map!Spec

(* size counts the slots of keys not removed, each key in one slot; so the *)
(* arrays of dict_increase_and_rehash, which are as long as size, hold all *)
(* of them and no more, and at most half of the slots are counted.         *)
SizeIsLive ==
  /\ size = Counted(items)
  /\ \A k \in Keys : Cardinality(Holding(k)) <= 1
  /\ ~Overloaded(size, Capacity(items))

(* A put crashes only if keys removed since the table last grew take up    *)
(* half of its slots or more, or if more keys are live than a quarter of   *)
(* what the capacity can count: up to there, growing alone never makes the *)
(* capacity wrap around.                                                   *)
CrashNeedsRemovalsOrWrap ==
  crashed => \/ 2 * Cardinality(Holding(Removed)) >= Capacity(items)
             \/ 4 * (size + 1) > CapacityMod

(* A loop over the first size keys visits only live keys, and misses no    *)
(* more of them than keys were removed since the table last grew: what     *)
(* free_args_dictionary does not free, and the HTTP headers not sent.      *)
LoopsMissRemoved ==
  LET live == {k \in Keys : Get(items, k) # NoValue} IN
  /\ Visited \subseteq live
  /\ Cardinality(live \ Visited) <= Cardinality(Holding(Removed))
=============================================================================
