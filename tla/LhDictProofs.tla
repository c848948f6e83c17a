----------------------------- MODULE LhDictProofs -----------------------------
(***************************************************************************)
(* Theorems about LhDict for any keys, values, hash codes and initial      *)
(* capacity, and a capacity that is kept in any number of bits.            *)
(***************************************************************************)
EXTENDS LhDict, FiniteSetTheorems, NumberTheorems

-----------------------------------------------------------------------------
(* Tables and the places of keys in them                                   *)

(* A live key has a value; the other slots have none.                      *)
Slots == LiveSlots \cup [key : {NoKey, Removed}, value : {NoValue}]

Table(C) == [0..(C - 1) -> Slots]

(* The slot that dict_get_entry looks at when it has gone on i times.      *)
Place(C, k, i) == (Hash[k] + i) % C

(* It looks at slot p, for k: none of those before it stops it.            *)
Reached(t, C, k, p) ==
  \E i \in 0..(C - 1) :
    /\ Place(C, k, i) = p
    /\ \A j \in 0..(i - 1) : ~Stops(t, k, Place(C, k, j))

(* Every key in the table is found in its slot.                            *)
Findable(t, C) ==
  \A p \in 0..(C - 1) : t[p].key \in Keys => Reached(t, C, t[p].key, p)

Live(t, C) == {p \in 0..(C - 1) : t[p].key \in Keys}

(* A table has as many slots as it has.                                    *)
LEMMA CapacityIs ==
  ASSUME NEW C \in Nat \ {0}, NEW t \in Table(C)
  PROVE  Capacity(t) = C /\ DOMAIN t = 0..(C - 1)
<1>1. DOMAIN t = 0..(C - 1)
  BY DEF Table
<1>2. 0 \in Int /\ C - 1 \in Int
  OBVIOUS
<1>3. Cardinality(0..(C - 1)) = IF 0 > C - 1 THEN 0 ELSE (C - 1) - 0 + 1
  BY <1>2, FS_Interval
<1>4. Cardinality(0..(C - 1)) = C
  BY <1>3
<1> QED
  BY <1>1, <1>4 DEF Capacity

(* The keys are neither NULL nor empty.                                    *)
LEMMA KeysAreNot ==
  /\ NoKey \notin Keys /\ Removed \notin Keys /\ NoKey # Removed
  /\ NoValue \notin Values
BY DictAssumption

(* Every place is a slot, and every slot is a place of every key.          *)
LEMMA PlaceType ==
  ASSUME NEW C \in Nat \ {0}, NEW k \in Keys, NEW i \in Nat
  PROVE  Place(C, k, i) \in 0..(C - 1)
<1>1. Hash[k] + i \in Int
  BY DictAssumption
<1> QED
  BY <1>1, ModDef DEF Place

(* Every slot is a place of every key.                                     *)
LEMMA PlacesAreAll ==
  ASSUME NEW C \in Nat \ {0}, NEW k \in Keys, NEW p \in 0..(C - 1)
  PROVE  \E i \in 0..(C - 1) : Place(C, k, i) = p
<1>1. PICK h \in Nat : h = Hash[k]
  BY DictAssumption
<1>2. p - h \in Int /\ h \in Int
  BY <1>1
<1>3. PICK i \in 0..(C - 1) : i = (p - h) % C
  BY <1>2, ModDef
<1>4. (((p - h) % C) + h) % C = ((p - h) + h) % C
  BY <1>2, ModAdd
<1>5. (p - h) + h = p /\ i + h = h + i
  BY <1>1
<1>6. p % C = p
  BY ModSmall
<1>7. (h + i) % C = p
  BY <1>3, <1>4, <1>5, <1>6
<1> QED
  BY <1>1, <1>7 DEF Place

(* What dict_get_entry returns: the slot that it reaches and that stops    *)
(* it, if there is one.                                                    *)
LEMMA EntryIs ==
  ASSUME NEW C \in Nat \ {0}, NEW t \in Table(C), NEW k \in Keys
  PROVE  \/ /\ Entry(t, k) = NoSlot
            /\ \A p \in 0..(C - 1) : ~Stops(t, k, p)
         \/ /\ Entry(t, k) \in 0..(C - 1)
            /\ Stops(t, k, Entry(t, k))
            /\ Reached(t, C, k, Entry(t, k))
<1>1. Capacity(t) = C /\ DOMAIN t = 0..(C - 1)
  BY CapacityIs
<1>2. \A i \in Nat : Probe(t, k, i) = Place(C, k, i)
  BY <1>1 DEF Probe, Place
<1> DEFINE First(i) == /\ Stops(t, k, Probe(t, k, i))
                       /\ \A j \in 0..(i - 1) : ~Stops(t, k, Probe(t, k, j))
<1>3. CASE \A p \in 0..(C - 1) : ~Stops(t, k, p)
  BY <1>1, <1>3 DEF Entry
<1>4. CASE \E p \in 0..(C - 1) : Stops(t, k, p)
  <2> DEFINE T == {i \in 0..(C - 1) : Stops(t, k, Probe(t, k, i))}
  <2>1. T # {}
    <3>1. PICK p \in 0..(C - 1) : Stops(t, k, p)
      BY <1>4
    <3>2. PICK i \in 0..(C - 1) : Place(C, k, i) = p
      BY PlacesAreAll
    <3> QED
      BY <1>2, <3>1, <3>2
  <2>2. PICK x \in T : \A y \in T : x <= y
    <3>1. T \in SUBSET Nat
      OBVIOUS
    <3> HIDE DEF T
    <3> QED
      BY <2>1, <3>1, LeastNatural
  <2>3. x \in 0..(C - 1) /\ First(x)
    <3>1. ASSUME NEW j \in 0..(x - 1), Stops(t, k, Probe(t, k, j)) PROVE FALSE
      <4>1. j \in T
        BY <3>1
      <4> QED
        BY <2>2, <4>1
    <3> QED
      BY <3>1
  <2> DEFINE i == CHOOSE i \in 0..(C - 1) : First(i)
  <2>4. i \in 0..(C - 1) /\ First(i)
    <3> HIDE DEF First
    <3> QED
      BY <2>3
  <2>5. Entry(t, k) = Probe(t, k, i)
    BY <1>1, <1>4 DEF Entry
  <2> HIDE DEF i
  <2>6. Probe(t, k, i) = Place(C, k, i) /\ Place(C, k, i) \in 0..(C - 1)
    BY <1>2, <2>4, PlaceType
  <2>7. \A j \in 0..(i - 1) : ~Stops(t, k, Place(C, k, j))
    BY <1>2, <2>4
  <2> QED
    BY <2>4, <2>5, <2>6, <2>7 DEF Reached
<1> QED
  BY <1>3, <1>4

(* Only one slot is reached and stops it.                                  *)
LEMMA EntryUnique ==
  ASSUME NEW C \in Nat \ {0}, NEW t \in Table(C), NEW k \in Keys,
         NEW p \in 0..(C - 1), Reached(t, C, k, p), Stops(t, k, p)
  PROVE  Entry(t, k) = p
<1>1. /\ Entry(t, k) \in 0..(C - 1)
      /\ Stops(t, k, Entry(t, k))
      /\ Reached(t, C, k, Entry(t, k))
  BY EntryIs
<1>2. PICK i \in 0..(C - 1) : /\ Place(C, k, i) = p
                              /\ \A j \in 0..(i - 1) : ~Stops(t, k, Place(C, k, j))
  BY DEF Reached
<1>3. PICK n \in 0..(C - 1) : /\ Place(C, k, n) = Entry(t, k)
                              /\ \A j \in 0..(n - 1) : ~Stops(t, k, Place(C, k, j))
  BY <1>1 DEF Reached
<1>4. i \notin 0..(n - 1) /\ n \notin 0..(i - 1)
  BY <1>1, <1>2, <1>3
<1>5. i = n
  BY <1>4
<1> QED
  BY <1>2, <1>3, <1>5

(* What a lookup returns: the value in the slot of the key, if it has one. *)
LEMMA LookUp ==
  ASSUME NEW C \in Nat \ {0}, NEW t \in Table(C), Findable(t, C), NEW k \in Keys
  PROVE  /\ \A p \in 0..(C - 1) :
              t[p].key = k => Entry(t, k) = p /\ Get(t, k) = t[p].value
         /\ (\A p \in 0..(C - 1) : t[p].key # k) => Get(t, k) = NoValue
<1>1. ASSUME NEW p \in 0..(C - 1), t[p].key = k
      PROVE  Entry(t, k) = p /\ Get(t, k) = t[p].value
  <2>1. Reached(t, C, k, p) /\ Stops(t, k, p)
    BY <1>1 DEF Findable, Stops
  <2>2. Entry(t, k) = p
    BY <2>1, EntryUnique
  <2>3. p # NoSlot /\ k # NoKey
    BY KeysAreNot DEF NoSlot
  <2> QED
    BY <1>1, <2>2, <2>3 DEF Get
<1>2. ASSUME \A p \in 0..(C - 1) : t[p].key # k
      PROVE  Get(t, k) = NoValue
  <2>1. CASE Entry(t, k) = NoSlot
    BY <2>1 DEF Get
  <2>2. CASE Entry(t, k) \in 0..(C - 1) /\ Stops(t, k, Entry(t, k))
    <3>1. t[Entry(t, k)].key = NoKey
      BY <1>2, <2>2 DEF Stops
    <3> QED
      BY <3>1 DEF Get
  <2> QED
    BY <2>1, <2>2, EntryIs
<1> QED
  BY <1>1, <1>2

(* A new value leaves every key in its slot.                               *)
LEMMA UpdateKeeps ==
  ASSUME NEW C \in Nat \ {0}, NEW t \in Table(C), Findable(t, C),
         NEW p \in 0..(C - 1), NEW s \in Slots, s.key = t[p].key
  PROVE  LET u == [t EXCEPT ![p] = s]
         IN  /\ u \in Table(C) /\ Findable(u, C)
             /\ u[p] = s /\ \A q \in 0..(C - 1) : q # p => u[q] = t[q]
             /\ \A q \in 0..(C - 1) : u[q].key = t[q].key
<1> DEFINE u == [t EXCEPT ![p] = s]
<1>3. /\ u \in Table(C) /\ u[p] = s
      /\ \A q \in 0..(C - 1) : q # p => u[q] = t[q]
  BY DEF Table
<1> HIDE DEF u
<1>5. \A q \in 0..(C - 1) : u[q].key = t[q].key
  BY <1>3
<1>6. ASSUME NEW q \in 0..(C - 1), u[q].key \in Keys
      PROVE  Reached(u, C, u[q].key, q)
  <2>1. PICK k \in Keys : k = u[q].key /\ k = t[q].key
    BY <1>5, <1>6
  <2>2. PICK i \in 0..(C - 1) : /\ Place(C, k, i) = q
                                /\ \A j \in 0..(i - 1) : ~Stops(t, k, Place(C, k, j))
    BY <2>1 DEF Findable, Reached
  <2>3. ASSUME NEW j \in 0..(i - 1) PROVE ~Stops(u, k, Place(C, k, j))
    <3>1. Place(C, k, j) \in 0..(C - 1)
      BY PlaceType
    <3> QED
      BY <1>5, <2>2, <3>1 DEF Stops
  <2> QED
    BY <2>1, <2>2, <2>3 DEF Reached
<1> QED
  BY <1>3, <1>5, <1>6 DEF Findable, u

(* A key put into the slot without a key that dict_get_entry returned for  *)
(* it will be found there, and no other key is lost.                       *)
LEMMA InsertKeeps ==
  ASSUME NEW C \in Nat \ {0}, NEW t \in Table(C), Findable(t, C),
         NEW k \in Keys, NEW s \in Slots, s.key = k,
         NEW p \in 0..(C - 1), p = Entry(t, k), t[p].key = NoKey
  PROVE  LET u == [t EXCEPT ![p] = s]
         IN  /\ u \in Table(C) /\ Findable(u, C)
             /\ u[p] = s /\ \A q \in 0..(C - 1) : q # p => u[q] = t[q]
<1> DEFINE u == [t EXCEPT ![p] = s]
<1>1. /\ u \in Table(C) /\ u[p] = s
      /\ \A q \in 0..(C - 1) : q # p => u[q] = t[q]
  BY DEF Table
<1> HIDE DEF u
<1>2. p # NoSlot
  BY DEF NoSlot
<1>3. Reached(t, C, k, p)
  BY <1>2, EntryIs
<1>4. ASSUME NEW q \in 0..(C - 1), NEW l \in Keys, u[q].key = l
      PROVE  Reached(u, C, l, q)
  <2>1. Reached(t, C, l, q)
    BY <1>1, <1>3, <1>4 DEF Findable
  <2>2. PICK i \in 0..(C - 1) : /\ Place(C, l, i) = q
                                /\ \A j \in 0..(i - 1) : ~Stops(t, l, Place(C, l, j))
    BY <2>1 DEF Reached
  <2>3. ASSUME NEW j \in 0..(i - 1) PROVE ~Stops(u, l, Place(C, l, j))
    <3>1. Place(C, l, j) \in 0..(C - 1)
      BY PlaceType
    <3>2. ~Stops(t, l, Place(C, l, j))
      BY <2>2
    <3>3. Place(C, l, j) # p
      BY <3>2 DEF Stops
    <3> QED
      BY <1>1, <3>1, <3>2, <3>3 DEF Stops
  <2> QED
    BY <2>2, <2>3 DEF Reached
<1>5. Findable(u, C)
  BY <1>4 DEF Findable
<1> QED
  BY <1>1, <1>5 DEF u

(* A key that is removed leaves its slot to nobody, so that those behind   *)
(* it are still found.                                                     *)
LEMMA RemoveKeeps ==
  ASSUME NEW C \in Nat \ {0}, NEW t \in Table(C), Findable(t, C),
         NEW p \in 0..(C - 1)
  PROVE  LET u == [t EXCEPT ![p] = Slot(Removed, NoValue)]
         IN  /\ u \in Table(C) /\ Findable(u, C)
             /\ u[p] = Slot(Removed, NoValue)
             /\ \A q \in 0..(C - 1) : q # p => u[q] = t[q]
<1> DEFINE u == [t EXCEPT ![p] = Slot(Removed, NoValue)]
<1>1. Slot(Removed, NoValue) \in Slots /\ Slot(Removed, NoValue).key = Removed
  BY DEF Slot, Slots, LiveSlots
<1>2. /\ u \in Table(C) /\ u[p] = Slot(Removed, NoValue)
      /\ \A q \in 0..(C - 1) : q # p => u[q] = t[q]
  BY <1>1 DEF Table
<1> HIDE DEF u
<1>3. ASSUME NEW q \in 0..(C - 1), NEW l \in Keys, u[q].key = l
      PROVE  Reached(u, C, l, q)
  <2>1. Reached(t, C, l, q)
    BY <1>1, <1>2, <1>3, KeysAreNot DEF Findable
  <2>2. PICK i \in 0..(C - 1) : /\ Place(C, l, i) = q
                                /\ \A j \in 0..(i - 1) : ~Stops(t, l, Place(C, l, j))
    BY <2>1 DEF Reached
  <2>3. ASSUME NEW j \in 0..(i - 1) PROVE ~Stops(u, l, Place(C, l, j))
    <3>1. Place(C, l, j) \in 0..(C - 1)
      BY PlaceType
    <3>2. ~Stops(t, l, Place(C, l, j))
      BY <2>2
    <3>3. CASE Place(C, l, j) = p
      BY <1>1, <1>2, <3>3, KeysAreNot DEF Stops
    <3>4. CASE Place(C, l, j) # p
      BY <1>2, <3>1, <3>2, <3>4 DEF Stops
    <3> QED
      BY <3>3, <3>4
  <2> QED
    BY <2>2, <2>3 DEF Reached
<1>4. Findable(u, C)
  BY <1>3 DEF Findable
<1> QED
  BY <1>2, <1>4 DEF u

-----------------------------------------------------------------------------
(* Counting live keys                                                      *)

(* A table has no more live keys than slots; if it has fewer, one of its   *)
(* slots has no key or a removed one.                                      *)
LEMMA LiveIsFinite ==
  ASSUME NEW C \in Nat \ {0}, NEW t \in Table(C)
  PROVE  /\ IsFiniteSet(Live(t, C)) /\ Cardinality(Live(t, C)) \in Nat
         /\ Cardinality(Live(t, C)) <= C
         /\ Cardinality(Live(t, C)) < C =>
              \E p \in 0..(C - 1) : t[p].key \in {NoKey, Removed}
<1>1. 0 \in Int /\ C - 1 \in Int
  OBVIOUS
<1>2. IsFiniteSet(0..(C - 1))
  BY <1>1, FS_Interval
<1>3. Cardinality(0..(C - 1)) = C
  BY CapacityIs DEF Capacity
<1>4. Live(t, C) \subseteq 0..(C - 1)
  BY DEF Live
<1>5. /\ IsFiniteSet(Live(t, C)) /\ Cardinality(Live(t, C)) <= C
      /\ Cardinality(Live(t, C)) \in Nat
  BY <1>2, <1>3, <1>4, FS_Subset, FS_CardinalityType
<1>6. ASSUME Cardinality(Live(t, C)) < C
      PROVE  \E p \in 0..(C - 1) : t[p].key \in {NoKey, Removed}
  <2>1. Live(t, C) # 0..(C - 1)
    BY <1>3, <1>5, <1>6
  <2>2. PICK p \in 0..(C - 1) : t[p].key \notin Keys
    BY <2>1, <1>4 DEF Live
  <2>3. t[p] \in Slots
    BY DEF Table
  <2> QED
    BY <2>2, <2>3 DEF Slots, LiveSlots
<1> QED
  BY <1>5, <1>6

(* One more when a key is put into a slot without one ...                  *)
LEMMA LiveOneMore ==
  ASSUME NEW C \in Nat \ {0}, NEW t \in Table(C), NEW u \in Table(C),
         NEW p \in 0..(C - 1), t[p].key \notin Keys, u[p].key \in Keys,
         \A q \in 0..(C - 1) : q # p => u[q] = t[q]
  PROVE  Cardinality(Live(u, C)) = Cardinality(Live(t, C)) + 1
<1>1. Live(u, C) = Live(t, C) \cup {p} /\ p \notin Live(t, C)
  BY DEF Live
<1> QED
  BY <1>1, LiveIsFinite, FS_AddElement

(* ... one less when one is removed, and as many when none is.             *)
LEMMA LiveOneLess ==
  ASSUME NEW C \in Nat \ {0}, NEW t \in Table(C), NEW u \in Table(C),
         NEW p \in 0..(C - 1), t[p].key \in Keys, u[p].key \notin Keys,
         \A q \in 0..(C - 1) : q # p => u[q] = t[q]
  PROVE  Cardinality(Live(u, C)) = Cardinality(Live(t, C)) - 1
<1>1. \A q \in 0..(C - 1) : q # p => t[q] = u[q]
  OBVIOUS
<1>2. Cardinality(Live(t, C)) = Cardinality(Live(u, C)) + 1
  BY <1>1, LiveOneMore
<1> QED
  BY <1>2, LiveIsFinite

(* An empty table.                                                         *)
LEMMA EmptyTableIs ==
  ASSUME NEW C \in Nat \ {0}
  PROVE  /\ EmptyTable(C) \in Table(C) /\ Findable(EmptyTable(C), C)
         /\ \A p \in 0..(C - 1) : EmptyTable(C)[p].key = NoKey
         /\ Cardinality(Live(EmptyTable(C), C)) = 0
<1>1. Slot(NoKey, NoValue) \in Slots /\ Slot(NoKey, NoValue).key = NoKey
  BY DEF Slot, Slots, LiveSlots
<1>2. /\ EmptyTable(C) \in Table(C)
      /\ \A p \in 0..(C - 1) : EmptyTable(C)[p].key = NoKey
  BY <1>1 DEF EmptyTable, Table
<1>3. Findable(EmptyTable(C), C)
  BY <1>2, KeysAreNot DEF Findable
<1>4. Live(EmptyTable(C), C) = {}
  BY <1>2, KeysAreNot DEF Live
<1> QED
  BY <1>2, <1>3, <1>4, FS_EmptySet

-----------------------------------------------------------------------------
(* Listing slots                                                           *)

(* The recursion that lists slots defines a function.                      *)
LEMMA ListingRecursion ==
  ASSUME NEW t, NEW keys, NEW n \in Nat
  PROVE  \E listed : /\ listed = [p \in 0..n |->
                                    IF p = 0 THEN << >>
                                    ELSE IF t[p - 1].key \notin keys THEN listed[p - 1]
                                    ELSE Append(listed[p - 1], t[p - 1])]
                     /\ SlotsListed(t, keys, n) = listed[n]
<1> DEFINE Solves(f, m) ==
             f = [p \in 0..m |-> IF p = 0 THEN << >>
                                 ELSE IF t[p - 1].key \notin keys THEN f[p - 1]
                                 ELSE Append(f[p - 1], t[p - 1])]
           P == {m \in Nat : \E f : Solves(f, m)}
<1>1. 0 \in P
  <2> DEFINE f == [p \in 0..0 |-> << >>]
  <2>1. Solves(f, 0)
    OBVIOUS
  <2> QED
    BY <2>1
<1>2. ASSUME NEW m \in P PROVE m + 1 \in P
  <2>1. PICK f : Solves(f, m)
    BY <1>2
  <2> DEFINE next == IF t[m].key \notin keys THEN f[m] ELSE Append(f[m], t[m])
             g == [p \in 0..(m + 1) |-> IF p = m + 1 THEN next ELSE f[p]]
  <2>2. m \in Nat /\ m + 1 \in Nat
    OBVIOUS
  <2>3. \A p \in 0..m : f[p] = IF p = 0 THEN << >>
                               ELSE IF t[p - 1].key \notin keys THEN f[p - 1]
                               ELSE Append(f[p - 1], t[p - 1])
    BY <2>1
  <2>4. ASSUME NEW p \in 0..(m + 1)
        PROVE  g[p] = IF p = 0 THEN << >>
                      ELSE IF t[p - 1].key \notin keys THEN g[p - 1]
                      ELSE Append(g[p - 1], t[p - 1])
    <3>1. CASE p = m + 1
      <4>1. p # 0 /\ p - 1 = m /\ m \in 0..(m + 1) /\ m # m + 1
        BY <2>2, <3>1
      <4>2. g[m] = f[m] /\ g[p] = next
        BY <3>1, <4>1
      <4> QED
        BY <4>1, <4>2
    <3>2. CASE p = 0
      <4>1. p \in 0..m /\ p # m + 1
        BY <2>2, <3>2
      <4> QED
        BY <2>3, <3>2, <4>1
    <3>3. CASE p # m + 1 /\ p # 0
      <4>1. p \in 0..m /\ p - 1 \in 0..(m + 1) /\ p - 1 # m + 1
        BY <2>2, <3>3
      <4>2. g[p] = f[p] /\ g[p - 1] = f[p - 1]
        BY <3>3, <4>1
      <4> QED
        BY <2>3, <3>3, <4>1, <4>2
    <3> QED
      BY <3>1, <3>2, <3>3
  <2>5. g = [p \in 0..(m + 1) |-> g[p]]
    OBVIOUS
  <2> HIDE DEF g
  <2>6. Solves(g, m + 1)
    BY <2>4, <2>5, Zenon
  <2> QED
    BY <2>2, <2>6
<1>3. n \in P
  <2>1. P \in SUBSET Nat
    OBVIOUS
  <2> HIDE DEF P
  <2> QED
    BY <1>1, <1>2, <2>1, NaturalInduction
<1>4. \E f : Solves(f, n)
  BY <1>3
<1>5. SlotsListed(t, keys, n) = (CHOOSE f : Solves(f, n))[n]
  BY DEF SlotsListed
<1> DEFINE listed == CHOOSE f : Solves(f, n)
<1>6. Solves(listed, n)
  <2> HIDE DEF Solves
  <2> QED
    BY <1>4
<1> QED
  BY <1>5, <1>6

(* The slots before m that hold one of the keys; and a list of them, each  *)
(* once.                                                                   *)
Among(t, keys, m) == {q \in 0..(m - 1) : t[q].key \in keys}

Lists(s, t, keys, m) ==
  /\ s \in Seq(Slots) /\ Len(s) = Cardinality(Among(t, keys, m))
  /\ \A q \in Among(t, keys, m) : \E i \in 1..Len(s) : s[i] = t[q]
  /\ \A i \in 1..Len(s) : \E q \in Among(t, keys, m) : s[i] = t[q]
  /\ \A i, j \in 1..Len(s) :
       i < j => \E q, r \in Among(t, keys, m) : q # r /\ s[i] = t[q] /\ s[j] = t[r]

(* There are finitely many such slots.                                     *)
LEMMA AmongIsFinite ==
  ASSUME NEW t, NEW keys, NEW m \in Nat
  PROVE  IsFiniteSet(Among(t, keys, m)) /\ Cardinality(Among(t, keys, m)) \in Nat
<1>1. 0 \in Int /\ m - 1 \in Int
  OBVIOUS
<1>2. IsFiniteSet(0..(m - 1))
  BY <1>1, FS_Interval
<1>3. Among(t, keys, m) \subseteq 0..(m - 1)
  BY DEF Among
<1> QED
  BY <1>2, <1>3, FS_Subset, FS_CardinalityType

(* One slot more.                                                          *)
LEMMA ListsOneMore ==
  ASSUME NEW C \in Nat \ {0}, NEW t \in Table(C), NEW keys, NEW m \in 0..(C - 1),
         NEW s, Lists(s, t, keys, m)
  PROVE  Lists(IF t[m].key \notin keys THEN s ELSE Append(s, t[m]), t, keys, m + 1)
<1>1. CASE t[m].key \notin keys
  <2>1. Among(t, keys, m + 1) = Among(t, keys, m)
    BY <1>1 DEF Among
  <2>2. Lists(s, t, keys, m + 1)
    BY <2>1 DEF Lists
  <2> QED
    BY <1>1, <2>2
<1>2. CASE t[m].key \in keys
  <2>1. PICK x \in Slots : x = t[m]
    BY DEF Table
  <2>3. /\ Among(t, keys, m + 1) = Among(t, keys, m) \cup {m}
        /\ m \notin Among(t, keys, m)
    BY <1>2 DEF Among
  <2>5. Cardinality(Among(t, keys, m + 1)) = Cardinality(Among(t, keys, m)) + 1
    <3>1. m \in Nat
      OBVIOUS
    <3> QED
      BY <2>3, <3>1, AmongIsFinite, FS_AddElement
  <2>6. s \in Seq(Slots) /\ Len(s) = Cardinality(Among(t, keys, m)) /\ Len(s) \in Nat
    BY DEF Lists
  <2> DEFINE w == Append(s, x)
  <2>7. /\ w \in Seq(Slots) /\ Len(w) = Len(s) + 1 /\ w[Len(s) + 1] = x
        /\ \A i \in 1..Len(s) : w[i] = s[i]
    BY <2>6
  <2> HIDE DEF w
  <2>8. ASSUME NEW q \in Among(t, keys, m + 1) PROVE \E i \in 1..Len(w) : w[i] = t[q]
    <3>1. CASE q = m
      <4>1. Len(s) + 1 \in 1..Len(w)
        BY <2>6, <2>7
      <4> QED
        BY <2>1, <2>7, <3>1, <4>1
    <3>2. CASE q \in Among(t, keys, m)
      <4>1. PICK i \in 1..Len(s) : s[i] = t[q]
        BY <3>2 DEF Lists
      <4>2. i \in 1..Len(w)
        BY <2>6, <2>7
      <4> QED
        BY <2>7, <4>1, <4>2
    <3> QED
      BY <2>3, <3>1, <3>2
  <2>9. ASSUME NEW i \in 1..Len(w)
        PROVE  \/ i = Len(s) + 1 /\ w[i] = t[m]
               \/ i \in 1..Len(s) /\ w[i] = s[i]
    BY <2>1, <2>6, <2>7
  <2>10. ASSUME NEW i \in 1..Len(s) PROVE \E q \in Among(t, keys, m) : s[i] = t[q]
    BY DEF Lists
  <2>11. ASSUME NEW i \in 1..Len(w) PROVE \E q \in Among(t, keys, m + 1) : w[i] = t[q]
    BY <2>3, <2>9, <2>10
  <2>12. ASSUME NEW i \in 1..Len(w), NEW j \in 1..Len(w), i < j
         PROVE  \E q, r \in Among(t, keys, m + 1) : q # r /\ w[i] = t[q] /\ w[j] = t[r]
    <3>1. i \in 1..Len(s) /\ w[i] = s[i]
      BY <2>6, <2>7, <2>9, <2>12
    <3>2. CASE j = Len(s) + 1 /\ w[j] = t[m]
      <4>1. PICK q \in Among(t, keys, m) : s[i] = t[q]
        BY <2>10, <3>1
      <4> QED
        BY <2>3, <3>1, <3>2, <4>1
    <3>3. CASE j \in 1..Len(s) /\ w[j] = s[j]
      <4>1. PICK q \in Among(t, keys, m), r \in Among(t, keys, m) :
              q # r /\ s[i] = t[q] /\ s[j] = t[r]
        BY <2>12, <3>1, <3>3 DEF Lists
      <4> QED
        BY <2>3, <3>1, <3>3, <4>1
    <3> QED
      BY <2>9, <3>2, <3>3
  <2>13. Lists(w, t, keys, m + 1)
    BY <2>5, <2>6, <2>7, <2>8, <2>11, <2>12 DEF Lists
  <2> QED
    BY <1>2, <2>1, <2>13 DEF w
<1> QED
  BY <1>1, <1>2

(* What is listed of a table.                                              *)
LEMMA ListingIs ==
  ASSUME NEW C \in Nat \ {0}, NEW t \in Table(C), NEW keys
  PROVE  Lists(SlotsListed(t, keys, C), t, keys, C)
<1>1. C \in Nat
  OBVIOUS
<1>2. PICK listed : /\ listed = [p \in 0..C |->
                                   IF p = 0 THEN << >>
                                   ELSE IF t[p - 1].key \notin keys THEN listed[p - 1]
                                   ELSE Append(listed[p - 1], t[p - 1])]
                    /\ SlotsListed(t, keys, C) = listed[C]
  BY <1>1, ListingRecursion
<1>3. listed[0] = << >>
  BY <1>1, <1>2
<1>4. ASSUME NEW m \in 0..(C - 1)
      PROVE  listed[m + 1] = IF t[m].key \notin keys THEN listed[m]
                             ELSE Append(listed[m], t[m])
  <2>1. m + 1 \in 0..C /\ m + 1 # 0 /\ (m + 1) - 1 = m
    OBVIOUS
  <2>2. listed[m + 1] = IF t[(m + 1) - 1].key \notin keys THEN listed[(m + 1) - 1]
                        ELSE Append(listed[(m + 1) - 1], t[(m + 1) - 1])
    BY <1>2, <2>1
  <2> QED
    BY <2>1, <2>2
<1> DEFINE P == {m \in Nat : m <= C => Lists(listed[m], t, keys, m)}
<1>5. 0 \in P
  <2>1. Among(t, keys, 0) = {}
    BY DEF Among
  <2>2. Cardinality(Among(t, keys, 0)) = 0
    BY <2>1, FS_EmptySet
  <2>3. Lists(<< >>, t, keys, 0)
    BY <2>1, <2>2 DEF Lists
  <2> QED
    BY <1>3, <2>3
<1>6. ASSUME NEW m \in P PROVE m + 1 \in P
  <2>1. m \in Nat /\ m + 1 \in Nat
    OBVIOUS
  <2>2. ASSUME m + 1 <= C PROVE Lists(listed[m + 1], t, keys, m + 1)
    <3>1. m \in 0..(C - 1)
      BY <2>1, <2>2
    <3>2. Lists(listed[m], t, keys, m)
      BY <1>6, <2>1, <2>2
    <3> HIDE DEF P
    <3>3. Lists(IF t[m].key \notin keys THEN listed[m] ELSE Append(listed[m], t[m]),
                t, keys, m + 1)
      BY <3>1, <3>2, ListsOneMore
    <3> QED
      BY <1>4, <3>1, <3>3
  <2> QED
    BY <2>1, <2>2
<1>7. C \in P
  <2>1. P \in SUBSET Nat
    OBVIOUS
  <2> HIDE DEF P
  <2> QED
    BY <1>1, <1>5, <1>6, <2>1, NaturalInduction
<1> QED
  BY <1>1, <1>2, <1>7

-----------------------------------------------------------------------------
(* Growth                                                                  *)

(* Live slots, each of a key of its own.                                   *)
Collection(s) ==
  /\ s \in Seq(LiveSlots)
  /\ \A i, j \in 1..Len(s) : i < j => s[i].key # s[j].key

(* The capacities that max_capacity can count.                             *)
Capacities == 1..(CapacityMod - 1)

(* Where a capacity is counted, CapacityMod is a positive number.          *)
LEMMA CapacityModIs ==
  ASSUME NEW c \in 0..(CapacityMod - 1)
  PROVE  CapacityMod \in Nat \ {0} /\ c < CapacityMod
<1>1. CapacityMod \in Int
  BY DictAssumption DEF CapacityMod
<1> QED
  BY <1>1

(* What dict_increase_and_rehash collects from a table: its live slots.    *)
LEMMA CollectedIs ==
  ASSUME NEW C \in Nat \ {0}, NEW t \in Table(C), Findable(t, C),
         NEW n \in Nat, n = Cardinality(Live(t, C))
  PROVE  /\ Collection(Collected(t, n)) /\ Len(Collected(t, n)) = n
         /\ \A q \in Live(t, C) : \E i \in 1..n : Collected(t, n)[i] = t[q]
         /\ \A i \in 1..n : \E q \in Live(t, C) : Collected(t, n)[i] = t[q]
<1> DEFINE s == SlotsListed(t, Keys, C)
<1>1. Among(t, Keys, C) = Live(t, C)
  BY DEF Among, Live
<1>2. Lists(s, t, Keys, C)
  BY ListingIs
<1> HIDE DEF s
<1>3. Len(s) = n /\ s \in Seq(Slots)
  BY <1>1, <1>2 DEF Lists
<1>4. Collected(t, n) = s
  BY <1>3, CapacityIs DEF Collected, s
<1>5. /\ \A q \in Live(t, C) : \E i \in 1..n : s[i] = t[q]
      /\ \A i \in 1..n : \E q \in Live(t, C) : s[i] = t[q]
  BY <1>1, <1>2, <1>3 DEF Lists
<1>6. ASSUME NEW q \in Live(t, C) PROVE t[q] \in LiveSlots
  <2>1. q \in 0..(C - 1) /\ t[q].key \in Keys
    BY DEF Live
  <2>2. t[q] \in Slots
    BY <2>1 DEF Table
  <2> QED
    BY <2>1, <2>2, KeysAreNot DEF Slots, LiveSlots
<1>7. \A i \in 1..n : s[i] \in LiveSlots
  BY <1>5, <1>6
<1>8. s \in Seq(LiveSlots)
  BY <1>3, <1>7
<1>9. ASSUME NEW i \in 1..n, NEW j \in 1..n, i < j PROVE s[i].key # s[j].key
  <2>1. PICK q \in Live(t, C), r \in Live(t, C) :
          q # r /\ s[i] = t[q] /\ s[j] = t[r]
    BY <1>1, <1>2, <1>3, <1>9 DEF Lists
  <2>2. /\ q \in 0..(C - 1) /\ t[q].key \in Keys
        /\ r \in 0..(C - 1) /\ t[r].key \in Keys
    BY DEF Live
  <2>3. Entry(t, t[q].key) = q /\ Entry(t, t[r].key) = r
    BY <2>2, LookUp
  <2> QED
    BY <2>1, <2>3
<1> QED
  BY <1>3, <1>4, <1>5, <1>8, <1>9 DEF Collection

(* A new table of D slots with the first m of what was collected: those    *)
(* keys, with their values and no others, each where it is found, and no   *)
(* key that was removed.                                                   *)
Copied(u, D, s, m) ==
  /\ u \in Table(D) /\ Findable(u, D)
  /\ \A p \in 0..(D - 1) : u[p].key # Removed
  /\ Cardinality(Live(u, D)) = m
  /\ \A i \in 1..m : \E p \in 0..(D - 1) : u[p] = s[i]
  /\ \A p \in 0..(D - 1) : u[p].key \in Keys => \E i \in 1..m : u[p] = s[i]

(* It takes up half of the table or less, or the capacity went to 0.       *)
Fits(u, D, s, m) == Copied(u, D, s, m) /\ 2 * m <= D

Kept(u, s, m) == u = EmptyTable(0) \/ \E D \in Capacities : Fits(u, D, s, m)

(* What a rehash must do to be called by another.                          *)
Grows(g) ==
  \A s \in Seq(LiveSlots), c \in 0..(CapacityMod - 1) :
    Collection(s) => Kept(g[<<s, c>>], s, Len(s))

(* A table of capacity 0 has no slots.                                     *)
LEMMA NoSlotsIs == Capacity(EmptyTable(0)) = 0
<1>1. DOMAIN EmptyTable(0) = {}
  BY DEF EmptyTable
<1> QED
  BY <1>1, FS_EmptySet DEF Capacity

(* A capacity of some slots is a positive number below CapacityMod.        *)
LEMMA CapacitiesAre ==
  ASSUME NEW D \in Capacities
  PROVE  D \in Nat \ {0} /\ D < CapacityMod /\ CapacityMod \in Nat \ {0}
<1>1. D \in Nat \ {0} /\ D \in 0..(CapacityMod - 1)
  BY DEF Capacities
<1> QED
  BY <1>1, CapacityModIs

(* One key more.                                                           *)
LEMMA CopiesOneMore ==
  ASSUME NEW D \in Nat \ {0}, NEW s, Collection(s), NEW m \in Nat, m + 1 <= Len(s),
         m < D, NEW u, Copied(u, D, s, m)
  PROVE  Copied([u EXCEPT ![Entry(u, s[m + 1].key)] = s[m + 1]], D, s, m + 1)
<1>0. /\ u \in Table(D) /\ Findable(u, D) /\ Cardinality(Live(u, D)) = m
      /\ \A p \in 0..(D - 1) : u[p].key # Removed
      /\ s \in Seq(LiveSlots) /\ Len(s) \in Nat
  BY DEF Copied, Collection
<1>1. PICK x \in LiveSlots : x = s[m + 1]
  BY <1>0
<1>2. PICK k \in Keys : k = x.key
  BY DEF LiveSlots
<1> DEFINE e == Entry(u, k)
           w == [u EXCEPT ![e] = x]
<1>4. \A p \in 0..(D - 1) : u[p].key # k
  <2> SUFFICES ASSUME NEW p \in 0..(D - 1), u[p].key = k PROVE FALSE
    OBVIOUS
  <2>1. PICK i \in 1..m : u[p] = s[i]
    BY DEF Copied
  <2>2. i \in 1..Len(s) /\ m + 1 \in 1..Len(s) /\ i < m + 1
    BY <1>0
  <2>3. s[i].key # s[m + 1].key
    BY <2>2 DEF Collection
  <2> QED
    BY <1>1, <1>2, <2>1, <2>3
<1>5. e \in 0..(D - 1) /\ u[e].key = NoKey
  <2>1. PICK p \in 0..(D - 1) : u[p].key = NoKey
    BY <1>0, LiveIsFinite
  <2>2. Stops(u, k, p)
    BY <2>1 DEF Stops
  <2>3. e \in 0..(D - 1) /\ Stops(u, k, e)
    BY <1>0, <2>2, EntryIs
  <2> QED
    BY <1>4, <2>3 DEF Stops
<1>6. x \in Slots
  BY DEF Slots, LiveSlots
<1>7. /\ w \in Table(D) /\ Findable(w, D) /\ w[e] = x
      /\ \A q \in 0..(D - 1) : q # e => w[q] = u[q]
  BY <1>0, <1>2, <1>5, <1>6, InsertKeeps
<1>8. w = [u EXCEPT ![Entry(u, s[m + 1].key)] = s[m + 1]]
  BY <1>1, <1>2
<1> HIDE DEF w, e
<1>9. Cardinality(Live(w, D)) = m + 1
  BY <1>0, <1>2, <1>5, <1>7, KeysAreNot, LiveOneMore
<1>10. \A p \in 0..(D - 1) : w[p].key # Removed
  BY <1>0, <1>2, <1>7, KeysAreNot
<1>11. ASSUME NEW i \in 1..(m + 1) PROVE \E p \in 0..(D - 1) : w[p] = s[i]
  <2>1. CASE i = m + 1
    BY <1>1, <1>5, <1>7, <2>1
  <2>2. CASE i # m + 1
    <3>0. i \in 1..m /\ i \in 1..Len(s)
      BY <1>0, <2>2
    <3>1. PICK p \in 0..(D - 1) : u[p] = s[i]
      BY <3>0 DEF Copied
    <3>2. s[i] \in LiveSlots
      BY <1>0, <3>0
    <3>4. s[i].key # NoKey
      BY <3>2, KeysAreNot DEF LiveSlots
    <3>3. p # e
      BY <1>5, <3>1, <3>4
    <3> QED
      BY <1>7, <3>1, <3>3
  <2> QED
    BY <2>1, <2>2
<1>12. ASSUME NEW p \in 0..(D - 1), w[p].key \in Keys
       PROVE  \E i \in 1..(m + 1) : w[p] = s[i]
  <2>1. CASE p = e
    BY <1>1, <1>7, <2>1
  <2>2. CASE p # e
    <3>1. PICK i \in 1..m : u[p] = s[i]
      BY <1>7, <1>12, <2>2 DEF Copied
    <3>2. i \in 1..(m + 1)
      OBVIOUS
    <3> QED
      BY <1>7, <2>2, <3>1, <3>2
  <2> QED
    BY <2>1, <2>2
<1> QED
  BY <1>7, <1>8, <1>9, <1>10, <1>11, <1>12 DEF Copied

(* Counting its live slots.                                                *)
LEMMA CountedIs ==
  ASSUME NEW C \in Nat \ {0}, NEW t \in Table(C)
  PROVE  Counted(t) = Cardinality(Live(t, C))
BY CapacityIs DEF Counted, Live

(* What was collected from a copy and kept is what was copied.             *)
LEMMA KeptAgain ==
  ASSUME NEW D \in Nat \ {0}, NEW s, NEW n \in Nat, NEW u, Copied(u, D, s, n),
         NEW x, Kept(x, Collected(u, n), n),
         \A i \in 1..n : s[i].key \in Keys
  PROVE  Kept(x, s, n)
<1> DEFINE r == Collected(u, n)
<1>1. /\ u \in Table(D) /\ Findable(u, D) /\ Cardinality(Live(u, D)) = n
      /\ \A i \in 1..n : \E p \in 0..(D - 1) : u[p] = s[i]
      /\ \A p \in 0..(D - 1) : u[p].key \in Keys => \E i \in 1..n : u[p] = s[i]
  BY DEF Copied
<1>2. /\ \A q \in Live(u, D) : \E i \in 1..n : r[i] = u[q]
      /\ \A i \in 1..n : \E q \in Live(u, D) : r[i] = u[q]
  BY <1>1, CollectedIs
<1> HIDE DEF r
<1>3. ASSUME NEW i \in 1..n PROVE \E j \in 1..n : r[j] = s[i]
  <2>1. PICK p \in 0..(D - 1) : u[p] = s[i]
    BY <1>1
  <2>2. p \in Live(u, D)
    BY <2>1 DEF Live
  <2> QED
    BY <1>2, <2>1, <2>2
<1>4. ASSUME NEW j \in 1..n PROVE \E i \in 1..n : r[j] = s[i]
  <2>1. PICK p \in Live(u, D) : r[j] = u[p]
    BY <1>2
  <2>2. p \in 0..(D - 1) /\ u[p].key \in Keys
    BY DEF Live
  <2> QED
    BY <1>1, <2>1, <2>2
<1>5. ASSUME NEW E \in Capacities, Fits(x, E, r, n) PROVE Fits(x, E, s, n)
  <2>1. /\ x \in Table(E) /\ Findable(x, E)
        /\ \A p \in 0..(E - 1) : x[p].key # Removed
        /\ Cardinality(Live(x, E)) = n /\ 2 * n <= E
    BY <1>5 DEF Fits, Copied
  <2>2. ASSUME NEW i \in 1..n PROVE \E p \in 0..(E - 1) : x[p] = s[i]
    <3>1. PICK j \in 1..n : r[j] = s[i]
      BY <1>3
    <3>2. PICK p \in 0..(E - 1) : x[p] = r[j]
      BY <1>5 DEF Fits, Copied
    <3> QED
      BY <3>1, <3>2
  <2>3. ASSUME NEW p \in 0..(E - 1), x[p].key \in Keys PROVE \E i \in 1..n : x[p] = s[i]
    <3>1. PICK j \in 1..n : x[p] = r[j]
      BY <1>5, <2>3 DEF Fits, Copied
    <3> QED
      BY <1>4, <3>1
  <2> QED
    BY <2>1, <2>2, <2>3 DEF Fits, Copied
<1> QED
  BY <1>5 DEF Kept, r

(* One put into a new table, which may grow in its turn.                   *)
LEMMA PutAgainKeeps ==
  ASSUME NEW g, Grows(g), NEW s, Collection(s), NEW m \in Nat, m + 1 <= Len(s),
         NEW u, Kept(u, s, m)
  PROVE  Kept(PutAgain(g, u, s[m + 1]), s, m + 1)
<1>1. CASE u = EmptyTable(0)
  BY <1>1, NoSlotsIs DEF PutAgain, Kept
<1>2. ASSUME NEW D \in Capacities, Fits(u, D, s, m)
      PROVE  Kept(PutAgain(g, u, s[m + 1]), s, m + 1)
  <2>1. D \in Nat \ {0} /\ Copied(u, D, s, m) /\ 2 * m <= D /\ u \in Table(D)
    BY <1>2, CapacitiesAre DEF Fits, Copied
  <2>2. m < D
    BY <2>1
  <2> DEFINE w == [u EXCEPT ![Entry(u, s[m + 1].key)] = s[m + 1]]
             x == g[<<Collected(w, m + 1), Doubled(D)>>]
  <2>3. Copied(w, D, s, m + 1)
    BY <2>1, <2>2, CopiesOneMore
  <2>4. Capacity(u) = D /\ Capacity(u) # 0
    BY <2>1, CapacityIs
  <2>5. Counted(w) = m + 1
    <3> HIDE DEF w
    <3> QED
      BY <2>1, <2>3, CountedIs DEF Copied
  <2>6. PutAgain(g, u, s[m + 1]) = IF Overloaded(m + 1, D) THEN x ELSE w
    BY <2>4, <2>5 DEF PutAgain
  <2> HIDE DEF w, x
  <2>7. CASE ~Overloaded(m + 1, D)
    <3>1. Fits(w, D, s, m + 1)
      BY <2>1, <2>3, <2>7 DEF Overloaded, Fits
    <3> QED
      BY <2>6, <2>7, <3>1 DEF Kept
  <2>8. CASE Overloaded(m + 1, D)
    <3>1. /\ m + 1 \in Nat /\ w \in Table(D) /\ Findable(w, D)
          /\ Cardinality(Live(w, D)) = m + 1
      BY <2>3 DEF Copied
    <3> DEFINE r == Collected(w, m + 1)
    <3>2. Collection(r) /\ Len(r) = m + 1
      BY <2>1, <3>1, CollectedIs
    <3>3. Doubled(D) \in 0..(CapacityMod - 1) /\ r \in Seq(LiveSlots)
      <4>1. GrowthFactor * D \in Int
        BY <2>1 DEF GrowthFactor
      <4>2. r \in Seq(LiveSlots)
        BY <3>2 DEF Collection
      <4> QED
        BY <4>1, <4>2, CapacitiesAre, ModDef DEF Doubled
    <3> HIDE DEF r
    <3>4. Kept(g[<<r, Doubled(D)>>], r, Len(r))
      BY <3>2, <3>3 DEF Grows
    <3>5. Kept(x, Collected(w, m + 1), m + 1)
      BY <3>2, <3>4 DEF x, r
    <3>6. \A i \in 1..(m + 1) : s[i].key \in Keys
      <4>1. s \in Seq(LiveSlots)
        BY DEF Collection
      <4>2. \A i \in 1..(m + 1) : s[i] \in LiveSlots
        BY <4>1
      <4> QED
        BY <4>2 DEF LiveSlots
    <3>7. Kept(x, s, m + 1)
      BY <2>1, <2>3, <3>1, <3>5, <3>6, KeptAgain
    <3> QED
      BY <2>6, <2>8, <3>7
  <2> QED
    BY <2>7, <2>8
<1> QED
  BY <1>1, <1>2 DEF Kept


(* What PutAll defines by recursion.                                       *)
PutIn(put, g, s, c) ==
  put = [i \in 0..Len(s) |-> IF i = 0 THEN EmptyTable(c)
                             ELSE PutAgain(g, put[i - 1], s[i])]

(* It is a function.                                                       *)
LEMMA PutRecursion ==
  ASSUME NEW g, NEW s, NEW c, Len(s) \in Nat
  PROVE  \E put : PutIn(put, g, s, c) /\ PutAll(g, s, c) = put[Len(s)]
<1> DEFINE Solves(f, m) ==
             f = [i \in 0..m |-> IF i = 0 THEN EmptyTable(c)
                                 ELSE PutAgain(g, f[i - 1], s[i])]
           P == {m \in Nat : \E f : Solves(f, m)}
<1>1. 0 \in P
  <2> DEFINE f == [i \in 0..0 |-> EmptyTable(c)]
  <2>1. Solves(f, 0)
    OBVIOUS
  <2> QED
    BY <2>1
<1>2. ASSUME NEW m \in P PROVE m + 1 \in P
  <2>1. PICK f : Solves(f, m)
    BY <1>2
  <2> DEFINE h == [i \in 0..(m + 1) |->
                     IF i = m + 1 THEN PutAgain(g, f[m], s[m + 1]) ELSE f[i]]
  <2>2. m \in Nat
    OBVIOUS
  <2>3. \A i \in 0..m : f[i] = IF i = 0 THEN EmptyTable(c) ELSE PutAgain(g, f[i - 1], s[i])
    BY <2>1
  <2>4. ASSUME NEW i \in 0..(m + 1)
        PROVE  h[i] = IF i = 0 THEN EmptyTable(c) ELSE PutAgain(g, h[i - 1], s[i])
    <3>1. CASE i = m + 1
      <4>1. i # 0 /\ i - 1 = m /\ m \in 0..(m + 1) /\ m # m + 1
        BY <2>2, <3>1
      <4>2. h[m] = f[m] /\ h[i] = PutAgain(g, f[m], s[m + 1])
        BY <3>1, <4>1
      <4> QED
        BY <3>1, <4>1, <4>2
    <3>2. CASE i = 0
      <4>1. i \in 0..m /\ i # m + 1
        BY <2>2, <3>2
      <4> QED
        BY <2>3, <3>2, <4>1
    <3>3. CASE i # m + 1 /\ i # 0
      <4>1. i \in 0..m /\ i - 1 \in 0..(m + 1) /\ i - 1 # m + 1
        BY <2>2, <3>3
      <4>2. h[i] = f[i] /\ h[i - 1] = f[i - 1]
        BY <3>3, <4>1
      <4> QED
        BY <2>3, <3>3, <4>1, <4>2
    <3> QED
      BY <3>1, <3>2, <3>3
  <2>5. h = [i \in 0..(m + 1) |-> h[i]]
    OBVIOUS
  <2> HIDE DEF h
  <2>6. Solves(h, m + 1)
    BY <2>4, <2>5, Zenon
  <2>7. m + 1 \in Nat
    BY <2>2
  <2> QED
    BY <2>6, <2>7
<1>3. Len(s) \in P
  <2>1. P \in SUBSET Nat
    OBVIOUS
  <2> HIDE DEF P
  <2> QED
    BY <1>1, <1>2, <2>1, NaturalInduction
<1>4. \E f : Solves(f, Len(s))
  BY <1>3
<1>5. PutAll(g, s, c) = (CHOOSE f : Solves(f, Len(s)))[Len(s)]
  BY DEF PutAll
<1> DEFINE put == CHOOSE f : Solves(f, Len(s))
<1>6. Solves(put, Len(s))
  <2> HIDE DEF Solves
  <2> QED
    BY <1>4
<1> QED
  BY <1>5, <1>6 DEF PutIn

(* An empty table into which what was collected is put, key by key.        *)
PutInto(put, g, s, c) ==
  /\ put[0] = EmptyTable(c)
  /\ \A m \in 0..(Len(s) - 1) : put[m + 1] = PutAgain(g, put[m], s[m + 1])

(* PutAll takes these steps.                                               *)
LEMMA PutSteps ==
  ASSUME NEW g, NEW s, NEW c, Len(s) \in Nat
  PROVE  \E put : PutInto(put, g, s, c) /\ PutAll(g, s, c) = put[Len(s)]
<1>1. PICK put : PutIn(put, g, s, c) /\ PutAll(g, s, c) = put[Len(s)]
  BY PutRecursion, Zenon
<1>2. put[0] = EmptyTable(c)
  BY <1>1 DEF PutIn
<1>3. ASSUME NEW m \in 0..(Len(s) - 1)
      PROVE  put[m + 1] = PutAgain(g, put[m], s[m + 1])
  <2>1. m + 1 \in 0..Len(s) /\ m + 1 # 0 /\ (m + 1) - 1 = m
    OBVIOUS
  <2>2. put[m + 1] = PutAgain(g, put[(m + 1) - 1], s[m + 1])
    BY <1>1, <2>1 DEF PutIn
  <2> QED
    BY <2>1, <2>2
<1> QED
  BY <1>1, <1>2, <1>3 DEF PutInto

(* An empty table is a copy of nothing.                                    *)
LEMMA NothingCopied ==
  ASSUME NEW c \in Nat \ {0}, NEW s
  PROVE  Fits(EmptyTable(c), c, s, 0)
<1>1. /\ EmptyTable(c) \in Table(c) /\ Findable(EmptyTable(c), c)
      /\ Cardinality(Live(EmptyTable(c), c)) = 0
      /\ \A p \in 0..(c - 1) : EmptyTable(c)[p].key = NoKey
  BY EmptyTableIs
<1> QED
  BY <1>1, KeysAreNot DEF Fits, Copied

(* Whatever grows in between, all of it is put and kept, or no slot is     *)
(* left.                                                                   *)
LEMMA PutAllKeeps ==
  ASSUME NEW g, Grows(g), NEW s, Collection(s), NEW c \in 0..(CapacityMod - 1)
  PROVE  Kept(PutAll(g, s, c), s, Len(s))
<1>0. Len(s) \in Nat
  BY DEF Collection
<1>00. PICK put : PutInto(put, g, s, c) /\ PutAll(g, s, c) = put[Len(s)]
  BY <1>0, PutSteps, Zenon
<1>1. /\ put[0] = EmptyTable(c) /\ PutAll(g, s, c) = put[Len(s)]
      /\ \A m \in 0..(Len(s) - 1) : put[m + 1] = PutAgain(g, put[m], s[m + 1])
  BY <1>00 DEF PutInto
<1> DEFINE P == {m \in Nat : m <= Len(s) => Kept(put[m], s, m)}
<1>2. 0 \in P
  <2>1. CASE c = 0
    BY <1>1, <2>1 DEF Kept
  <2>2. CASE c # 0
    <3>1. c \in Capacities /\ c \in Nat \ {0}
      BY <2>2 DEF Capacities
    <3>2. Fits(EmptyTable(c), c, s, 0)
      BY <3>1, NothingCopied
    <3>3. Kept(put[0], s, 0)
      BY <1>1, <3>1, <3>2 DEF Kept
    <3> QED
      BY <3>3
  <2> QED
    BY <2>1, <2>2
<1>3. ASSUME NEW m \in P PROVE m + 1 \in P
  <2>1. m \in Nat /\ m + 1 \in Nat
    OBVIOUS
  <2>2. ASSUME m + 1 <= Len(s) PROVE Kept(put[m + 1], s, m + 1)
    <3>1. m \in 0..(Len(s) - 1)
      BY <1>0, <2>1, <2>2
    <3>2. Kept(put[m], s, m)
      BY <1>0, <1>3, <2>1, <2>2
    <3> HIDE DEF P
    <3>3. Kept(PutAgain(g, put[m], s[m + 1]), s, m + 1)
      BY <2>1, <2>2, <3>2, PutAgainKeeps
    <3> QED
      BY <1>1, <3>1, <3>3
  <2> QED
    BY <2>1, <2>2
<1>4. Len(s) \in P
  <2>1. P \in SUBSET Nat
    OBVIOUS
  <2> HIDE DEF P
  <2> QED
    BY <1>0, <1>2, <1>3, <2>1, NaturalInduction
<1> QED
  BY <1>0, <1>1, <1>4

(* If what was collected is no more than half of the slots, none grows in  *)
(* between, and there are as many slots as there were to be.               *)
LEMMA PutAllFits ==
  ASSUME NEW g, NEW s, Collection(s), NEW c \in Nat \ {0}, 2 * Len(s) <= c
  PROVE  Copied(PutAll(g, s, c), c, s, Len(s))
<1>0. Len(s) \in Nat
  BY DEF Collection
<1>00. PICK put : PutInto(put, g, s, c) /\ PutAll(g, s, c) = put[Len(s)]
  BY <1>0, PutSteps, Zenon
<1>1. /\ put[0] = EmptyTable(c) /\ PutAll(g, s, c) = put[Len(s)]
      /\ \A m \in 0..(Len(s) - 1) : put[m + 1] = PutAgain(g, put[m], s[m + 1])
  BY <1>00 DEF PutInto
<1> DEFINE P == {m \in Nat : m <= Len(s) => Copied(put[m], c, s, m)}
<1>2. 0 \in P
  BY <1>1, NothingCopied DEF Fits
<1>3. ASSUME NEW m \in P PROVE m + 1 \in P
  <2>1. m \in Nat /\ m + 1 \in Nat
    OBVIOUS
  <2>2. ASSUME m + 1 <= Len(s) PROVE Copied(put[m + 1], c, s, m + 1)
    <3>1. m \in 0..(Len(s) - 1) /\ m < c /\ 2 * (m + 1) <= c
      BY <1>0, <2>1, <2>2
    <3>2. Copied(put[m], c, s, m)
      BY <1>0, <1>3, <2>1, <2>2
    <3> HIDE DEF P
    <3> DEFINE u == put[m]
               w == [u EXCEPT ![Entry(u, s[m + 1].key)] = s[m + 1]]
    <3>3. Copied(w, c, s, m + 1)
      BY <2>1, <2>2, <3>1, <3>2, CopiesOneMore
    <3>4. Capacity(u) = c /\ Capacity(u) # 0
      BY <3>2, CapacityIs DEF Copied
    <3>5. Counted(w) = m + 1
      <4> HIDE DEF w
      <4> QED
        BY <3>3, CountedIs DEF Copied
    <3>6. ~Overloaded(Counted(w), Capacity(u))
      BY <2>1, <3>1, <3>4, <3>5 DEF Overloaded
    <3>7. PutAgain(g, u, s[m + 1]) = w
      BY <3>4, <3>6 DEF PutAgain
    <3>8. put[m + 1] = w
      BY <1>1, <3>1, <3>7
    <3> HIDE DEF w
    <3> QED
      BY <3>3, <3>8
  <2> QED
    BY <2>1, <2>2
<1>4. Len(s) \in P
  <2>1. P \in SUBSET Nat
    OBVIOUS
  <2> HIDE DEF P
  <2> QED
    BY <1>0, <1>2, <1>3, <2>1, NaturalInduction
<1> QED
  BY <1>0, <1>1, <1>4

(* The recursion of growth defines a function.                             *)
LEMMA GrowthRecursion ==
  ASSUME NEW t, NEW n
  PROVE  \E grow : /\ grow = [d \in 0..CapacityBits |->
                              [new \in Seq(LiveSlots) \X (0..(CapacityMod - 1)) |->
                                 IF d = 0 THEN EmptyTable(0)
                                 ELSE PutAll(grow[d - 1], new[1], new[2])]]
                   /\ Rehashed(t, n) = PutAll(grow[CapacityBits], Collected(t, n),
                                              Doubled(Capacity(t)))
<1> DEFINE News == Seq(LiveSlots) \X (0..(CapacityMod - 1))
           First == [new \in News |-> EmptyTable(0)]
           Then(g) == [new \in News |-> PutAll(g, new[1], new[2])]
           Level(f, d) == [new \in News |-> IF d = 0 THEN EmptyTable(0)
                                            ELSE PutAll(f[d - 1], new[1], new[2])]
           Solves(f, m) == f = [d \in 0..m |-> Level(f, d)]
           P == {m \in Nat : \E f : Solves(f, m)}
<1>0. \A f, d : Level(f, d) = IF d = 0 THEN First ELSE Then(f[d - 1])
  <2> SUFFICES ASSUME NEW f, NEW d
               PROVE  Level(f, d) = IF d = 0 THEN First ELSE Then(f[d - 1])
    OBVIOUS
  <2> HIDE DEF News
  <2> QED
    OBVIOUS
<1> HIDE DEF Level, First, Then
<1>1. 0 \in P
  <2> DEFINE f == [d \in 0..0 |-> First]
  <2>1. \A d \in 0..0 : f[d] = Level(f, d)
    BY <1>0
  <2>2. f = [d \in 0..0 |-> f[d]]
    OBVIOUS
  <2> HIDE DEF f
  <2>3. Solves(f, 0)
    BY <2>1, <2>2, Zenon
  <2> QED
    BY <2>3
<1>2. ASSUME NEW m \in P PROVE m + 1 \in P
  <2>1. PICK f : Solves(f, m)
    BY <1>2
  <2> DEFINE h == [d \in 0..(m + 1) |-> IF d = m + 1 THEN Then(f[m]) ELSE f[d]]
  <2>2. m \in Nat
    OBVIOUS
  <2>3. \A d \in 0..m : f[d] = IF d = 0 THEN First ELSE Then(f[d - 1])
    BY <1>0, <2>1
  <2>4. ASSUME NEW d \in 0..(m + 1)
        PROVE  h[d] = IF d = 0 THEN First ELSE Then(h[d - 1])
    <3>1. CASE d = m + 1
      <4>1. d # 0 /\ d - 1 = m /\ m \in 0..(m + 1) /\ m # m + 1
        BY <2>2, <3>1
      <4>2. h[m] = f[m] /\ h[d] = Then(f[m])
        BY <3>1, <4>1
      <4> QED
        BY <3>1, <4>1, <4>2
    <3>2. CASE d = 0
      <4>1. d \in 0..m /\ d # m + 1
        BY <2>2, <3>2
      <4> QED
        BY <2>3, <3>2, <4>1
    <3>3. CASE d # m + 1 /\ d # 0
      <4>1. d \in 0..m /\ d - 1 \in 0..(m + 1) /\ d - 1 # m + 1
        BY <2>2, <3>3
      <4>2. h[d] = f[d] /\ h[d - 1] = f[d - 1]
        BY <3>3, <4>1
      <4> QED
        BY <2>3, <3>3, <4>1, <4>2
    <3> QED
      BY <3>1, <3>2, <3>3
  <2>5. h = [d \in 0..(m + 1) |-> h[d]]
    OBVIOUS
  <2> HIDE DEF h
  <2>6. \A d \in 0..(m + 1) : h[d] = Level(h, d)
    BY <1>0, <2>4
  <2>7. Solves(h, m + 1)
    BY <2>5, <2>6, Zenon
  <2>8. m + 1 \in Nat
    BY <2>2
  <2> QED
    BY <2>7, <2>8
<1>3. CapacityBits \in P
  <2>1. P \in SUBSET Nat
    OBVIOUS
  <2> HIDE DEF P
  <2> QED
    BY <1>1, <1>2, <2>1, NaturalInduction, DictAssumption
<1>4. \E f : Solves(f, CapacityBits)
  BY <1>3
<1> DEFINE grow == CHOOSE f : Solves(f, CapacityBits)
<1>5. Rehashed(t, n) = PutAll(grow[CapacityBits], Collected(t, n), Doubled(Capacity(t)))
  BY DEF Rehashed, Level
<1>6. Solves(grow, CapacityBits)
  <2> HIDE DEF Solves
  <2> QED
    BY <1>4
<1> HIDE DEF grow
<1> QED
  BY <1>5, <1>6 DEF Level

(* However deep it goes, it keeps what was collected, or leaves no slots.  *)
LEMMA GrowthKeeps ==
  ASSUME NEW grow,
         grow = [d \in 0..CapacityBits |->
                   [new \in Seq(LiveSlots) \X (0..(CapacityMod - 1)) |->
                      IF d = 0 THEN EmptyTable(0)
                      ELSE PutAll(grow[d - 1], new[1], new[2])]]
  PROVE  Grows(grow[CapacityBits])
<1> DEFINE P == {d \in Nat : d <= CapacityBits => Grows(grow[d])}
<1>0. CapacityBits \in Nat
  BY DictAssumption
<1>1. ASSUME NEW d \in 0..CapacityBits, NEW s \in Seq(LiveSlots),
             NEW c \in 0..(CapacityMod - 1)
      PROVE  grow[d][<<s, c>>] = IF d = 0 THEN EmptyTable(0) ELSE PutAll(grow[d - 1], s, c)
  <2>1. <<s, c>> \in Seq(LiveSlots) \X (0..(CapacityMod - 1))
    OBVIOUS
  <2>2. grow[d] = [new \in Seq(LiveSlots) \X (0..(CapacityMod - 1)) |->
                     IF d = 0 THEN EmptyTable(0)
                     ELSE PutAll(grow[d - 1], new[1], new[2])]
    BY Zenon
  <2> QED
    BY <2>1, <2>2
<1>2. 0 \in P
  <2>1. 0 \in 0..CapacityBits
    BY <1>0
  <2>2. Grows(grow[0])
    BY <1>1, <2>1 DEF Grows, Kept
  <2> QED
    BY <2>2
<1>3. ASSUME NEW d \in P PROVE d + 1 \in P
  <2>1. d \in Nat /\ d + 1 \in Nat
    OBVIOUS
  <2>2. ASSUME d + 1 <= CapacityBits PROVE Grows(grow[d + 1])
    <3>1. d + 1 \in 0..CapacityBits /\ d + 1 # 0 /\ (d + 1) - 1 = d
      BY <1>0, <2>1, <2>2
    <3>2. Grows(grow[d])
      BY <1>0, <1>3, <2>1, <2>2
    <3> HIDE DEF P
    <3>3. ASSUME NEW s \in Seq(LiveSlots), NEW c \in 0..(CapacityMod - 1), Collection(s)
          PROVE  Kept(grow[d + 1][<<s, c>>], s, Len(s))
      <4>1. grow[d + 1][<<s, c>>] = PutAll(grow[(d + 1) - 1], s, c)
        BY <1>1, <3>1
      <4>2. Kept(PutAll(grow[d], s, c), s, Len(s))
        BY <3>2, <3>3, PutAllKeeps
      <4> QED
        BY <3>1, <4>1, <4>2
    <3> QED
      BY <3>3 DEF Grows
  <2> QED
    BY <2>1, <2>2
<1>4. CapacityBits \in P
  <2>1. P \in SUBSET Nat
    OBVIOUS
  <2> HIDE DEF P
  <2> QED
    BY <1>0, <1>2, <1>3, <2>1, NaturalInduction
<1> QED
  BY <1>0, <1>4

(* Whatever collides and however often the new table grows: it has the     *)
(* same keys with the same values, and none that was removed, or no slots  *)
(* at all; and that is so only if doubling the capacity wraps around or    *)
(* the new table is too small.                                             *)
LEMMA RehashedIs ==
  ASSUME NEW C \in Capacities, NEW t \in Table(C), Findable(t, C),
         NEW n \in Nat, n = Cardinality(Live(t, C))
  PROVE  LET u == Rehashed(t, n)
         IN  \/ /\ Capacity(u) = 0
                /\ 2 * C >= CapacityMod \/ n > C
             \/ \E D \in Capacities :
                  /\ u \in Table(D) /\ Findable(u, D)
                  /\ Cardinality(Live(u, D)) = n /\ 2 * n <= D
                  /\ \A k \in Keys : Get(u, k) = Get(t, k)
<1> DEFINE u == Rehashed(t, n)
           s == Collected(t, n)
<1>0. C \in Nat \ {0} /\ CapacityMod \in Nat \ {0} /\ Capacity(t) = C
  BY CapacitiesAre, CapacityIs
<1>1. PICK grow : /\ grow = [d \in 0..CapacityBits |->
                              [new \in Seq(LiveSlots) \X (0..(CapacityMod - 1)) |->
                                 IF d = 0 THEN EmptyTable(0)
                                 ELSE PutAll(grow[d - 1], new[1], new[2])]]
                   /\ Rehashed(t, n) = PutAll(grow[CapacityBits], Collected(t, n),
                                              Doubled(Capacity(t)))
  BY GrowthRecursion
<1>2. PICK g : g = grow[CapacityBits] /\ Grows(g)
  BY <1>1, GrowthKeeps
<1>3. u = PutAll(g, s, Doubled(C))
  BY <1>0, <1>1, <1>2
<1>4. /\ Collection(s) /\ Len(s) = n
      /\ \A q \in Live(t, C) : \E i \in 1..n : s[i] = t[q]
      /\ \A i \in 1..n : \E q \in Live(t, C) : s[i] = t[q]
  BY <1>0, CollectedIs
<1> HIDE DEF u, s
<1>5. Doubled(C) \in 0..(CapacityMod - 1) /\ Doubled(C) = (2 * C) % CapacityMod
  <2>1. 2 * C \in Int
    BY <1>0
  <2> QED
    BY <1>0, <2>1, ModDef DEF Doubled, GrowthFactor
<1>6. Kept(u, s, n)
  BY <1>2, <1>3, <1>4, <1>5, PutAllKeeps
<1>7. CASE u = EmptyTable(0)
  <2>1. Capacity(u) = 0
    BY <1>7, NoSlotsIs
  <2>2. ASSUME 2 * C < CapacityMod, n <= C PROVE FALSE
    <3>1. Doubled(C) = 2 * C
      <4>1. PICK E \in 0..(CapacityMod - 1) : E = 2 * C
        BY <1>0, <2>2
      <4> QED
        BY <1>0, <1>5, <4>1, ModSmall
    <3>2. 2 * C \in Nat \ {0} /\ 2 * Len(s) <= 2 * C
      BY <1>0, <1>4, <2>2
    <3>3. Copied(u, 2 * C, s, Len(s))
      BY <1>3, <1>4, <3>1, <3>2, PutAllFits
    <3>4. Capacity(u) = 2 * C
      BY <3>2, <3>3, CapacityIs DEF Copied
    <3> QED
      BY <2>1, <3>2, <3>4
  <2> QED
    BY <1>0, <2>1, <2>2 DEF u
<1>8. ASSUME NEW D \in Capacities, Fits(u, D, s, n)
      PROVE  /\ u \in Table(D) /\ Findable(u, D)
             /\ Cardinality(Live(u, D)) = n /\ 2 * n <= D
             /\ \A k \in Keys : Get(u, k) = Get(t, k)
  <2>1. /\ u \in Table(D) /\ Findable(u, D) /\ Cardinality(Live(u, D)) = n
        /\ 2 * n <= D /\ D \in Nat \ {0}
        /\ \A i \in 1..n : \E p \in 0..(D - 1) : u[p] = s[i]
        /\ \A p \in 0..(D - 1) : u[p].key \in Keys => \E i \in 1..n : u[p] = s[i]
    BY <1>8, CapacitiesAre DEF Fits, Copied
  <2>2. ASSUME NEW k \in Keys PROVE Get(u, k) = Get(t, k)
    <3>1. CASE \E q \in 0..(C - 1) : t[q].key = k
      <4>1. PICK q \in 0..(C - 1) : t[q].key = k
        BY <3>1
      <4>2. PICK i \in 1..n : s[i] = t[q]
        BY <1>4, <4>1 DEF Live
      <4>3. PICK p \in 0..(D - 1) : u[p] = t[q]
        BY <2>1, <4>2
      <4>4. Get(t, k) = t[q].value
        BY <1>0, <4>1, LookUp
      <4>5. Get(u, k) = u[p].value
        BY <2>1, <4>1, <4>3, LookUp
      <4> QED
        BY <4>3, <4>4, <4>5
    <3>2. CASE \A q \in 0..(C - 1) : t[q].key # k
      <4>1. \A p \in 0..(D - 1) : u[p].key # k
        <5> SUFFICES ASSUME NEW p \in 0..(D - 1), u[p].key = k PROVE FALSE
          OBVIOUS
        <5>1. PICK i \in 1..n : u[p] = s[i]
          BY <2>1
        <5>2. PICK q \in Live(t, C) : s[i] = t[q]
          BY <1>4
        <5> QED
          BY <3>2, <5>1, <5>2 DEF Live
      <4>2. Get(u, k) = NoValue
        BY <2>1, <4>1, LookUp
      <4>3. Get(t, k) = NoValue
        BY <1>0, <3>2, LookUp
      <4> QED
        BY <4>2, <4>3
    <3> QED
      BY <3>1, <3>2
  <2> QED
    BY <2>1, <2>2
<1> QED
  BY <1>6, <1>7, <1>8 DEF Kept, u

-----------------------------------------------------------------------------
(* The invariant                                                           *)

(* size counts the live keys, at most half of the slots; and if a put has  *)
(* crashed, it was when at least half of them were taken by removed keys   *)
(* or more keys were live than a quarter of what the capacity can count.   *)
Good(C) ==
  /\ items \in Table(C) /\ Findable(items, C)
  /\ size = Cardinality(Live(items, C)) /\ 2 * size <= C
  /\ crashed \in BOOLEAN
  /\ crashed => \/ 2 * Cardinality(Holding(Removed)) >= C
                \/ 4 * (size + 1) > CapacityMod

Inv == \E C \in Capacities : Good(C)

(* A new table is good.                                                    *)
LEMMA InvInit == Init => Inv
<1> SUFFICES ASSUME Init PROVE Inv
  OBVIOUS
<1>1. PICK C \in InitialCapacities : items = EmptyTable(C)
  BY DEF Init
<1>2. C \in Capacities /\ C \in Nat \ {0}
  BY DictAssumption DEF Capacities, CapacityMod
<1>3. 2 * 0 <= C /\ size = 0 /\ crashed = FALSE
  BY <1>2 DEF Init
<1>4. Good(C)
  BY <1>1, <1>2, <1>3, EmptyTableIs DEF Good
<1> QED
  BY <1>2, <1>4 DEF Inv

(* What lh_dict_put does to a good table, if it finds a slot.              *)
LEMMA PutIs ==
  ASSUME NEW C \in Capacities, Good(C), NEW k \in Keys, NEW v \in Values,
         DictPut(k, v), ~crashed'
  PROVE  /\ \E D \in Capacities : Good(D)'
         /\ \A l \in Keys : Get(items, l)' = IF l = k THEN v ELSE Get(items, l)
<1>0. /\ items \in Table(C) /\ Findable(items, C) /\ Capacity(items) = C
      /\ size = Cardinality(Live(items, C)) /\ size \in Nat /\ 2 * size <= C
      /\ crashed' = FALSE /\ C \in Nat \ {0}
  <2>1. C \in Nat \ {0}
    BY CapacitiesAre
  <2>2. items \in Table(C)
    BY DEF Good
  <2>3. Capacity(items) = C /\ Cardinality(Live(items, C)) \in Nat
    BY <2>1, <2>2, CapacityIs, LiveIsFinite
  <2>4. crashed' = FALSE
    BY DEF Good, DictPut, Update, Insert
  <2> QED
    BY <2>1, <2>2, <2>3, <2>4 DEF Good
<1> DEFINE p == Entry(items, k)
<1>1. CASE p # NoSlot /\ items[p].key = k /\ Update(k, v, p)
  <2>1. p \in 0..(C - 1)
    BY <1>0, <1>1, EntryIs
  <2> HIDE DEF p
  <2>2. /\ items' \in Table(C) /\ Findable(items', C) /\ size' = size
        /\ items'[p].value = v
        /\ \A q \in 0..(C - 1) : q # p => items'[q] = items[q]
        /\ \A q \in 0..(C - 1) : items'[q].key = items[q].key
    <3>1. items' = [items EXCEPT ![p] = Slot(k, v)] /\ size' = size
      BY <1>1 DEF Update
    <3>2. Slot(k, v) \in Slots /\ Slot(k, v).key = items[p].key /\ Slot(k, v).value = v
      BY <1>1 DEF Slot, Slots, LiveSlots
    <3> DEFINE u == [items EXCEPT ![p] = Slot(k, v)]
    <3>3. /\ u \in Table(C) /\ Findable(u, C)
          /\ u[p] = Slot(k, v) /\ \A q \in 0..(C - 1) : q # p => u[q] = items[q]
          /\ \A q \in 0..(C - 1) : u[q].key = items[q].key
      BY <1>0, <2>1, <3>2, UpdateKeeps
    <3> HIDE DEF u
    <3>4. items' = u
      BY <3>1 DEF u
    <3> QED
      BY <3>1, <3>2, <3>3, <3>4
  <2>3. Live(items', C) = Live(items, C)
    BY <2>2 DEF Live
  <2>6. Good(C)'
    BY <1>0, <2>2, <2>3 DEF Good
  <2>7. ASSUME NEW l \in Keys
        PROVE  Get(items', l) = IF l = k THEN v ELSE Get(items, l)
    <3>0. items' \in Table(C) /\ Findable(items', C)
      BY <2>2
    <3>1. CASE l = k
      <4>1. items'[p].key = l
        BY <1>1, <2>1, <2>2, <3>1
      <4>2. Get(items', l) = items'[p].value
        BY <1>0, <2>1, <3>0, <4>1, LookUp
      <4> QED
        BY <2>2, <3>1, <4>2
    <3>2. CASE l # k /\ \E q \in 0..(C - 1) : items[q].key = l
      <4>1. PICK q \in 0..(C - 1) : items[q].key = l
        BY <3>2
      <4>2. items'[q] = items[q] /\ items'[q].key = l
        BY <1>1, <2>2, <3>2, <4>1
      <4>3. Get(items', l) = items'[q].value /\ Get(items, l) = items[q].value
        BY <1>0, <3>0, <4>1, <4>2, LookUp
      <4> QED
        BY <3>2, <4>2, <4>3
    <3>3. CASE l # k /\ \A q \in 0..(C - 1) : items[q].key # l
      <4>1. \A q \in 0..(C - 1) : items'[q].key # l
        BY <2>2, <3>3
      <4>2. Get(items', l) = NoValue /\ Get(items, l) = NoValue
        BY <1>0, <2>2, <3>3, <4>1, LookUp
      <4> QED
        BY <3>3, <4>2
    <3> QED
      BY <3>1, <3>2, <3>3
  <2> QED
    BY <2>6, <2>7 DEF Get
<1>2. CASE p # NoSlot /\ items[p].key = NoKey /\ Insert(k, v, p)
  <2> DEFINE filled == [items EXCEPT ![p] = Slot(k, v)]
  <2>1. p \in 0..(C - 1)
    BY <1>0, <1>2, EntryIs
  <2>2. Slot(k, v) \in Slots /\ Slot(k, v).key = k /\ Slot(k, v).value = v
    BY DEF Slot, Slots, LiveSlots
  <2>3. /\ filled \in Table(C) /\ Findable(filled, C) /\ filled[p] = Slot(k, v)
        /\ \A q \in 0..(C - 1) : q # p => filled[q] = items[q]
    BY <1>0, <1>2, <2>1, <2>2, InsertKeeps
  <2>4. /\ size' = size + 1 /\ Capacity(items') > 0
        /\ items' = IF Overloaded(size + 1, C) THEN Rehashed(filled, size + 1) ELSE filled
    BY <1>0, <1>2 DEF Insert
  <2>5. \A q \in 0..(C - 1) : items[q].key # k
    <3> SUFFICES ASSUME NEW q \in 0..(C - 1), items[q].key = k PROVE FALSE
      OBVIOUS
    <3>1. p = q
      BY <1>0, LookUp
    <3> QED
      BY <1>2, <3>1, KeysAreNot
  <2> HIDE DEF filled, p
  <2>6. Cardinality(Live(filled, C)) = size + 1
    BY <1>0, <1>2, <2>1, <2>2, <2>3, KeysAreNot, LiveOneMore
  <2>7. ASSUME NEW l \in Keys
        PROVE  Get(filled, l) = IF l = k THEN v ELSE Get(items, l)
    <3>1. CASE l = k
      <4>1. filled[p].key = l /\ filled[p].value = v
        BY <2>2, <2>3, <3>1
      <4>2. Get(filled, l) = filled[p].value
        BY <1>0, <2>1, <2>3, <4>1, LookUp
      <4> QED
        BY <3>1, <4>1, <4>2
    <3>2. CASE l # k /\ \E q \in 0..(C - 1) : items[q].key = l
      <4>1. PICK q \in 0..(C - 1) : items[q].key = l
        BY <3>2
      <4>2. filled[q] = items[q]
        BY <1>2, <2>3, <3>2, <4>1, KeysAreNot
      <4>3. Get(filled, l) = filled[q].value /\ Get(items, l) = items[q].value
        BY <1>0, <2>3, <4>1, <4>2, LookUp
      <4> QED
        BY <3>2, <4>2, <4>3
    <3>3. CASE l # k /\ \A q \in 0..(C - 1) : items[q].key # l
      <4>1. \A q \in 0..(C - 1) : filled[q].key # l
        BY <2>2, <2>3, <3>3
      <4>2. Get(filled, l) = NoValue /\ Get(items, l) = NoValue
        BY <1>0, <2>3, <3>3, <4>1, LookUp
      <4> QED
        BY <3>3, <4>2
    <3> QED
      BY <3>1, <3>2, <3>3
  <2>8. CASE ~Overloaded(size + 1, C)
    <3>1. items' = filled /\ 2 * (size + 1) <= C
      BY <1>0, <2>4, <2>8 DEF Overloaded
    <3>2. Good(C)'
      BY <1>0, <2>3, <2>4, <2>6, <3>1 DEF Good
    <3> QED
      BY <2>7, <3>1, <3>2 DEF Get
  <2>9. CASE Overloaded(size + 1, C)
    <3>1. size + 1 \in Nat
      BY <1>0
    <3>2. items' = Rehashed(filled, size + 1) /\ Capacity(items') # 0
      BY <2>4, <2>9
    <3>3. PICK D \in Capacities :
            /\ items' \in Table(D) /\ Findable(items', D)
            /\ Cardinality(Live(items', D)) = size + 1 /\ 2 * (size + 1) <= D
            /\ \A l \in Keys : Get(items', l) = Get(filled, l)
      BY <2>3, <2>6, <3>1, <3>2, RehashedIs
    <3>4. Good(D)'
      BY <1>0, <2>4, <3>3 DEF Good
    <3> QED
      BY <2>7, <3>3, <3>4 DEF Get
  <2> QED
    BY <2>8, <2>9
<1> QED
  BY <1>0, <1>1, <1>2 DEF DictPut

(* What lh_dict_remove does to one: the key is gone, and nothing else.     *)
LEMMA RemoveIs ==
  ASSUME NEW C \in Capacities, Good(C), NEW k \in Keys, DictRemove(k)
  PROVE  /\ Good(C)'
         /\ \A l \in Keys : Get(items, l)' = IF l = k THEN NoValue ELSE Get(items, l)
<1>0. /\ items \in Table(C) /\ Findable(items, C)
      /\ size = Cardinality(Live(items, C)) /\ size \in Nat /\ 2 * size <= C
      /\ crashed' = FALSE /\ C \in Nat \ {0}
  <2>1. C \in Nat \ {0}
    BY CapacitiesAre
  <2>2. Cardinality(Live(items, C)) \in Nat
    BY <2>1, LiveIsFinite DEF Good
  <2> QED
    BY <2>1, <2>2 DEF Good, DictRemove
<1> DEFINE p == Entry(items, k)
           u == [items EXCEPT ![p] = Slot(Removed, NoValue)]
<1>1. p # NoSlot /\ items[p].key = k /\ items' = u /\ size' = size - 1
  BY DEF DictRemove
<1>2. p \in 0..(C - 1)
  BY <1>0, <1>1, EntryIs
<1> HIDE DEF p
<1>3. /\ u \in Table(C) /\ Findable(u, C) /\ u[p] = Slot(Removed, NoValue)
      /\ \A q \in 0..(C - 1) : q # p => u[q] = items[q]
  <2>1. items \in Table(C) /\ Findable(items, C) /\ C \in Nat \ {0}
    BY <1>0
  <2> QED
    BY <1>2, <2>1, RemoveKeeps
<1> HIDE DEF u, p
<1>4. /\ items' \in Table(C) /\ Findable(items', C)
      /\ items'[p].key = Removed
      /\ \A q \in 0..(C - 1) : q # p => items'[q] = items[q]
  BY <1>1, <1>3 DEF Slot
<1>5. Cardinality(Live(items', C)) = size - 1
  BY <1>0, <1>1, <1>2, <1>4, KeysAreNot, LiveOneLess
<1>6. Good(C)'
  <2>1. 2 * (size - 1) <= C
    BY <1>0
  <2> QED
    BY <1>0, <1>1, <1>4, <1>5, <2>1 DEF Good
<1>7. ASSUME NEW l \in Keys
      PROVE  Get(items', l) = IF l = k THEN NoValue ELSE Get(items, l)
  <2>1. CASE l # k /\ \E q \in 0..(C - 1) : items[q].key = l
    <3>1. PICK q \in 0..(C - 1) : items[q].key = l
      BY <2>1
    <3>2. items'[q] = items[q] /\ items'[q].key = l
      BY <1>1, <1>4, <2>1, <3>1
    <3>3. Get(items', l) = items'[q].value /\ Get(items, l) = items[q].value
      BY <1>0, <1>4, <3>1, <3>2, LookUp
    <3> QED
      BY <2>1, <3>2, <3>3
  <2>2. CASE l # k /\ \A q \in 0..(C - 1) : items[q].key # l
    <3>1. \A q \in 0..(C - 1) : items'[q].key # l
      BY <1>4, <2>2, KeysAreNot
    <3>2. Get(items', l) = NoValue /\ Get(items, l) = NoValue
      BY <1>0, <1>4, <2>2, <3>1, LookUp
    <3> QED
      BY <2>2, <3>2
  <2>3. CASE l = k
    <3>1. ASSUME NEW q \in 0..(C - 1), items'[q].key = l PROVE FALSE
      <4>1. q # p /\ items[q].key = k
        BY <1>4, <2>3, <3>1, KeysAreNot
      <4>2. Entry(items, k) = q
        BY <1>0, <4>1, LookUp
      <4> QED
        BY <4>1, <4>2 DEF p
    <3>2. Get(items', l) = NoValue
      BY <1>0, <1>4, <3>1, LookUp
    <3> QED
      BY <2>3, <3>2
  <2> QED
    BY <2>1, <2>2, <2>3
<1> QED
  BY <1>6, <1>7 DEF Get

(* A put for which there is no slot: live and removed keys take up all.    *)
LEMMA FullIs ==
  ASSUME NEW C \in Nat \ {0}, Good(C), NEW k \in Keys, Entry(items, k) = NoSlot,
         crashed' = TRUE, UNCHANGED <<items, size>>
  PROVE  Good(C)'
<1>1. Entry(items, k) = NoSlot /\ crashed' = TRUE /\ UNCHANGED <<items, size>>
  OBVIOUS
<1>2. /\ items \in Table(C) /\ Findable(items, C) /\ size = Cardinality(Live(items, C))
      /\ 2 * size <= C
  BY DEF Good
<1>3. DOMAIN items = 0..(C - 1)
  BY <1>2, CapacityIs
<1>4. \A p \in 0..(C - 1) : ~Stops(items, k, p)
  BY <1>1, <1>2, EntryIs DEF NoSlot
<1>5. 0..(C - 1) = Live(items, C) \cup Holding(Removed)
  <2>1. ASSUME NEW p \in 0..(C - 1) PROVE items[p].key \in Keys \cup {Removed}
    <3>1. items[p] \in Slots
      BY <1>2 DEF Table
    <3> QED
      BY <1>4, <3>1 DEF Stops, Slots, LiveSlots
  <2> QED
    BY <1>3, <2>1 DEF Live, Holding
<1>6. Live(items, C) \cap Holding(Removed) = {}
  BY KeysAreNot DEF Live, Holding
<1>7. 0 \in Int /\ C - 1 \in Int
  OBVIOUS
<1>8. IsFiniteSet(0..(C - 1))
  BY <1>7, FS_Interval
<1>9. Cardinality(0..(C - 1)) = C
  BY <1>2, <1>3, CapacityIs DEF Capacity
<1>10. IsFiniteSet(Holding(Removed)) /\ IsFiniteSet(Live(items, C))
  BY <1>5, <1>8, FS_Subset
<1>11. PICK h \in Nat, n \in Nat :
          h = Cardinality(Holding(Removed)) /\ n = Cardinality(Live(items, C))
  BY <1>10, FS_CardinalityType
<1>12. C = n + h
  <2> DEFINE L == Live(items, C)
             H == Holding(Removed)
  <2>1. IsFiniteSet(L) /\ IsFiniteSet(H) /\ L \cap H = {}
    BY <1>6, <1>10
  <2>2. Cardinality(L \cup H) = C
    BY <1>5, <1>9
  <2>3. n = Cardinality(L) /\ h = Cardinality(H)
    BY <1>11
  <2> HIDE DEF L, H
  <2>4. Cardinality(L \cup H) = Cardinality(L) + Cardinality(H) - Cardinality(L \cap H)
    BY <2>1, FS_Union
  <2>5. Cardinality(L \cap H) = 0
    BY <2>1, FS_EmptySet
  <2> QED
    BY <2>2, <2>3, <2>4, <2>5
<1>13. 2 * h >= C
  BY <1>2, <1>11, <1>12
<1>14. Holding(Removed)' = Holding(Removed)
  BY <1>1 DEF Holding
<1> QED
  BY <1>1, <1>2, <1>11, <1>13, <1>14 DEF Good

(* A put after which the table has no slots: the capacity wrapped around.  *)
LEMMA WrapIs ==
  ASSUME NEW C \in Capacities, Good(C), NEW k \in Keys, NEW v \in Values,
         Entry(items, k) # NoSlot, items[Entry(items, k)].key = NoKey,
         Insert(k, v, Entry(items, k)), crashed = FALSE, crashed' = TRUE
  PROVE  Good(C)' /\ UNCHANGED <<items, size>>
<1>0. /\ items \in Table(C) /\ Findable(items, C) /\ C \in Nat \ {0}
      /\ size = Cardinality(Live(items, C)) /\ 2 * size <= C
  BY CapacitiesAre DEF Good
<1>1. size \in Nat /\ Capacity(items) = C /\ CapacityMod \in Nat
  BY <1>0, CapacityIs, LiveIsFinite, CapacitiesAre
<1> DEFINE p == Entry(items, k)
           filled == [items EXCEPT ![p] = Slot(k, v)]
           grown == IF Overloaded(size + 1, C) THEN Rehashed(filled, size + 1) ELSE filled
<1>2. p \in 0..(C - 1) /\ items[p].key = NoKey
  BY <1>0, EntryIs
<1>3. Slot(k, v) \in Slots /\ Slot(k, v).key = k
  BY DEF Slot, Slots, LiveSlots
<1>4. /\ filled \in Table(C) /\ Findable(filled, C) /\ filled[p] = Slot(k, v)
      /\ \A q \in 0..(C - 1) : q # p => filled[q] = items[q]
  BY <1>0, <1>2, <1>3, InsertKeeps
<1>5. Capacity(grown) = 0 /\ UNCHANGED <<items, size>>
  <2>1. \/ Capacity(grown) > 0 /\ UNCHANGED crashed
        \/ Capacity(grown) = 0 /\ UNCHANGED <<items, size>>
    BY <1>1 DEF Insert
  <2>2. ~UNCHANGED crashed
    OBVIOUS
  <2> QED
    BY <2>1, <2>2
<1> HIDE DEF filled, p
<1>6. Cardinality(Live(filled, C)) = size + 1
  BY <1>0, <1>2, <1>3, <1>4, KeysAreNot, LiveOneMore
<1>7. size + 1 <= C /\ size + 1 \in Nat
  BY <1>0, <1>1, <1>4, <1>6, LiveIsFinite
<1>8. Overloaded(size + 1, C) /\ Capacity(Rehashed(filled, size + 1)) = 0
  <2>1. Capacity(filled) = C /\ C # 0
    BY <1>0, <1>4, CapacityIs
  <2> QED
    BY <1>5, <2>1
<1>9. 2 * C >= CapacityMod
  <2>1. ASSUME NEW D \in Capacities, Rehashed(filled, size + 1) \in Table(D) PROVE FALSE
    <3>1. D \in Nat \ {0}
      BY CapacitiesAre
    <3> DEFINE u == Rehashed(filled, size + 1)
    <3>2. u \in Table(D)
      BY <2>1
    <3> HIDE DEF u
    <3>3. Capacity(u) = D
      BY <3>1, <3>2, CapacityIs
    <3> QED
      BY <1>8, <3>1, <3>3 DEF u
  <2>2. ~(size + 1 > C)
    BY <1>0, <1>7
  <2> QED
    BY <1>4, <1>6, <1>7, <2>1, <2>2, RehashedIs
<1>10. 4 * (size + 1) > CapacityMod
  BY <1>0, <1>1, <1>8, <1>9 DEF Overloaded
<1> QED
  BY <1>0, <1>5, <1>10 DEF Good

(* A put that crashes.                                                     *)
LEMMA CrashIs ==
  ASSUME NEW C \in Capacities, Good(C), NEW k \in Keys, NEW v \in Values,
         DictPut(k, v), crashed'
  PROVE  Good(C)' /\ UNCHANGED <<items, size>>
<1>0. C \in Nat \ {0} /\ crashed = FALSE
  BY CapacitiesAre DEF DictPut, Good
<1>1. CASE Entry(items, k) = NoSlot
  <2>1. crashed' = TRUE /\ UNCHANGED <<items, size>>
    BY <1>1 DEF DictPut
  <2> QED
    BY <1>0, <1>1, <2>1, FullIs
<1>2. CASE Entry(items, k) # NoSlot
  <2> DEFINE p == Entry(items, k)
  <2>1. \/ UNCHANGED crashed
        \/ items[p].key = NoKey /\ Insert(k, v, p)
    BY <1>2 DEF DictPut, Update
  <2>2. items[p].key = NoKey /\ Insert(k, v, p) /\ crashed' = TRUE
    BY <1>0, <2>1 DEF Insert
  <2> QED
    BY <1>0, <1>2, <2>2, WrapIs
<1> QED
  BY <1>1, <1>2

(* Every step of a dictionary, in terms of what lookups find.              *)
LEMMA InvNext ==
  ASSUME Inv, [Next]_vars
  PROVE  /\ Inv'
         /\ \/ \A l \in Keys : Get(items, l)' = Get(items, l)
            \/ \E k \in Keys, w \in Values \cup {NoValue} :
                 /\ w \in Values \/ DictRemove(k)
                 /\ \A l \in Keys : Get(items, l)' = IF l = k THEN w ELSE Get(items, l)
<1>1. PICK C \in Capacities : Good(C)
  BY DEF Inv
<1>2. CASE UNCHANGED vars
  <2>1. Good(C)' /\ \A l \in Keys : Get(items, l)' = Get(items, l)
    BY <1>1, <1>2 DEF vars, Good, Holding, Get
  <2> QED
    BY <2>1 DEF Inv
<1>3. ASSUME NEW k \in Keys, DictRemove(k)
      PROVE  /\ Inv'
             /\ \A l \in Keys :
                  Get(items, l)' = IF l = k THEN NoValue ELSE Get(items, l)
  <2>1. /\ Good(C)'
        /\ \A l \in Keys : Get(items, l)' = IF l = k THEN NoValue ELSE Get(items, l)
    BY <1>1, <1>3, RemoveIs
  <2> QED
    BY <2>1 DEF Inv
<1>4. ASSUME NEW k \in Keys, NEW v \in Values, DictPut(k, v), ~crashed'
      PROVE  /\ Inv'
             /\ \A l \in Keys : Get(items, l)' = IF l = k THEN v ELSE Get(items, l)
  <2>1. /\ \E D \in Capacities : Good(D)'
        /\ \A l \in Keys : Get(items, l)' = IF l = k THEN v ELSE Get(items, l)
    BY <1>1, <1>4, PutIs
  <2> QED
    BY <2>1 DEF Inv
<1>5. ASSUME NEW k \in Keys, NEW v \in Values, DictPut(k, v), crashed'
      PROVE  Inv' /\ \A l \in Keys : Get(items, l)' = Get(items, l)
  <2>1. Good(C)' /\ UNCHANGED <<items, size>>
    BY <1>1, <1>5, CrashIs
  <2> QED
    BY <2>1 DEF Inv, Get
<1>6. ASSUME NEW k \in Removable, DictRemove(k) PROVE k \in Keys
  BY DictAssumption
<1>7. CASE \E k \in Removable : DictRemove(k)
  <2>1. PICK k \in Keys : DictRemove(k)
    BY <1>6, <1>7
  <2>2. /\ Inv'
        /\ \A l \in Keys : Get(items, l)' = IF l = k THEN NoValue ELSE Get(items, l)
    BY <1>3, <2>1
  <2> QED
    BY <2>1, <2>2
<1>8. CASE \E k \in Keys, v \in Values : <<k, v>> \in Puts /\ DictPut(k, v)
  <2>1. PICK k \in Keys, v \in Values : DictPut(k, v)
    BY <1>8
  <2>2. CASE crashed'
    BY <1>5, <2>1, <2>2
  <2>3. CASE ~crashed'
    <3>1. /\ Inv'
          /\ \A l \in Keys : Get(items, l)' = IF l = k THEN v ELSE Get(items, l)
      BY <1>4, <2>1, <2>3
    <3> QED
      BY <3>1
  <2> QED
    BY <2>2, <2>3
<1> QED
  BY <1>2, <1>7, <1>8 DEF Next

(* So is every table that puts and removals make of it.                    *)
LEMMA InvInvariant == Spec => []Inv
<1>1. Inv /\ [Next]_vars => Inv'
  BY InvNext
<1> QED
  BY <1>1, InvInit, PTL DEF Spec

-----------------------------------------------------------------------------
(* The theorems                                                            *)

(* A table is always an array of slots, each with a key, no key or a       *)
(* removed one.                                                            *)
THEOREM DictTypeCorrect == Spec => []TypeOK
<1>1. Inv => TypeOK
  <2> SUFFICES ASSUME NEW C \in Capacities, Good(C) PROVE TypeOK
    BY DEF Inv
  <2>0. C \in Nat \ {0}
    BY CapacitiesAre
  <2>1. items \in Table(C) /\ size = Cardinality(Live(items, C)) /\ crashed \in BOOLEAN
    BY DEF Good
  <2>2. Capacity(items) = C /\ DOMAIN items = 0..(C - 1) /\ size \in Nat
    BY <2>0, <2>1, CapacityIs, LiveIsFinite
  <2>3. \A p \in DOMAIN items : items[p] \in Slots
    BY <2>1, <2>2 DEF Table
  <2>4. Capacity(items) > 0 /\ DOMAIN items = 0..(Capacity(items) - 1)
    BY <2>0, <2>2
  <2>5. \A p \in DOMAIN items :
          items[p] \in [key : Keys \cup {NoKey, Removed}, value : Values \cup {NoValue}]
    BY <2>3 DEF Slots, LiveSlots
  <2> QED
    BY <2>1, <2>2, <2>4, <2>5 DEF TypeOK
<1> QED
  BY <1>1, InvInvariant, PTL

(* size counts the live keys, each in one slot, at most half of the slots: *)
(* dict_increase_and_rehash copies all of them and writes no further.      *)
THEOREM SizeCountsLive == Spec => []SizeIsLive
<1>1. Inv => SizeIsLive
  <2> SUFFICES ASSUME NEW C \in Capacities, Good(C) PROVE SizeIsLive
    BY DEF Inv
  <2>0. C \in Nat \ {0}
    BY CapacitiesAre
  <2>1. /\ items \in Table(C) /\ Findable(items, C)
        /\ size = Cardinality(Live(items, C)) /\ 2 * size <= C
    BY DEF Good
  <2>2. Capacity(items) = C /\ DOMAIN items = 0..(C - 1) /\ size \in Nat
    BY <2>0, <2>1, CapacityIs, LiveIsFinite
  <2>3. size = Counted(items)
    BY <2>0, <2>1, CountedIs
  <2>4. ASSUME NEW k \in Keys PROVE Cardinality(Holding(k)) <= 1
    <3>1. \A p, q \in Holding(k) : p = q
      <4> SUFFICES ASSUME NEW p \in Holding(k), NEW q \in Holding(k) PROVE p = q
        OBVIOUS
      <4>1. Entry(items, k) = p /\ Entry(items, k) = q
        BY <2>0, <2>1, <2>2, LookUp DEF Holding
      <4> QED
        BY <4>1
    <3>2. CASE Holding(k) = {}
      <4>1. Cardinality(Holding(k)) = 0
        BY <3>2, FS_EmptySet
      <4> QED
        BY <4>1
    <3>3. CASE \E p : Holding(k) = {p}
      <4>1. Cardinality(Holding(k)) = 1
        BY <3>3, FS_Singleton
      <4> QED
        BY <4>1
    <3> QED
      BY <3>1, <3>2, <3>3
  <2>5. ~Overloaded(size, Capacity(items))
    BY <2>0, <2>1, <2>2 DEF Overloaded
  <2> QED
    BY <2>3, <2>4, <2>5 DEF SizeIsLive
<1> QED
  BY <1>1, InvInvariant, PTL

(* A dictionary crashes only when removed keys take up half of its slots   *)
(* or more, or with more live keys than a quarter of what its 16-bit       *)
(* capacity can count: below that, growth alone always makes room.         *)
THEOREM OnlyRemovalsOrWrapCrash == Spec => []CrashNeedsRemovalsOrWrap
<1>1. Inv => CrashNeedsRemovalsOrWrap
  <2> SUFFICES ASSUME NEW C \in Capacities, Good(C), crashed
               PROVE  CrashNeedsRemovalsOrWrap
    BY DEF Inv, CrashNeedsRemovalsOrWrap
  <2>1. C \in Nat \ {0} /\ items \in Table(C)
    BY CapacitiesAre DEF Good
  <2>2. Capacity(items) = C
    BY <2>1, CapacityIs
  <2> QED
    BY <2>2 DEF Good, CrashNeedsRemovalsOrWrap
<1> QED
  BY <1>1, InvInvariant, PTL

(* A loop over the first size keys goes only through keys that have a      *)
(* value, and leaves out no more of those than removed keys take up slots: *)
(* what free_args_dictionary and http_execute_request may miss.            *)
THEOREM LoopsMissNoMore == Spec => []LoopsMissRemoved
<1>1. Inv => LoopsMissRemoved
  <2> SUFFICES ASSUME NEW C \in Capacities, Good(C)
               PROVE  LoopsMissRemoved
    BY DEF Inv
  <2>1. /\ items \in Table(C) /\ Findable(items, C) /\ C \in Nat \ {0}
        /\ size = Cardinality(Live(items, C)) /\ size \in Nat
    <3>1. C \in Nat \ {0}
      BY CapacitiesAre
    <3> QED
      BY <3>1, LiveIsFinite DEF Good
  <2>2. DOMAIN items = 0..(C - 1) /\ Capacity(items) = C
    BY <2>1, CapacityIs
  <2> DEFINE keys == Keys \cup {Removed}
             s == SlotsListed(items, keys, C)
             live == {k \in Keys : Get(items, k) # NoValue}
             late == (size + 1)..Len(s)
             missed == live \ Visited
  <2>3. Lists(s, items, keys, C)
    BY <2>1, ListingIs
  <2>4. Len(s) \in Nat /\ Len(s) = Cardinality(Among(items, keys, C))
    BY <2>3 DEF Lists
  <2>5. Among(items, keys, C) = Live(items, C) \cup Holding(Removed)
    BY <2>2 DEF Among, Live, Holding
  <2>6. Visited = {s[i].key : i \in 1..size \cap 1..Len(s)} \cap Keys
    <3>1. GetKeys(items) = [i \in 1..Len(s) |-> s[i].key]
      BY <2>2 DEF GetKeys, KeysListed
    <3> HIDE DEF s
    <3> QED
      BY <3>1 DEF Visited
  <2>7. ASSUME NEW k \in Keys
        PROVE  k \in live <=> \E p \in Live(items, C) : items[p].key = k
    <3>1. CASE \E p \in 0..(C - 1) : items[p].key = k
      <4>1. PICK p \in 0..(C - 1) : items[p].key = k
        BY <3>1
      <4>2. items[p] \in Slots /\ p \in Live(items, C)
        BY <2>1, <4>1 DEF Table, Live
      <4>3. items[p].value \in Values
        BY <4>1, <4>2, KeysAreNot DEF Slots, LiveSlots
      <4>4. Get(items, k) # NoValue
        BY <2>1, <4>1, <4>3, KeysAreNot, LookUp
      <4> QED
        BY <4>1, <4>2, <4>4
    <3>2. CASE \A p \in 0..(C - 1) : items[p].key # k
      <4>1. Get(items, k) = NoValue
        BY <2>1, <3>2, LookUp
      <4> QED
        BY <3>2, <4>1 DEF Live
    <3> QED
      BY <3>1, <3>2
  <2> HIDE DEF s, live
  <2>8. Visited \subseteq live
    <3> SUFFICES ASSUME NEW k \in Visited PROVE k \in live
      OBVIOUS
    <3>1. k \in Keys
      BY <2>6
    <3>2. PICK i \in 1..Len(s) : s[i].key = k
      BY <2>6
    <3>3. PICK p \in Among(items, keys, C) : s[i] = items[p]
      BY <2>3 DEF Lists
    <3>4. p \in Live(items, C)
      BY <3>1, <3>2, <3>3 DEF Among, Live
    <3> QED
      BY <2>7, <3>1, <3>2, <3>3, <3>4
  <2>9. \A k \in missed : \E i \in late : s[i].key = k
    <3> SUFFICES ASSUME NEW k \in missed PROVE \E i \in late : s[i].key = k
      OBVIOUS
    <3>1. k \in Keys /\ k \in live /\ k \notin Visited
      BY DEF live
    <3>2. PICK p \in Live(items, C) : items[p].key = k
      BY <2>7, <3>1
    <3>3. p \in Among(items, keys, C)
      BY <2>5
    <3>4. PICK i \in 1..Len(s) : s[i] = items[p]
      BY <2>3, <3>3 DEF Lists
    <3>5. i \notin 1..size
      BY <2>6, <3>1, <3>2, <3>4
    <3>6. i \in late
      BY <2>1, <2>4, <3>5
    <3> QED
      BY <3>2, <3>4, <3>6
  <2>10. Cardinality(missed) <= Len(s) - size
    <3>1. size + 1 \in Int /\ Len(s) \in Int
      BY <2>1, <2>4
    <3>2. /\ IsFiniteSet(late)
          /\ Cardinality(late) = IF size + 1 > Len(s) THEN 0 ELSE Len(s) - (size + 1) + 1
      BY <3>1, FS_Interval
    <3>3. size <= Len(s)
      <4>1. IsFiniteSet(Among(items, keys, C))
        BY <2>1, AmongIsFinite
      <4>2. Live(items, C) \subseteq Among(items, keys, C)
        BY <2>5
      <4> QED
        BY <2>1, <2>4, <4>1, <4>2, FS_Subset
    <3>4. Cardinality(late) = Len(s) - size
      BY <2>1, <2>4, <3>2, <3>3
    <3> HIDE DEF late, missed
    <3>5. Cardinality(missed) <= Cardinality(late)
      <4> DEFINE at == [k \in missed |-> CHOOSE i \in late : s[i].key = k]
      <4>1. \A k \in missed : at[k] \in late /\ s[at[k]].key = k
        BY <2>9
      <4>2. at \in [missed -> late]
        BY <4>1
      <4> HIDE DEF at
      <4>3. at \in Injection(missed, late)
        BY <4>1, <4>2 DEF Injection, IsInjective
      <4> QED
        BY <3>2, <4>3, FS_Injection
    <3> QED
      BY <3>4, <3>5
  <2>11. Len(s) = size + Cardinality(Holding(Removed))
    <3> DEFINE L == Live(items, C)
               H == Holding(Removed)
    <3>1. IsFiniteSet(L \cup H) /\ Cardinality(L \cup H) = Len(s)
      BY <2>1, <2>4, <2>5, AmongIsFinite
    <3>2. L \cap H = {}
      BY KeysAreNot DEF Live, Holding
    <3>3. size = Cardinality(L) /\ size \in Nat
      BY <2>1
    <3> HIDE DEF L, H
    <3>4. IsFiniteSet(L) /\ IsFiniteSet(H)
      BY <3>1, FS_Subset
    <3>5. Cardinality(L \cup H) = Cardinality(L) + Cardinality(H) - Cardinality(L \cap H)
      BY <3>4, FS_Union
    <3>6. Cardinality(L \cap H) = 0 /\ Cardinality(H) \in Nat
      BY <3>2, <3>4, FS_EmptySet, FS_CardinalityType
    <3> QED
      BY <3>1, <3>3, <3>5, <3>6 DEF H
  <2>12. Cardinality(missed) <= Cardinality(Holding(Removed))
    <3> DEFINE h == Cardinality(Holding(Removed))
    <3>1. h \in Nat
      <4>1. IsFiniteSet(Holding(Removed))
        <5>1. Holding(Removed) \subseteq Among(items, keys, C)
          BY <2>5
        <5>2. IsFiniteSet(Among(items, keys, C))
          BY <2>1, AmongIsFinite
        <5> QED
          BY <5>1, <5>2, FS_Subset
      <4> QED
        BY <4>1, FS_CardinalityType
    <3> HIDE DEF h, missed
    <3>2. Len(s) - size = h
      BY <2>1, <2>11, <3>1 DEF h
    <3> QED
      BY <2>10, <3>2 DEF h
  <2> QED
    BY <2>8, <2>12 DEF LoopsMissRemoved, live
<1> QED
  BY <1>1, InvInvariant, PTL

(* Through any collisions, removals and growth, a lookup finds the last    *)
(* value put for its key: the table implements a map.                      *)
THEOREM TableIsMap == Spec => ImplementsMap
<1> DEFINE found == [k \in Keys |-> Get(items, k)]
<1>1. Init => Map!Init
  <2> SUFFICES ASSUME Init, NEW k \in Keys PROVE Get(items, k) = NoValue
    BY DEF Map!Init
  <2>1. PICK C \in InitialCapacities : items = EmptyTable(C)
    BY DEF Init
  <2>2. C \in Nat \ {0}
    BY DictAssumption
  <2>3. \A p \in 0..(C - 1) : items[p].key # k
    BY <2>1, <2>2, EmptyTableIs, KeysAreNot
  <2> QED
    BY <2>1, <2>2, <2>3, EmptyTableIs, LookUp
<1>2. Inv /\ [Next]_vars => [Map!Next]_found
  <2> SUFFICES ASSUME Inv, [Next]_vars PROVE Map!Next \/ found' = found
    OBVIOUS
  <2>1. CASE \A l \in Keys : Get(items, l)' = Get(items, l)
    <3>1. found' = found
      BY <2>1
    <3> QED
      BY <3>1
  <2>2. CASE \E k \in Keys, w \in Values \cup {NoValue} :
                 /\ w \in Values \/ DictRemove(k)
                 /\ \A l \in Keys : Get(items, l)' = IF l = k THEN w ELSE Get(items, l)
    <3>1. PICK k \in Keys, w \in Values \cup {NoValue} :
            \A l \in Keys : Get(items, l)' = IF l = k THEN w ELSE Get(items, l)
      BY <2>2
    <3>2. found' = [found EXCEPT ![k] = w]
      BY <3>1
    <3>3. w = NoValue => Map!Remove(k)
      BY <3>2 DEF Map!Remove
    <3>4. w \in Values => Map!Put(k, w)
      BY <3>2 DEF Map!Put
    <3> QED
      BY <3>3, <3>4 DEF Map!Next
  <2> QED
    BY <2>1, <2>2, InvNext
<1> QED
  BY <1>1, <1>2, InvInvariant, PTL DEF Spec, ImplementsMap, Map!Spec
=============================================================================
