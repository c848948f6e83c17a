---------------------------- MODULE DeviceDataProofs ----------------------------
(***************************************************************************)
(* What is proved of the data of a device: sequences and blocks of bytes;  *)
(* the lists, and the steps of setup() on the model, for any components,   *)
(* actions and events, and lists of any width and capacity; and the        *)
(* attribute that tells the status and the arguments of an action.  The    *)
(* theorems that rest on it are in DeviceMessagesProofs, whose             *)
(* specification takes the steps of setup().                               *)
(***************************************************************************)
EXTENDS DeviceModel, ArgsCodec, NumberTheorems, SequenceTheorems

-----------------------------------------------------------------------------
(* Sequences                                                               *)

(* A function from 1..n is a sequence of length n.                         *)
LEMMA LenIs ==
  ASSUME NEW n \in Nat, NEW S, NEW s \in [1..n -> S]
  PROVE  s \in Seq(S) /\ Len(s) = n
<1>1. s \in Seq(S)
  BY SeqDef
<1>2. Len(s) \in Nat /\ 1..Len(s) = 1..n
  BY <1>1, LenProperties
<1> QED
  BY <1>1, <1>2

(* A sequence of anything.                                                 *)
IsSeq(s) == s \in Seq({s[i] : i \in DOMAIN s})

(* A function from 1..n is one, and so is a sequence of any set.           *)
LEMMA SeqIs ==
  /\ \A S : \A s \in Seq(S) : IsSeq(s) /\ Len(s) \in Nat /\ DOMAIN s = 1..Len(s)
  /\ \A n \in Nat : \A s : DOMAIN s = 1..n /\ s = [i \in 1..n |-> s[i]] =>
       IsSeq(s) /\ Len(s) = n
<1>1. ASSUME NEW n \in Nat, NEW s, DOMAIN s = 1..n, s = [i \in 1..n |-> s[i]]
      PROVE  IsSeq(s) /\ Len(s) = n
  <2>1. s \in [1..n -> {s[i] : i \in DOMAIN s}]
    BY <1>1
  <2> QED
    BY <2>1, LenIs DEF IsSeq
<1>2. ASSUME NEW S, NEW s \in Seq(S)
      PROVE  IsSeq(s) /\ Len(s) \in Nat /\ DOMAIN s = 1..Len(s)
  <2>1. Len(s) \in Nat /\ DOMAIN s = 1..Len(s) /\ s \in [1..Len(s) -> S]
    BY LenProperties
  <2>2. s = [i \in 1..Len(s) |-> s[i]]
    BY <2>1
  <2> QED
    BY <1>1, <2>1, <2>2
<1> QED
  BY <1>1, <1>2

(* A sequence of n things.                                                 *)
HasLen(s, n) == n \in Nat /\ IsSeq(s) /\ Len(s) = n

(* What makes one, and what it is.                                         *)
LEMMA HasLenIs ==
  /\ \A s : IsSeq(s) => HasLen(s, Len(s))
  /\ \A s, n : HasLen(s, n) => n \in Nat /\ IsSeq(s) /\ Len(s) = n /\ DOMAIN s = 1..n
  /\ \A n \in Nat : \A s : DOMAIN s = 1..n /\ s = [i \in 1..n |-> s[i]] => HasLen(s, n)
BY SeqIs DEF IsSeq, HasLen

(* The n things of s, in u after the place p.                              *)
At(u, p, s, n) == \A i \in 1..n : u[p + i] = s[i]

(* Concatenation.                                                          *)
LEMMA ConcatIs ==
  ASSUME NEW s, NEW a \in Nat, HasLen(s, a), NEW t, NEW b \in Nat, HasLen(t, b)
  PROVE  HasLen(s \o t, a + b) /\ At(s \o t, 0, s, a) /\ At(s \o t, a, t, b)
<1> DEFINE S == {s[i] : i \in DOMAIN s} \cup {t[i] : i \in DOMAIN t}
<1>0. /\ IsSeq(s) /\ Len(s) = a /\ DOMAIN s = 1..a
      /\ IsSeq(t) /\ Len(t) = b /\ DOMAIN t = 1..b
  BY HasLenIs
<1>1. s \in Seq(S) /\ t \in Seq(S)
  <2>1. s \in [1..a -> S] /\ t \in [1..b -> S]
    BY <1>0, LenProperties DEF IsSeq
  <2> QED
    BY <2>1, LenIs
<1> HIDE DEF S
<1>2. /\ s \o t \in Seq(S) /\ Len(s \o t) = a + b
      /\ \A i \in 1..(a + b) : (s \o t)[i] = IF i <= a THEN s[i] ELSE t[i - a]
  BY <1>0, <1>1, ConcatProperties
<1>3. ASSUME NEW i \in 1..b PROVE (s \o t)[a + i] = t[i]
  <2>1. a + i \in 1..(a + b) /\ ~(a + i <= a) /\ (a + i) - a = i
    OBVIOUS
  <2> QED
    BY <1>2, <2>1
<1>4. ASSUME NEW i \in 1..a PROVE (s \o t)[0 + i] = s[i]
  <2>1. i \in 1..(a + b) /\ i <= a /\ 0 + i = i
    OBVIOUS
  <2> QED
    BY <1>2, <2>1
<1>5. HasLen(s \o t, a + b)
  BY <1>2, SeqIs DEF HasLen
<1> QED
  BY <1>3, <1>4, <1>5 DEF At

(* Sequences of the same length with the same bytes are equal.             *)
LEMMA SameSeq ==
  ASSUME NEW n \in Nat, NEW s, HasLen(s, n), NEW t, HasLen(t, n), \A i \in 1..n : s[i] = t[i]
  PROVE  s = t
<1>1. s \in [1..n -> {s[i] : i \in DOMAIN s}] /\ t \in [1..n -> {t[i] : i \in DOMAIN t}]
  BY LenProperties DEF IsSeq, HasLen
<1>2. s = [i \in 1..n |-> s[i]] /\ t = [i \in 1..n |-> t[i]]
  BY <1>1
<1> QED
  BY <1>2

(* Two bytes of a number.                                                  *)
LEMMA U16Is ==
  ASSUME NEW n
  PROVE  /\ HasLen(U16(n), 2)
         /\ U16(n)[1] = (n \div 256) % 256 /\ U16(n)[2] = n % 256
<1>1. PICK a, b : a = (n \div 256) % 256 /\ b = n % 256
  OBVIOUS
<1>2. U16(n) = <<a, b>>
  BY <1>1 DEF U16
<1>3. <<a, b>> \in Seq({a, b}) /\ Len(<<a, b>>) = 2
  OBVIOUS
<1>4. HasLen(<<a, b>>, 2)
  BY <1>3, SeqIs DEF HasLen
<1> QED
  BY <1>1, <1>2, <1>4

-----------------------------------------------------------------------------
(* Memory                                                                  *)

(* A block of n bytes, and the places at which two blocks agree.           *)
IsBlock(mem, n) == n \in Nat /\ DOMAIN mem = 0..(n - 1)
Agree(u, w, from, to) == \A i \in from..to : u[i] = w[i]

(* What is in a block is in another that agrees with it there.             *)
LEMMA AtAgrees ==
  ASSUME NEW u, NEW w, NEW from \in Int, NEW to \in Int, Agree(u, w, from, to),
         NEW p \in Int, NEW s, NEW n \in Nat, At(w, p, s, n), from <= p + 1, p + n <= to
  PROVE  At(u, p, s, n)
<1> SUFFICES ASSUME NEW i \in 1..n PROVE u[p + i] = s[i]
  BY DEF At
<1>1. p + i \in from..to
  OBVIOUS
<1>2. u[p + i] = w[p + i]
  BY <1>1 DEF Agree
<1> QED
  BY <1>2 DEF At

(* Writing into a block.                                                   *)
LEMMA WriteIs ==
  ASSUME NEW mem, NEW n \in Nat, IsBlock(mem, n), NEW p \in Int,
         NEW s, NEW k \in Nat, HasLen(s, k), -1 <= p, p + k < n
  PROVE  /\ IsBlock(Write(mem, p + 1, s), n)
         /\ Agree(Write(mem, p + 1, s), mem, 0, p)
         /\ Agree(Write(mem, p + 1, s), mem, p + k + 1, n - 1)
         /\ At(Write(mem, p + 1, s), p, s, k)
<1> DEFINE w == Write(mem, p + 1, s)
<1>0. Len(s) = k /\ DOMAIN mem = 0..(n - 1)
  BY DEF HasLen, IsBlock
<1>1. w = [i \in 0..(n - 1) |->
             IF i \in (p + 1)..(p + 1 + k - 1) THEN s[i - (p + 1) + 1] ELSE mem[i]]
  BY <1>0 DEF Write
<1> HIDE DEF w
<1>2. ASSUME NEW i \in 1..k PROVE w[p + i] = s[i]
  <2>1. PICK j \in 0..(n - 1) : j = p + i /\ j \in (p + 1)..(p + 1 + k - 1) /\ j - (p + 1) + 1 = i
    OBVIOUS
  <2>2. w[j] = s[j - (p + 1) + 1]
    BY <1>1, <2>1
  <2> QED
    BY <2>1, <2>2
<1>3. ASSUME NEW i \in 0..(n - 1), i <= p \/ i > p + k PROVE w[i] = mem[i]
  BY <1>1, <1>3
<1>4. Agree(w, mem, 0, p)
  <2>1. \A i \in 0..p : i \in 0..(n - 1) /\ i <= p
    OBVIOUS
  <2> QED
    BY <1>3, <2>1 DEF Agree
<1>5. Agree(w, mem, p + k + 1, n - 1)
  <2>1. \A i \in (p + k + 1)..(n - 1) : i \in 0..(n - 1) /\ i > p + k
    OBVIOUS
  <2> QED
    BY <1>3, <2>1 DEF Agree
<1>6. IsBlock(w, n)
  BY <1>1 DEF IsBlock
<1> QED
  BY <1>2, <1>4, <1>5, <1>6 DEF w, At

(* What is in a part is in the whole.                                      *)
LEMMA AtNested ==
  ASSUME NEW x, NEW p \in Int, NEW s, NEW k \in Nat, At(x, p, s, k),
         NEW q \in Nat, NEW u, NEW j \in Nat, At(s, q, u, j), q + j <= k
  PROVE  At(x, p + q, u, j)
<1> SUFFICES ASSUME NEW i \in 1..j PROVE x[(p + q) + i] = u[i]
  BY Zenon DEF At
<1>1. q + i \in 1..k /\ p + (q + i) = (p + q) + i
  OBVIOUS
<1>2. x[p + (q + i)] = s[q + i] /\ s[q + i] = u[i]
  BY <1>1 DEF At
<1> QED
  BY <1>1, <1>2

-----------------------------------------------------------------------------
(* Lists                                                                   *)

ListsOf(S) == [max : Nat, items : Seq(S), stuck : BOOLEAN, cut : BOOLEAN]

(* A list has room for what is in it, and is what was added to it; unless  *)
(* its capacity has wrapped around, which it does only with half of what   *)
(* its counter can count.                                                  *)
Faithful(list, all) ==
  /\ Len(list.items) <= list.max
  /\ IF list.stuck \/ list.cut THEN Len(list.items) >= CapacityMod \div 2
     ELSE list.items = all

(* The same of a list that was made.                                       *)
Made(list, all, S) ==
  list \in ListsOf(S) /\ list.max \in 1..(CapacityMod - 1) /\ Faithful(list, all)

(* The counters have room for at least one doubling.                       *)
LEMMA CapacityModIs ==
  /\ CapacityMod \in Nat \ {0} /\ InitialCapacity \in 1..(CapacityMod - 1)
  /\ CapacityBits \in Nat \ {0}
BY ListAssumption DEF CapacityMod

(* Doubling a capacity once.                                               *)
LEMMA DoubledIs ==
  ASSUME NEW max \in 1..(CapacityMod - 1)
  PROVE  /\ 2 * max < CapacityMod => Doubled(max, 1) = 2 * max
         /\ \A k \in Nat : Doubled(max, k) \in 0..(CapacityMod - 1)
<1>1. 2^1 = 2 /\ max * 2^1 = 2 * max
  OBVIOUS
<1>2. Doubled(max, 1) = (2 * max) % CapacityMod
  BY <1>1 DEF Doubled
<1>3. 2 * max < CapacityMod => (2 * max) % CapacityMod = 2 * max
  BY CapacityModIs, ModSmall
<1>4. ASSUME NEW k \in Nat PROVE Doubled(max, k) \in 0..(CapacityMod - 1)
  <2>1. PICK n \in Int : n = max * 2^k
    OBVIOUS
  <2> QED
    BY <2>1, CapacityModIs, ModDef DEF Doubled
<1> QED
  BY <1>2, <1>3, <1>4

(* lh_list_add, through any number of doublings.                           *)
LEMMA AddIs ==
  ASSUME NEW S, NEW list, NEW all \in Seq(S), Made(list, all, S), NEW e \in S
  PROVE  Made(Add(list, e), Append(all, e), S)
<1> DEFINE size == Len(list.items)
           enough == {k \in 1..CapacityBits : Doubled(list.max, k) > size}
           last == CHOOSE k \in enough : \A n \in enough : k <= n
           more == Append(list.items, e)
           half == CapacityMod \div 2
<1>0. /\ CapacityMod \in Nat \ {0} /\ CapacityBits \in Nat \ {0}
      /\ half \in Nat /\ 2 * half <= CapacityMod
  BY CapacityModIs
<1>1. /\ list \in ListsOf(S) /\ list.max \in 1..(CapacityMod - 1)
      /\ size \in Nat /\ size <= list.max
      /\ IF list.stuck \/ list.cut THEN size >= half ELSE list.items = all
      /\ more \in Seq(S) /\ Len(more) = size + 1
  BY DEF Made, Faithful, ListsOf
<1>2. CASE size = 0 \/ size < list.max
  <2> DEFINE new == [list EXCEPT !.items = more]
  <2>1. Add(list, e) = new
    BY <1>2 DEF Add
  <2>2. /\ new \in ListsOf(S) /\ new.items = more /\ new.max = list.max
        /\ new.stuck = list.stuck /\ new.cut = list.cut
    BY <1>1 DEF ListsOf
  <2> HIDE DEF new, more, size, half
  <2>3. size + 1 <= new.max
    BY <1>1, <1>2, <2>2
  <2>4. Faithful(new, Append(all, e))
    BY <1>0, <1>1, <2>2, <2>3 DEF Faithful, more, half
  <2> QED
    BY <1>1, <2>1, <2>2, <2>4 DEF Made
<1>3. CASE size # 0 /\ ~(size < list.max)
  <2>1. PICK m \in 1..(CapacityMod - 1) : size = m /\ list.max = m
    BY <1>0, <1>1, <1>3
  <2>2. size < half => 1 \in enough
    <3>1. m < half => Doubled(m, 1) = 2 * m
      BY <1>0, DoubledIs
    <3>2. 1 \in 1..CapacityBits
      BY <1>0
    <3> QED
      BY <2>1, <3>1, <3>2
  <2>3. CASE enough = {}
    <3> DEFINE new == [list EXCEPT !.stuck = TRUE]
    <3>1. Add(list, e) = new
      BY <1>3, <2>3 DEF Add
    <3>2. /\ new \in ListsOf(S) /\ new.items = list.items /\ new.max = list.max
          /\ new.stuck = TRUE
      BY <1>1 DEF ListsOf
    <3>3. size >= half
      BY <1>0, <2>1, <2>2, <2>3
    <3> HIDE DEF new
    <3> QED
      BY <1>1, <3>1, <3>2, <3>3 DEF Made, Faithful
  <2>4. CASE enough # {}
    <3> DEFINE lost == \E k \in 1..last : Doubled(list.max, k) < size
               new == [max |-> Doubled(list.max, last), items |-> more,
                       stuck |-> list.stuck, cut |-> list.cut \/ lost]
    <3>1. Add(list, e) = new
      <4>1. Add(list, e) = [[list EXCEPT !.items = more] EXCEPT
                              !.max = Doubled(@, last), !.cut = @ \/ lost]
        BY <1>3, <2>4 DEF Add
      <4> QED
        BY <1>1, <4>1 DEF ListsOf
    <3>2. enough \in SUBSET Nat
      OBVIOUS
    <3>3. last \in enough /\ \A n \in enough : last <= n
      <4> HIDE DEF enough
      <4>1. \E k \in enough : \A n \in enough : k <= n
        BY <2>4, <3>2, LeastNatural
      <4> QED
        BY <4>1
    <3>4. last \in 1..CapacityBits /\ Doubled(list.max, last) > size
      BY <3>3
    <3>5. size < half => ~lost
      <4> SUFFICES ASSUME size < half, NEW k \in 1..last, Doubled(list.max, k) < size
                   PROVE  FALSE
        OBVIOUS
      <4> HIDE DEF last, enough
      <4>1. last = 1
        BY <2>2, <3>3, <3>4
      <4>2. k = 1
        BY <4>1
      <4>3. m < half /\ m < CapacityMod /\ 2 * m < CapacityMod
        BY <1>0, <2>1
      <4>4. Doubled(m, 1) = 2 * m
        BY <4>3, DoubledIs
      <4> QED
        BY <2>1, <4>2, <4>4
    <3> HIDE DEF last, enough
    <3>6. PICK max \in 0..(CapacityMod - 1) : max = Doubled(list.max, last)
      <4>1. PICK k \in Nat : k = last
        BY <1>0, <3>4
      <4>2. Doubled(m, k) \in 0..(CapacityMod - 1)
        BY DoubledIs
      <4> QED
        BY <2>1, <4>1, <4>2
    <3>7. max \in 1..(CapacityMod - 1) /\ size + 1 <= max
      BY <1>0, <2>1, <3>4, <3>6
    <3>8. PICK l \in BOOLEAN : l = lost
      OBVIOUS
    <3> HIDE DEF lost, more, size, half
    <3>9. /\ new \in ListsOf(S) /\ new.items = more /\ new.max = max
          /\ new.stuck = list.stuck /\ new.cut = (list.cut \/ l)
      BY <1>1, <3>6, <3>8 DEF ListsOf
    <3> HIDE DEF new
    <3>10. Faithful(new, Append(all, e))
      <4>1. CASE list.stuck \/ list.cut \/ l
        <5>1. size + 1 >= half
          BY <1>0, <1>1, <3>5, <3>8, <4>1
        <5>2. Len(new.items) <= new.max /\ Len(new.items) >= half
          BY <1>1, <3>7, <3>9, <5>1
        <5> QED
          BY <3>9, <4>1, <5>2 DEF Faithful, half
      <4>2. CASE ~(list.stuck \/ list.cut \/ l)
        <5>1. new.items = Append(all, e) /\ Len(new.items) <= new.max
          BY <1>1, <3>7, <3>9, <4>2 DEF more
        <5> QED
          BY <3>9, <4>2, <5>1 DEF Faithful
      <4> QED
        BY <4>1, <4>2
    <3> QED
      BY <3>1, <3>7, <3>9, <3>10 DEF Made
  <2> QED
    BY <2>3, <2>4
<1> QED
  BY <1>2, <1>3

-----------------------------------------------------------------------------
(* Lengths                                                                 *)

(* The total of a list of numbers, one number after another.               *)
LEMMA TotalRecursion ==
  ASSUME NEW n \in Nat, NEW a \in [1..n -> Nat]
  PROVE  \E sum : /\ sum[0] = 0 /\ \A i \in 1..n : sum[i] = sum[i - 1] + a[i]
                  /\ Total(a) = sum[n]
<1> DEFINE Solves(f, m) ==
             f = [i \in 0..m |-> IF i = 0 THEN 0 ELSE f[i - 1] + a[i]]
           P == {m \in Nat : \E f : Solves(f, m)}
<1>1. 0 \in P
  <2> DEFINE f == [i \in 0..0 |-> 0]
  <2>1. Solves(f, 0)
    OBVIOUS
  <2> QED
    BY <2>1
<1>2. ASSUME NEW m \in P PROVE m + 1 \in P
  <2>1. PICK f : Solves(f, m)
    BY <1>2
  <2> DEFINE g == [i \in 0..(m + 1) |-> IF i = m + 1 THEN f[m] + a[m + 1] ELSE f[i]]
  <2>2. m \in Nat /\ m + 1 \in Nat
    OBVIOUS
  <2>3. \A i \in 0..m : f[i] = IF i = 0 THEN 0 ELSE f[i - 1] + a[i]
    BY <2>1
  <2>4. ASSUME NEW i \in 0..(m + 1)
        PROVE  g[i] = IF i = 0 THEN 0 ELSE g[i - 1] + a[i]
    <3>1. CASE i = m + 1
      <4>1. i # 0 /\ i - 1 = m /\ m \in 0..(m + 1) /\ m # m + 1
        BY <2>2, <3>1
      <4>2. g[m] = f[m] /\ g[i] = f[m] + a[i]
        BY <3>1, <4>1
      <4> QED
        BY <4>1, <4>2
    <3>2. CASE i = 0
      <4>1. i \in 0..m /\ i # m + 1
        BY <2>2, <3>2
      <4> QED
        BY <2>3, <3>2, <4>1
    <3>3. CASE i # m + 1 /\ i # 0
      <4>1. i \in 0..m /\ i - 1 \in 0..(m + 1) /\ i - 1 # m + 1
        BY <2>2, <3>3
      <4>2. g[i] = f[i] /\ g[i - 1] = f[i - 1]
        BY <3>3, <4>1
      <4> QED
        BY <2>3, <3>3, <4>1, <4>2
    <3> QED
      BY <3>1, <3>2, <3>3
  <2>5. g = [i \in 0..(m + 1) |-> g[i]]
    OBVIOUS
  <2> HIDE DEF g
  <2>6. Solves(g, m + 1)
    BY <2>4, <2>5, Zenon
  <2> QED
    BY <2>2, <2>6
<1>3. n \in P
  <2>1. P \in SUBSET Nat
    OBVIOUS
  <2> HIDE DEF P
  <2> QED
    BY <1>1, <1>2, <2>1, NaturalInduction
<1>4. \E f : Solves(f, n)
  BY <1>3
<1>5. Total(a) = (CHOOSE f : Solves(f, n))[n]
  <2>1. Len(a) = n
    BY LenIs
  <2> QED
    BY <2>1 DEF Total
<1> DEFINE sum == CHOOSE f : Solves(f, n)
<1>6. Solves(sum, n)
  <2> HIDE DEF Solves
  <2> QED
    BY <1>4
<1> HIDE DEF sum
<1>7. sum[0] = 0
  <2>1. 0 \in 0..n
    OBVIOUS
  <2> QED
    BY <1>6, <2>1
<1>8. ASSUME NEW i \in 1..n PROVE sum[i] = sum[i - 1] + a[i]
  <2>1. i \in 0..n /\ i # 0
    OBVIOUS
  <2> QED
    BY <1>6, <2>1
<1> QED
  BY <1>5, <1>7, <1>8 DEF sum

(* If each text, with a comma after it, takes no more than eight times the *)
(* length that is counted for it, so do all of them with their commas.     *)
LEMMA TotalWithin ==
  ASSUME NEW n \in Nat, NEW a \in [1..n -> Nat], NEW b \in [1..n -> Nat],
         \A i \in 1..n : a[i] + 1 <= 8 * b[i]
  PROVE  Total(a) \in Nat /\ Total(b) \in Nat /\ Total(a) + n <= 8 * Total(b)
<1>1. PICK s : /\ s[0] = 0 /\ \A i \in 1..n : s[i] = s[i - 1] + a[i]
               /\ Total(a) = s[n]
  BY TotalRecursion
<1>2. PICK t : /\ t[0] = 0 /\ \A i \in 1..n : t[i] = t[i - 1] + b[i]
               /\ Total(b) = t[n]
  BY TotalRecursion
<1> DEFINE P == {m \in Nat : m <= n => s[m] \in Nat /\ t[m] \in Nat /\ s[m] + m <= 8 * t[m]}
<1>3. 0 \in P
  BY <1>1, <1>2
<1>4. ASSUME NEW m \in P PROVE m + 1 \in P
  <2>1. m \in Nat /\ m + 1 \in Nat
    OBVIOUS
  <2>2. ASSUME m + 1 <= n
        PROVE  s[m + 1] \in Nat /\ t[m + 1] \in Nat /\ s[m + 1] + (m + 1) <= 8 * t[m + 1]
    <3>1. m + 1 \in 1..n /\ (m + 1) - 1 = m
      BY <2>1, <2>2
    <3>2. s[m + 1] = s[m] + a[m + 1] /\ t[m + 1] = t[m] + b[m + 1]
      BY <1>1, <1>2, <3>1
    <3>3. PICK x \in Nat, y \in Nat : x = a[m + 1] /\ y = b[m + 1] /\ x + 1 <= 8 * y
      BY <3>1
    <3>4. PICK u \in Nat, v \in Nat : u = s[m] /\ v = t[m] /\ u + m <= 8 * v
      BY <1>4, <2>1, <2>2
    <3>5. s[m + 1] = u + x /\ t[m + 1] = v + y
      BY <3>2, <3>3, <3>4
    <3>6. u + x \in Nat /\ v + y \in Nat /\ (u + x) + (m + 1) <= 8 * (v + y)
      <4>1. PICK k \in Nat : k = m
        BY <2>1
      <4>2. x + 1 <= 8 * y /\ u + k <= 8 * v
        BY <3>3, <3>4, <4>1
      <4>3. (u + x) + (k + 1) <= 8 * (v + y)
        BY <4>2
      <4> QED
        BY <4>1, <4>3
    <3> QED
      BY <3>5, <3>6
  <2> QED
    BY <2>1, <2>2
<1>5. n \in P
  <2>1. P \in SUBSET Nat
    OBVIOUS
  <2> HIDE DEF P
  <2> QED
    BY <1>3, <1>4, <2>1, NaturalInduction
<1> QED
  BY <1>1, <1>2, <1>5

(* The same in the terms of the code: of a list, and of what is counted    *)
(* and written for each of its items.                                      *)
LEMMA SumsWithin ==
  ASSUME NEW S, NEW s \in Seq(S), NEW a, NEW b,
         a = [i \in 1..Len(s) |-> a[i]], b = [i \in 1..Len(s) |-> b[i]],
         \A i \in 1..Len(s) : a[i] \in Nat /\ b[i] \in Nat /\ a[i] + 1 <= 8 * b[i]
  PROVE  /\ Total(a) \in Nat /\ Total(b) \in Nat /\ Commas(s) \in Nat
         /\ Total(a) + Commas(s) <= 8 * Total(b)
<1>1. PICK n \in Nat : n = Len(s)
  BY LenProperties
<1>2. a \in [1..n -> Nat] /\ b \in [1..n -> Nat] /\ \A i \in 1..n : a[i] + 1 <= 8 * b[i]
  BY <1>1
<1>3. Total(a) \in Nat /\ Total(b) \in Nat /\ Total(a) + n <= 8 * Total(b)
  BY <1>2, TotalWithin
<1>4. Commas(s) \in Nat /\ Commas(s) <= n
  <2>1. s # << >> => n # 0
    BY <1>1, EmptySeq
  <2> QED
    BY <1>1, <2>1 DEF Commas
<1> QED
  BY <1>3, <1>4

(* The text of components is within eight times their length,              *)
LEMMA ComponentsWithin ==
  ASSUME NEW cs, AreComponents(cs)
  PROVE  /\ SumOf(ComponentLen, cs) \in Nat /\ ComponentsText(cs) \in Nat
         /\ ComponentsText(cs) <= 8 * SumOf(ComponentLen, cs)
<1> DEFINE a == [i \in 1..Len(cs) |-> ComponentText(cs[i])]
           b == [i \in 1..Len(cs) |-> ComponentLen(cs[i])]
<1>1. ASSUME NEW c, IsComponent(c)
      PROVE  /\ ComponentText(c) \in Nat /\ ComponentLen(c) \in Nat
             /\ ComponentText(c) + 1 <= 8 * ComponentLen(c)
  <2>1. PICK n \in Nat : n = Len(c.name)
    BY <1>1 DEF IsComponent
  <2>2. PICK t \in 0..9 : t = TypeLen(c.type)
    BY <1>1 DEF IsComponent, TypeLen
  <2> QED
    BY <2>1, <2>2, SMTT(30)
    DEF ComponentText, ComponentLen, MIN_COMP_JSON_LEN, MAX_STR_TYPE_LEN
<1>2. cs \in Seq({cs[i] : i \in DOMAIN cs})
  BY DEF AreComponents
<1>3. \A i \in 1..Len(cs) : a[i] \in Nat /\ b[i] \in Nat /\ a[i] + 1 <= 8 * b[i]
  BY <1>1 DEF AreComponents
<1>4. a = [i \in 1..Len(cs) |-> a[i]] /\ b = [i \in 1..Len(cs) |-> b[i]]
  OBVIOUS
<1>5. SumOf(ComponentLen, cs) = Total(b)
  BY DEF SumOf
<1>6. ComponentsText(cs) = Total(a) + Commas(cs)
  BY DEF SumOf, ComponentsText
<1> HIDE DEF a, b
<1>7. /\ Total(a) \in Nat /\ Total(b) \in Nat /\ Commas(cs) \in Nat
      /\ Total(a) + Commas(cs) <= 8 * Total(b)
  BY <1>2, <1>3, <1>4, SumsWithin
<1> QED
  BY <1>5, <1>6, <1>7

(* that of actions                                                         *)
LEMMA ActionsWithin ==
  ASSUME NEW s \in Seq(ActionOptions)
  PROVE  /\ SumOf(ActionText, s) \in Nat /\ SumOf(ActionLen, s) \in Nat /\ Commas(s) \in Nat
         /\ SumOf(ActionText, s) + Commas(s) <= 8 * SumOf(ActionLen, s)
<1> DEFINE a == [i \in 1..Len(s) |-> ActionText(s[i])]
           b == [i \in 1..Len(s) |-> ActionLen(s[i])]
<1>1. ASSUME NEW x \in ActionOptions
      PROVE  /\ ActionText(x) \in Nat /\ ActionLen(x) \in Nat
             /\ ActionText(x) + 1 <= 8 * ActionLen(x)
  <2>1. IsAction(x)
    BY ModelAssumption
  <2>2. PICK n \in Nat, d \in Nat : n = Len(x.name) /\ d = Strlen(x.description)
    BY <2>1 DEF IsAction, Lengths, Strlen, Null
  <2>3. PICK t \in Nat, l \in Nat : /\ t = ComponentsText(x.args.items)
                                    /\ l = SumOf(ComponentLen, x.args.items)
                                    /\ t <= 8 * l
    BY <2>1, ComponentsWithin DEF IsAction
  <2>4. ActionText(x) = 40 + n + d + t /\ ActionLen(x) = 40 + n + d + l
    BY <2>2, <2>3 DEF ActionText, ActionLen, MIN_ACTION_JSON_LEN
  <2>5. t <= 8 * l
    BY <2>3
  <2> QED
    BY <2>4, <2>5
<1>2. \A i \in 1..Len(s) : a[i] \in Nat /\ b[i] \in Nat /\ a[i] + 1 <= 8 * b[i]
  BY <1>1
<1>3. a = [i \in 1..Len(s) |-> a[i]] /\ b = [i \in 1..Len(s) |-> b[i]]
  OBVIOUS
<1>4. SumOf(ActionText, s) = Total(a) /\ SumOf(ActionLen, s) = Total(b)
  BY DEF SumOf
<1> HIDE DEF a, b
<1>5. /\ Total(a) \in Nat /\ Total(b) \in Nat /\ Commas(s) \in Nat
      /\ Total(a) + Commas(s) <= 8 * Total(b)
  BY <1>2, <1>3, SumsWithin
<1> QED
  BY <1>4, <1>5

(* and that of events.                                                     *)
LEMMA EventsWithin ==
  ASSUME NEW s \in Seq(EventOptions)
  PROVE  /\ SumOf(EventText, s) \in Nat /\ SumOf(EventLen, s) \in Nat /\ Commas(s) \in Nat
         /\ SumOf(EventText, s) + Commas(s) <= 8 * SumOf(EventLen, s)
<1> DEFINE a == [i \in 1..Len(s) |-> EventText(s[i])]
           b == [i \in 1..Len(s) |-> EventLen(s[i])]
<1>1. ASSUME NEW x \in EventOptions
      PROVE  /\ EventText(x) \in Nat /\ EventLen(x) \in Nat
             /\ EventText(x) + 1 <= 8 * EventLen(x)
  <2>1. IsEvent(x)
    BY ModelAssumption
  <2>2. PICK n \in Nat : n = Len(x.name)
    BY <2>1 DEF IsEvent
  <2>3. PICK t \in Nat, l \in Nat : /\ t = ComponentsText(x.components.items)
                                    /\ l = SumOf(ComponentLen, x.components.items)
                                    /\ t <= 8 * l
    BY <2>1, ComponentsWithin DEF IsEvent
  <2>4. EventText(x) = 27 + n + t /\ EventLen(x) = 27 + n + l
    BY <2>2, <2>3 DEF EventText, EventLen, MIN_EVENT_JSON_LEN
  <2>5. t <= 8 * l
    BY <2>3
  <2> QED
    BY <2>4, <2>5
<1>2. \A i \in 1..Len(s) : a[i] \in Nat /\ b[i] \in Nat /\ a[i] + 1 <= 8 * b[i]
  BY <1>1
<1>3. a = [i \in 1..Len(s) |-> a[i]] /\ b = [i \in 1..Len(s) |-> b[i]]
  OBVIOUS
<1>4. SumOf(EventText, s) = Total(a) /\ SumOf(EventLen, s) = Total(b)
  BY DEF SumOf
<1> HIDE DEF a, b
<1>5. /\ Total(a) \in Nat /\ Total(b) \in Nat /\ Commas(s) \in Nat
      /\ Total(a) + Commas(s) <= 8 * Total(b)
  BY <1>2, <1>3, SumsWithin
<1> QED
  BY <1>4, <1>5

(* The strings of a device without a model name are not counted: they may  *)
(* be no longer than what the eightfold allocation has to spare.           *)
UnnamedAreShort ==
  \A info \in Infos : info.model = Null =>
    Strlen(info.manufacturer) + Strlen(info.kind) + Strlen(info.serial) <= 1089

(* A descriptor fits in the memory allocated for it.                       *)
LEMMA DescriptorWithin ==
  ASSUME UnnamedAreShort, NEW d, ~FollowsNull(d), d.info \in Infos,
         d.status.items \in Seq(StatusOptions), d.actions.items \in Seq(ActionOptions),
         d.events.items \in Seq(EventOptions)
  PROVE  Written(d) <= Allocated(d)
<1>1. PICK sw \in Nat, sl \in Nat : /\ sw = ComponentsText(d.status.items)
                                    /\ sl = SumOf(ComponentLen, d.status.items)
                                    /\ sw <= 8 * sl
  <2>1. AreComponents(d.status.items)
    <3> DEFINE cs == d.status.items
    <3>1. cs \in [1..Len(cs) -> StatusOptions] /\ Len(cs) \in Nat
      BY LenProperties
    <3> HIDE DEF cs
    <3>2. cs \in [1..Len(cs) -> {cs[i] : i \in DOMAIN cs}]
      BY <3>1
    <3>3. cs \in Seq({cs[i] : i \in DOMAIN cs})
      BY <3>1, <3>2, LenIs
    <3>4. AreComponents(cs)
      BY <3>1, <3>3, ModelAssumption DEF AreComponents
    <3> QED
      BY <3>4 DEF cs
  <2> QED
    BY <2>1, ComponentsWithin
<1>2. PICK aw \in Nat, ac \in Nat, al \in Nat :
        /\ aw = SumOf(ActionText, d.actions.items) /\ ac = Commas(d.actions.items)
        /\ al = SumOf(ActionLen, d.actions.items) /\ aw + ac <= 8 * al
  BY ActionsWithin
<1>3. PICK ew \in Nat, ec \in Nat, el \in Nat :
        /\ ew = SumOf(EventText, d.events.items) /\ ec = Commas(d.events.items)
        /\ el = SumOf(EventLen, d.events.items) /\ ew + ec <= 8 * el
  BY EventsWithin
<1>4. PICK mo \in Lengths, ma \in Lengths, ki \in Lengths, se \in Lengths :
        /\ d.info.model = mo /\ d.info.manufacturer = ma
        /\ d.info.kind = ki /\ d.info.serial = se
  BY ModelAssumption
<1>5. PICK iw \in Nat, il \in Nat :
        /\ iw = Strlen(mo) + Strlen(ma) + Strlen(ki) + Strlen(se)
        /\ il = InfoLen(d.info) /\ iw <= 8 * il + 1089
  <2>1. CASE mo = Null
    <3>1. Strlen(ma) + Strlen(ki) + Strlen(se) <= 1089
      BY <1>4, <2>1 DEF UnnamedAreShort
    <3>2. InfoLen(d.info) = 0
      BY <1>4, <2>1 DEF InfoLen
    <3> QED
      BY <2>1, <3>1, <3>2 DEF Strlen, Lengths, Null
  <2>2. CASE mo # Null
    <3>1. mo \in Nat /\ ma \in Nat /\ ki \in Nat /\ se \in Nat
      BY <1>4, <2>2 DEF FollowsNull, Lengths
    <3>2. InfoLen(d.info) = mo + ma + ki + se
      BY <1>4, <2>2 DEF InfoLen
    <3>3. Strlen(mo) = mo /\ Strlen(ma) = ma /\ Strlen(ki) = ki /\ Strlen(se) = se
      BY <3>1 DEF Strlen, Null
    <3>4. mo + ma + ki + se \in Nat /\ mo + ma + ki + se <= 8 * (mo + ma + ki + se) + 1089
      BY <3>1
    <3> QED
      BY <3>2, <3>3, <3>4
  <2> QED
    BY <2>1, <2>2
<1>6. PICK m \in Nat, a \in Nat, k \in Nat, s \in Nat :
        Strlen(mo) = m /\ Strlen(ma) = a /\ Strlen(ki) = k /\ Strlen(se) = s
  BY DEF Strlen, Lengths, Null
<1>7. Written(d) = 134 + iw + sw + aw + ac + ew + ec + 1
  <2>1. Written(d) = 134 + m + a + k + s + sw + aw + ac + ew + ec + 1
    BY <1>1, <1>2, <1>3, <1>4, <1>6 DEF Written
  <2>2. iw = m + a + k + s
    BY <1>5, <1>6
  <2> QED
    BY <2>1, <2>2
<1>8. Allocated(d) = 8 * (153 + il + sl + al + el)
  BY <1>1, <1>2, <1>3, <1>5 DEF Allocated, DescriptorLen, MIN_DESCRIPTOR_JSON_LEN
<1>9. sw <= 8 * sl /\ aw + ac <= 8 * al /\ ew + ec <= 8 * el /\ iw <= 8 * il + 1089
  BY <1>1, <1>2, <1>3, <1>5
<1> QED
  BY <1>7, <1>8, <1>9

-----------------------------------------------------------------------------
(* The steps of setup()                                                    *)

(* A list that was not made yet holds nothing; any other is faithful.      *)
Kept(list, all, S) ==
  /\ all \in Seq(S)
  /\ Made(list, all, S) \/ (list = NoList /\ all = << >>)

Devices ==
  [status : ListsOf(StatusOptions), actions : ListsOf(ActionOptions),
   events : ListsOf(EventOptions), info : Infos]

ModelInv ==
  /\ device \in Devices
  /\ added \in [status : Seq(StatusOptions), actions : Seq(ActionOptions),
                events : Seq(EventOptions)]
  /\ Kept(device.status, added.status, StatusOptions)
  /\ Kept(device.actions, added.actions, ActionOptions)
  /\ Kept(device.events, added.events, EventOptions)

(* A list that is not made is one of any type.                             *)
LEMMA NoListType == \A S : NoList \in ListsOf(S)
BY DEF NoList, ListsOf

(* The list is made if there is none, and the item goes at its end.        *)
LEMMA ExtendedIs ==
  ASSUME NEW S, NEW list, NEW all, Kept(list, all, S), NEW e \in S
  PROVE  /\ Made(Extended(list, e), Append(all, e), S)
         /\ Kept(Extended(list, e), Append(all, e), S)
         /\ Extended(list, e) \in ListsOf(S)
<1>1. all \in Seq(S) /\ Append(all, e) \in Seq(S)
  BY DEF Kept
<1>2. CASE list = NoList
  <2>1. all = << >>
    BY <1>2, CapacityModIs DEF Kept, Made, NoList
  <2>2. InitialCapacity % CapacityMod = InitialCapacity
    BY CapacityModIs, ModSmall
  <2>3. /\ NewList = [max |-> InitialCapacity, items |-> << >>, stuck |-> FALSE,
                      cut |-> FALSE]
        /\ InitialCapacity \in 1..(CapacityMod - 1) /\ InitialCapacity \in Nat
    <3>1. PICK c : c = InitialCapacity % CapacityMod
      OBVIOUS
    <3>2. NewList = [max |-> c, items |-> << >>, stuck |-> FALSE, cut |-> FALSE]
      BY <3>1 DEF NewList, NewListOf
    <3>3. c = InitialCapacity
      BY <2>2, <3>1
    <3> QED
      BY <3>2, <3>3, CapacityModIs
  <2>4. Made(NewList, all, S)
    BY <2>1, <2>3 DEF Made, Faithful, ListsOf
  <2>5. Extended(list, e) = Add(NewList, e)
    BY <1>2 DEF Extended
  <2>6. Made(Add(NewList, e), Append(all, e), S)
    BY <1>1, <2>4, AddIs
  <2> QED
    BY <1>1, <2>5, <2>6 DEF Kept, Made
<1>3. CASE list # NoList
  <2>1. Made(list, all, S)
    BY <1>3 DEF Kept
  <2>2. Extended(list, e) = Add(list, e)
    BY <1>3 DEF Extended
  <2>3. Made(Add(list, e), Append(all, e), S)
    BY <1>1, <2>1, AddIs
  <2> QED
    BY <1>1, <2>2, <2>3 DEF Kept, Made
<1> QED
  BY <1>2, <1>3

(* Before setup() has added anything.                                      *)
LEMMA ModelInvInit == ModelInit => ModelInv /\ DescriptorFits
<1> SUFFICES ASSUME ModelInit PROVE ModelInv /\ DescriptorFits
  OBVIOUS
<1>1. PICK info \in Infos :
        device = [status |-> NoList, actions |-> NoList, events |-> NoList, info |-> info]
  BY DEF ModelInit
<1>2. added = [status |-> << >>, actions |-> << >>, events |-> << >>]
  BY DEF ModelInit
<1>3. device \in Devices
  BY <1>1, NoListType DEF Devices
<1>4. \A S : Kept(NoList, << >>, S)
  BY DEF Kept
<1>5. DescriptorFits
  BY DEF ModelInit, DescriptorFits
<1> QED
  BY <1>1, <1>2, <1>3, <1>4, <1>5 DEF ModelInv

(* One step of setup().                                                    *)
LEMMA ModelInvNext ==
  ASSUME ModelInv, Setup
  PROVE  ModelInv'
<1>0. /\ device \in Devices
      /\ added \in [status : Seq(StatusOptions), actions : Seq(ActionOptions),
                    events : Seq(EventOptions)]
      /\ Kept(device.status, added.status, StatusOptions)
      /\ Kept(device.actions, added.actions, ActionOptions)
      /\ Kept(device.events, added.events, EventOptions)
  BY DEF ModelInv
<1>1. ASSUME NEW c \in StatusOptions, AddStatusComponent(c) PROVE ModelInv'
  <2> DEFINE list == Extended(device.status, c)
             all == Append(added.status, c)
  <2>1. device' = [device EXCEPT !.status = list] /\ added' = [added EXCEPT !.status = all]
    BY <1>1 DEF AddStatusComponent, AddTo
  <2>2. Kept(list, all, StatusOptions) /\ list \in ListsOf(StatusOptions)
    BY <1>0, ExtendedIs
  <2>3. all \in Seq(StatusOptions)
    BY <2>2 DEF Kept
  <2> HIDE DEF list, all
  <2>4. /\ device' \in Devices /\ device'.status = list
        /\ device'.actions = device.actions /\ device'.events = device.events
    BY <1>0, <2>1, <2>2 DEF Devices
  <2>5. /\ added' \in [status : Seq(StatusOptions), actions : Seq(ActionOptions),
                       events : Seq(EventOptions)]
        /\ added'.status = all /\ added'.actions = added.actions
        /\ added'.events = added.events
    BY <1>0, <2>1, <2>3
  <2> QED
    BY <1>0, <2>2, <2>4, <2>5 DEF ModelInv
<1>2. ASSUME NEW a \in ActionOptions, AddAction(a) PROVE ModelInv'
  <2> DEFINE list == Extended(device.actions, a)
             all == Append(added.actions, a)
  <2>1. device' = [device EXCEPT !.actions = list] /\ added' = [added EXCEPT !.actions = all]
    BY <1>2 DEF AddAction, AddTo
  <2>2. Kept(list, all, ActionOptions) /\ list \in ListsOf(ActionOptions)
    BY <1>0, ExtendedIs
  <2>3. all \in Seq(ActionOptions)
    BY <2>2 DEF Kept
  <2> HIDE DEF list, all
  <2>4. /\ device' \in Devices /\ device'.actions = list
        /\ device'.status = device.status /\ device'.events = device.events
    BY <1>0, <2>1, <2>2 DEF Devices
  <2>5. /\ added' \in [status : Seq(StatusOptions), actions : Seq(ActionOptions),
                       events : Seq(EventOptions)]
        /\ added'.actions = all /\ added'.status = added.status
        /\ added'.events = added.events
    BY <1>0, <2>1, <2>3
  <2> QED
    BY <1>0, <2>2, <2>4, <2>5 DEF ModelInv
<1>3. ASSUME NEW e \in EventOptions, AddEvent(e) PROVE ModelInv'
  <2> DEFINE list == Extended(device.events, e)
             all == Append(added.events, e)
  <2>1. device' = [device EXCEPT !.events = list] /\ added' = [added EXCEPT !.events = all]
    BY <1>3 DEF AddEvent, AddTo
  <2>2. Kept(list, all, EventOptions) /\ list \in ListsOf(EventOptions)
    BY <1>0, ExtendedIs
  <2>3. all \in Seq(EventOptions)
    BY <2>2 DEF Kept
  <2> HIDE DEF list, all
  <2>4. /\ device' \in Devices /\ device'.events = list
        /\ device'.status = device.status /\ device'.actions = device.actions
    BY <1>0, <2>1, <2>2 DEF Devices
  <2>5. /\ added' \in [status : Seq(StatusOptions), actions : Seq(ActionOptions),
                       events : Seq(EventOptions)]
        /\ added'.events = all /\ added'.status = added.status
        /\ added'.actions = added.actions
    BY <1>0, <2>1, <2>3
  <2> QED
    BY <1>0, <2>2, <2>4, <2>5 DEF ModelInv
<1>4. ASSUME GenerateDescriptor PROVE ModelInv'
  BY <1>0, <1>4 DEF GenerateDescriptor, ModelInv
<1> QED
  BY <1>1, <1>2, <1>3, <1>4 DEF Setup

(* The descriptor is written once, by the last step.                       *)
LEMMA DescriptorNext ==
  ASSUME UnnamedAreShort, ModelInv, DescriptorFits, Setup
  PROVE  DescriptorFits'
<1>1. CASE UNCHANGED descriptor
  BY <1>1 DEF DescriptorFits
<1>2. CASE ~FollowsNull(device) /\ descriptor' = [allocated |-> Allocated(device),
                                                  written |-> Written(device)]
  <2>1. /\ device.info \in Infos /\ device.status.items \in Seq(StatusOptions)
        /\ device.actions.items \in Seq(ActionOptions)
        /\ device.events.items \in Seq(EventOptions)
    BY DEF ModelInv, Devices, ListsOf
  <2>2. Written(device) <= Allocated(device)
    BY <1>2, <2>1, DescriptorWithin
  <2> QED
    BY <1>2, <2>2 DEF DescriptorFits
<1> QED
  BY <1>1, <1>2
  DEF Setup, AddStatusComponent, AddAction, AddEvent, AddTo, GenerateDescriptor

(* What the invariant says of the lists.                                   *)
LEMMA ModelInvLists == ModelInv => ListsGrow
<1> SUFFICES ASSUME ModelInv PROVE ListsGrow
  OBVIOUS
<1>1. ASSUME NEW S, NEW list, NEW all, Kept(list, all, S)
      PROVE  IF list.stuck \/ list.cut THEN Len(list.items) >= CapacityMod \div 2
             ELSE list.items = all
  BY <1>1 DEF Kept, Made, Faithful, NoList
<1> QED
  BY <1>1 DEF ModelInv, ListsGrow

-----------------------------------------------------------------------------
(* The bits of a byte                                                      *)

(* The places of the bits of a byte.                                       *)
LEMMA PowersAre ==
  2^0 = 1 /\ 2^1 = 2 /\ 2^2 = 4 /\ 2^3 = 8 /\ 2^4 = 16 /\ 2^5 = 32 /\ 2^6 = 64 /\ 2^7 = 128
OBVIOUS

(* A byte and the eight bits it is made of.                                *)
LEMMA BitsAre ==
  ASSUME NEW b \in Byte
  PROVE  \E c \in [0..7 -> 0..1] :
           /\ b = c[0] + 2 * c[1] + 4 * c[2] + 8 * c[3] + 16 * c[4] + 32 * c[5] + 64 * c[6]
                    + 128 * c[7]
           /\ \A k \in 0..7 : Bit(b, k) = c[k]
<1> DEFINE c == [k \in 0..7 |-> Bit(b, k)]
<1>1. PICK n \in 0..255 : n = b
  BY DEF Byte
<1>2. /\ Bit(b, 0) = n % 2 /\ Bit(b, 1) = (n \div 2) % 2
      /\ Bit(b, 2) = (n \div 4) % 2 /\ Bit(b, 3) = (n \div 8) % 2
      /\ Bit(b, 4) = (n \div 16) % 2 /\ Bit(b, 5) = (n \div 32) % 2
      /\ Bit(b, 6) = (n \div 64) % 2 /\ Bit(b, 7) = (n \div 128) % 2
  BY <1>1, PowersAre DEF Bit
<1>3. \A k \in 0..7 : c[k] \in 0..1
  <2> SUFFICES ASSUME NEW k \in 0..7 PROVE Bit(b, k) \in 0..1
    OBVIOUS
  <2>1. k \in {0, 1, 2, 3, 4, 5, 6, 7}
    OBVIOUS
  <2> QED
    BY <1>2, <2>1
<1>4. n = (n % 2) + 2 * ((n \div 2) % 2) + 4 * ((n \div 4) % 2) + 8 * ((n \div 8) % 2)
          + 16 * ((n \div 16) % 2) + 32 * ((n \div 32) % 2) + 64 * ((n \div 64) % 2)
          + 128 * ((n \div 128) % 2)
  OBVIOUS
<1>5. c \in [0..7 -> 0..1] /\ \A k \in 0..7 : Bit(b, k) = c[k]
  BY <1>3
<1>6. /\ c[0] = n % 2 /\ c[1] = (n \div 2) % 2 /\ c[2] = (n \div 4) % 2
      /\ c[3] = (n \div 8) % 2 /\ c[4] = (n \div 16) % 2 /\ c[5] = (n \div 32) % 2
      /\ c[6] = (n \div 64) % 2 /\ c[7] = (n \div 128) % 2
  <2> HIDE DEF c
  <2> QED
    BY <1>2, <1>5
<1> HIDE DEF c
<1> QED
  BY <1>1, <1>4, <1>5, <1>6, ZenonT(40)

(* What is made of eight bits has them.                                    *)
LEMMA BitsOf ==
  ASSUME NEW c \in [0..7 -> 0..1]
  PROVE  LET b == c[0] + 2 * c[1] + 4 * c[2] + 8 * c[3] + 16 * c[4] + 32 * c[5] + 64 * c[6]
                    + 128 * c[7]
         IN  b \in Byte /\ \A k \in 0..7 : Bit(b, k) = c[k]
<1>1. PICK a0 \in 0..1, a1 \in 0..1, a2 \in 0..1, a3 \in 0..1, a4 \in 0..1, a5 \in 0..1,
           a6 \in 0..1, a7 \in 0..1 :
        /\ c[0] = a0 /\ c[1] = a1 /\ c[2] = a2 /\ c[3] = a3
        /\ c[4] = a4 /\ c[5] = a5 /\ c[6] = a6 /\ c[7] = a7
  OBVIOUS
<1>2. PICK b \in 0..255 : b = a0 + 2 * a1 + 4 * a2 + 8 * a3 + 16 * a4 + 32 * a5 + 64 * a6
                                + 128 * a7
  OBVIOUS
<1>3. /\ b % 2 = a0 /\ (b \div 2) % 2 = a1
      /\ (b \div 4) % 2 = a2 /\ (b \div 8) % 2 = a3
      /\ (b \div 16) % 2 = a4 /\ (b \div 32) % 2 = a5
      /\ (b \div 64) % 2 = a6 /\ (b \div 128) % 2 = a7
  <2>1. b % 2 = a0 /\ (b \div 2) % 2 = a1
    BY <1>2
  <2>2. (b \div 4) % 2 = a2 /\ (b \div 8) % 2 = a3
    BY <1>2
  <2>3. (b \div 16) % 2 = a4 /\ (b \div 32) % 2 = a5
    BY <1>2
  <2>4. (b \div 64) % 2 = a6 /\ (b \div 128) % 2 = a7
    BY <1>2
  <2> QED
    BY <2>1, <2>2, <2>3, <2>4
<1>4. /\ Bit(b, 0) = a0 /\ Bit(b, 1) = a1 /\ Bit(b, 2) = a2 /\ Bit(b, 3) = a3
      /\ Bit(b, 4) = a4 /\ Bit(b, 5) = a5 /\ Bit(b, 6) = a6 /\ Bit(b, 7) = a7
  BY <1>3, PowersAre DEF Bit
<1>5. ASSUME NEW k \in 0..7 PROVE Bit(b, k) = c[k]
  <2>1. k \in {0, 1, 2, 3, 4, 5, 6, 7}
    OBVIOUS
  <2> QED
    BY <1>1, <1>4, <2>1
<1> QED
  BY <1>1, <1>2, <1>5 DEF Byte

(* Setting a bit sets that one.                                            *)
LEMMA SetBitIs ==
  ASSUME NEW b \in Byte, NEW j \in 0..7
  PROVE  /\ SetBit(b, j) \in Byte /\ Bit(SetBit(b, j), j) = 1
         /\ \A k \in 0..7 : k # j => Bit(SetBit(b, j), k) = Bit(b, k)
<1> DEFINE Sum(d) == d[0] + 2 * d[1] + 4 * d[2] + 8 * d[3] + 16 * d[4] + 32 * d[5] + 64 * d[6]
                       + 128 * d[7]
<1>1. PICK c \in [0..7 -> 0..1] : b = Sum(c) /\ \A k \in 0..7 : Bit(b, k) = c[k]
  BY BitsAre
<1>2. PICK d \in [0..7 -> 0..1] : \A k \in 0..7 : d[k] = IF k = j THEN 1 ELSE c[k]
  <2> DEFINE d == [k \in 0..7 |-> IF k = j THEN 1 ELSE c[k]]
  <2>1. d \in [0..7 -> 0..1] /\ \A k \in 0..7 : d[k] = IF k = j THEN 1 ELSE c[k]
    OBVIOUS
  <2> HIDE DEF d
  <2> QED
    BY <2>1
<1>3. Sum(d) \in Byte /\ \A k \in 0..7 : Bit(Sum(d), k) = d[k]
  BY BitsOf
<1>4. SetBit(b, j) = Sum(d)
  <2>1. PICK a0 \in 0..1, a1 \in 0..1, a2 \in 0..1, a3 \in 0..1, a4 \in 0..1, a5 \in 0..1,
             a6 \in 0..1, a7 \in 0..1 :
          /\ c[0] = a0 /\ c[1] = a1 /\ c[2] = a2 /\ c[3] = a3
          /\ c[4] = a4 /\ c[5] = a5 /\ c[6] = a6 /\ c[7] = a7
    OBVIOUS
  <2>2. SetBit(b, j) = Sum(c) + (1 - c[j]) * 2^j
    BY <1>1 DEF SetBit
  <2>3. j \in {0, 1, 2, 3, 4, 5, 6, 7}
    OBVIOUS
  <2>4. CASE j = 0
    BY <1>2, <2>1, <2>2, <2>4, PowersAre
  <2>5. CASE j = 1
    BY <1>2, <2>1, <2>2, <2>5, PowersAre
  <2>6. CASE j = 2
    BY <1>2, <2>1, <2>2, <2>6, PowersAre
  <2>7. CASE j = 3
    BY <1>2, <2>1, <2>2, <2>7, PowersAre
  <2>8. CASE j = 4
    BY <1>2, <2>1, <2>2, <2>8, PowersAre
  <2>9. CASE j = 5
    BY <1>2, <2>1, <2>2, <2>9, PowersAre
  <2>10. CASE j = 6
    BY <1>2, <2>1, <2>2, <2>10, PowersAre
  <2>11. CASE j = 7
    BY <1>2, <2>1, <2>2, <2>11, PowersAre
  <2> QED
    BY <2>3, <2>4, <2>5, <2>6, <2>7, <2>8, <2>9, <2>10, <2>11
<1> HIDE DEF Sum
<1>5. d[j] = 1 /\ \A k \in 0..7 : k # j => d[k] = c[k]
  BY <1>2
<1> QED
  BY <1>1, <1>3, <1>4, <1>5

(* What two bytes hold is a number.                                        *)
LEMMA WordIs == WordSize \in Nat /\ \A n \in Word : n \in Nat /\ n < WordSize
<1>1. WordSize \in Nat
  BY SMT DEF WordSize
<1> QED
  BY <1>1, SMT DEF Word

(* Two bytes that were written are read again.                             *)
LEMMA ReadU16Is ==
  ASSUME NEW n \in Word, NEW mem, NEW p \in Int,
         mem[p] = U16(n)[1], mem[p + 1] = U16(n)[2]
  PROVE  ReadU16(mem, p) = n
<1>0. PICK k \in Nat : k = n /\ k < 256 * 256
  <2>1. PICK k \in Nat : k = n
    BY WordIs, Zenon
  <2>2. k < WordSize
    BY <2>1, WordIs, Zenon
  <2> QED
    BY <2>1, <2>2, SMT DEF WordSize
<1>1. PICK a \in Nat, b \in Nat : a = (k \div 256) % 256 /\ b = k % 256
  BY SMT
<1>2. 256 * a + b = k
  <2>1. PICK h \in Nat : h = k \div 256
    BY SMT
  <2>2. k = 256 * h + b /\ b \in 0..255
    BY <1>1, <2>1, SMT
  <2>3. h <= 255
    BY <1>0, <2>2, SMT
  <2>4. a = h
    BY <1>1, <2>1, <2>3, SMT
  <2> QED
    BY <2>2, <2>4
<1>3. mem[p] = a /\ mem[p + 1] = b
  BY <1>0, <1>1, U16Is
<1> QED
  BY <1>0, <1>2, <1>3 DEF ReadU16

(* The bytes of a number are numbers, and so are those of two sequences    *)
(* one after another.                                                      *)
LEMMA U16Nat == \A n \in Nat : U16(n) \in Seq(Nat)
<1> SUFFICES ASSUME NEW n \in Nat PROVE U16(n) \in Seq(Nat)
  OBVIOUS
<1>1. PICK a \in Nat, b \in Nat : a = (n \div 256) % 256 /\ b = n % 256
  OBVIOUS
<1>2. U16(n) = <<a, b>>
  BY <1>1 DEF U16
<1> QED
  BY <1>2

(* What a sequence of n things is.                                         *)
LEMMA ReadIs ==
  ASSUME NEW mem, NEW p \in Int, NEW s, NEW n \in Nat, HasLen(s, n), At(mem, p - 1, s, n)
  PROVE  Read(mem, p, n) = s
<1> DEFINE r == Read(mem, p, n)
<1>1. DOMAIN r = 1..n /\ r = [i \in 1..n |-> r[i]] /\ \A i \in 1..n : r[i] = mem[p + i - 1]
  BY DEF Read
<1> HIDE DEF r
<1>2. HasLen(r, n)
  BY <1>1, HasLenIs
<1>3. ASSUME NEW i \in 1..n PROVE r[i] = s[i]
  <2>1. p + i - 1 = (p - 1) + i
    OBVIOUS
  <2>2. mem[(p - 1) + i] = s[i]
    BY DEF At
  <2> QED
    BY <1>1, <2>1, <2>2, Zenon
<1>4. r = s
  BY <1>2, <1>3, SameSeq
<1> QED
  BY <1>4 DEF r

(* Two halves of four bytes with something after them.                     *)
LEMMA PartsAre ==
  ASSUME NEW a, HasLen(a, 2), NEW b, HasLen(b, 2), NEW c, NEW n \in Nat, HasLen(c, n)
  PROVE  /\ HasLen(a \o b \o c, n + 4)
         /\ At(a \o b \o c, 0, a, 2) /\ At(a \o b \o c, 2, b, 2) /\ At(a \o b \o c, 4, c, n)
<1> DEFINE d == a \o b
           e == d \o c
<1>1. HasLen(d, 4) /\ At(d, 0, a, 2) /\ At(d, 2, b, 2)
  <2>1. HasLen(d, 2 + 2) /\ At(d, 0, a, 2) /\ At(d, 2, b, 2)
    BY ConcatIs
  <2> QED
    BY <2>1
<1> HIDE DEF d
<1>2. HasLen(e, n + 4) /\ At(e, 0, d, 4) /\ At(e, 4, c, n)
  <2>1. HasLen(e, 4 + n) /\ At(e, 0, d, 4) /\ At(e, 4, c, n)
    BY <1>1, ConcatIs
  <2> QED
    BY <2>1
<1> HIDE DEF e
<1>3. At(e, 0, a, 2) /\ At(e, 2, b, 2)
  <2>1. At(e, 0 + 0, a, 2) /\ At(e, 0 + 2, b, 2)
    BY <1>1, <1>2, AtNested
  <2> QED
    BY <2>1
<1> QED
  BY <1>2, <1>3 DEF e, d

-----------------------------------------------------------------------------
(* The layout of a component                                               *)

(* A component that is told: of a type that is read, with a name and a     *)
(* value whose lengths two bytes can say.                                  *)
IsTold(c) ==
  /\ IsComponent(c) /\ c.type # "none"
  /\ Len(c.name) \in Word /\ (IsString(c) => Len(c.value) \in Word)

(* Its layout has the value and the name at their places.                  *)
StringItem(item, c) ==
  /\ HasLen(item, Len(c.value) + Len(c.name) + 4)
  /\ At(item, 0, U16(Len(c.value)), 2) /\ At(item, 2, U16(Len(c.name)), 2)
  /\ At(item, 4, c.value, Len(c.value)) /\ At(item, 4 + Len(c.value), c.name, Len(c.name))

NumberItem(item, c) ==
  LET v == FourByteValue(c) IN
  /\ HasLen(item, Len(c.name) + 4)
  /\ At(item, 0, U16(v[1]), 2) /\ At(item, 2, U16(v[2]), 2)
  /\ At(item, 4, c.name, Len(c.name))

(* A value of four bytes is one.                                           *)
LEMMA FourByteValueIs ==
  ASSUME NEW c, IsComponent(c), c.type # "none", ~IsString(c)
  PROVE  c.type \in FourBytes /\ FourByteValue(c) \in Uint32
<1>1. c.type \in FourBytes /\ c.value \in Uint32
  BY DEF IsComponent, IsString, FourBytes, Types
<1>2. Zero \in Uint32 /\ One \in Uint32
  <2>1. 0 \in Word /\ 1 \in Word
    BY DEF Word, WordSize
  <2> QED
    BY <2>1 DEF Zero, One, Uint32
<1> QED
  BY <1>1, <1>2 DEF FourByteValue

(* A string is laid out with its lengths, its value and its name,          *)
LEMMA StringItemIs ==
  ASSUME NEW c, IsComponent(c), IsString(c)
  PROVE  /\ StringItem(ItemLayout(c), c) /\ Len(c.value) \in Nat /\ Len(c.name) \in Nat
         /\ ItemLayout(c) = U16(Len(c.value)) \o U16(Len(c.name)) \o c.value \o c.name
<1> DEFINE a == U16(Len(c.value))
           b == U16(Len(c.name))
<1>1. c.value \in Seq(Nat) /\ c.name \in Seq(Nat)
  BY DEF IsComponent, IsString
<1>2. PICK v \in Nat, n \in Nat :
        v = Len(c.value) /\ n = Len(c.name) /\ HasLen(c.value, v) /\ HasLen(c.name, n)
  BY <1>1, SeqIs, HasLenIs
<1>3. ItemLayout(c) = a \o b \o c.value \o c.name
  BY DEF ItemLayout
<1>4. HasLen(a, 2) /\ HasLen(b, 2)
  BY U16Is
<1> HIDE DEF a, b
<1> DEFINE d == a \o b \o c.value
           e == d \o c.name
<1>5. HasLen(d, v + 4) /\ At(d, 0, a, 2) /\ At(d, 2, b, 2) /\ At(d, 4, c.value, v)
  BY <1>2, <1>4, PartsAre
<1> HIDE DEF d
<1>10. PICK k \in Nat : k = v + 4
  OBVIOUS
<1>6. HasLen(e, k + n) /\ At(e, 0, d, k) /\ At(e, k, c.name, n)
  BY <1>2, <1>5, <1>10, ConcatIs
<1> HIDE DEF e
<1>7. At(e, 0, a, 2) /\ At(e, 2, b, 2) /\ At(e, 4, c.value, v)
  <2>1. At(e, 0 + 0, a, 2) /\ At(e, 0 + 2, b, 2) /\ At(e, 0 + 4, c.value, v)
    <3>1. HasLen(d, k) /\ 4 + v <= k /\ 2 <= k /\ 4 <= k
      BY <1>5, <1>10
    <3>2. At(e, 0 + 0, a, 2)
      BY <1>5, <1>6, <3>1, AtNested
    <3>3. At(e, 0 + 2, b, 2)
      BY <1>5, <1>6, <3>1, AtNested
    <3>4. At(e, 0 + 4, c.value, v)
      BY <1>5, <1>6, <3>1, AtNested
    <3> QED
      BY <3>2, <3>3, <3>4
  <2> QED
    BY <2>1
<1>8. k = 4 + v /\ k + n = v + n + 4
  BY <1>10
<1>9. StringItem(e, c)
  BY <1>2, <1>6, <1>7, <1>8 DEF StringItem, a, b
<1> QED
  BY <1>2, <1>3, <1>9 DEF e, d, a, b

(* and a value of four bytes with its name.                                *)
LEMMA NumberItemIs ==
  ASSUME NEW c, IsComponent(c), c.type # "none", ~IsString(c)
  PROVE  /\ NumberItem(ItemLayout(c), c) /\ Len(c.name) \in Nat
         /\ ItemLayout(c) = U32(FourByteValue(c)) \o c.name
<1>1. c.name \in Seq(Nat)
  BY DEF IsComponent
<1>2. PICK n \in Nat : n = Len(c.name) /\ HasLen(c.name, n)
  BY <1>1, SeqIs, HasLenIs
<1>3. PICK v : v = FourByteValue(c)
  OBVIOUS
<1> DEFINE a == U16(v[1])
           b == U16(v[2])
<1>4. ItemLayout(c) = U32(v) \o c.name
  BY <1>3 DEF ItemLayout
<1>5. U32(v) = a \o b
  BY DEF U32
<1>6. HasLen(a, 2) /\ HasLen(b, 2)
  BY U16Is
<1> HIDE DEF a, b
<1> DEFINE e == a \o b \o c.name
<1>7. HasLen(e, n + 4) /\ At(e, 0, a, 2) /\ At(e, 2, b, 2) /\ At(e, 4, c.name, n)
  BY <1>2, <1>6, PartsAre
<1> HIDE DEF e
<1>8. NumberItem(e, c)
  BY <1>2, <1>3, <1>7, Zenon DEF NumberItem, a, b
<1>9. ItemLayout(c) = e
  BY <1>4, <1>5 DEF e
<1> QED
  BY <1>2, <1>3, <1>4, <1>8, <1>9

(* The mask has the bits of the strings.                                   *)
LEMMA MaskIs ==
  ASSUME NEW cs
  PROVE  /\ MaskOf(cs) \in Byte
         /\ \A j \in 1..MaxComponents :
              Bit(MaskOf(cs), j - 1) = 1 <=> j \in DOMAIN cs /\ IsString(cs[j])
<1> DEFINE c == [k \in 0..7 |-> IF k + 1 \in DOMAIN cs /\ IsString(cs[k + 1]) THEN 1 ELSE 0]
           Good(mask) == \A j \in 1..MaxComponents :
                           Bit(mask, j - 1) = 1 <=> j \in DOMAIN cs /\ IsString(cs[j])
<1>1. c \in [0..7 -> 0..1]
  OBVIOUS
<1>2. \A k \in 0..7 : c[k] = 1 <=> k + 1 \in DOMAIN cs /\ IsString(cs[k + 1])
  OBVIOUS
<1> HIDE DEF c
<1>3. PICK b \in Byte : \A k \in 0..7 : Bit(b, k) = c[k]
  BY <1>1, BitsOf
<1>4. Good(b)
  <2> SUFFICES ASSUME NEW j \in 1..8
               PROVE  Bit(b, j - 1) = 1 <=> j \in DOMAIN cs /\ IsString(cs[j])
    BY DEF MaxComponents
  <2>1. PICK k \in 0..7 : k = j - 1 /\ j = k + 1
    OBVIOUS
  <2> QED
    BY <1>2, <1>3, <2>1
<1>5. MaskOf(cs) = CHOOSE mask \in Byte : Good(mask)
  BY DEF MaskOf
<1> HIDE DEF Good
<1>6. Good(MaskOf(cs)) /\ MaskOf(cs) \in Byte
  BY <1>4, <1>5, Zenon
<1> QED
  BY <1>6 DEF Good

-----------------------------------------------------------------------------
(* Reading the components                                                  *)

(* attr tells the components cs, with the one that has the index j at q[j].*)
ItemLen(c) == Len(ItemLayout(c))

Encodes(attr, cs, q) ==
  LET n == Len(cs) IN
  /\ n \in Nat /\ Len(attr) \in Nat
  /\ q[0] = n + 2 /\ q[0] <= Len(attr)
  /\ \A j \in 1..n : q[j - 1] \in Nat /\ ItemLen(cs[j]) \in Nat
  /\ \A j \in 1..n : q[j] = q[j - 1] + ItemLen(cs[j]) /\ q[j] <= Len(attr)
  /\ attr[1] = n
  /\ \A j \in 1..n : attr[j + 1] = ItemLen(cs[j]) - 4
  /\ \A j \in 1..n : Bit(attr[n + 2], j - 1) = 1 <=> IsString(cs[j])
  /\ \A j \in 1..n : At(attr, q[j - 1], ItemLayout(cs[j]), ItemLen(cs[j]))

(* The place that the loop has reached.                                    *)
LEMMA PlaceIs ==
  ASSUME NEW mem, NEW n \in Nat, NEW q, q[0] = n + 2,
         NEW j \in Nat, \A k \in 1..j : q[k] = q[k - 1] + mem[k] + 4
  PROVE  ArgumentPlace(mem, n, j) = q[j]
<1> DEFINE Solves(f) ==
             f = [k \in 0..j |-> IF k = 0 THEN n + 2 ELSE f[k - 1] + mem[k] + 4]
           g == [k \in 0..j |-> q[k]]
           place == CHOOSE f : Solves(f)
<1>1. Solves(g)
  <2>1. ASSUME NEW k \in 0..j
        PROVE  q[k] = IF k = 0 THEN n + 2 ELSE g[k - 1] + mem[k] + 4
    <3>1. CASE k = 0
      BY <3>1
    <3>2. CASE k # 0
      <4>1. k \in 1..j /\ k - 1 \in 0..j
        BY <3>2
      <4> QED
        BY <3>2, <4>1
    <3> QED
      BY <3>1, <3>2
  <2> QED
    BY <2>1
<1>2. Solves(place)
  <2> HIDE DEF Solves, g
  <2> QED
    BY <1>1
<1>3. ArgumentPlace(mem, n, j) = place[j]
  BY DEF ArgumentPlace
<1> HIDE DEF place
<1>4. place[0] = n + 2
  BY <1>2
<1>5. ASSUME NEW k \in 1..j PROVE place[k] = place[k - 1] + mem[k] + 4
  <2>1. k \in 0..j /\ k # 0
    OBVIOUS
  <2> QED
    BY <1>2, <2>1
<1> HIDE DEF Solves
<1> DEFINE P == {m \in Nat : m <= j => place[m] = q[m]}
<1>6. 0 \in P
  BY <1>4
<1>7. ASSUME NEW m \in P PROVE m + 1 \in P
  <2> SUFFICES ASSUME m + 1 <= j PROVE place[m + 1] = q[m + 1]
    OBVIOUS
  <2>1. m + 1 \in 1..j /\ (m + 1) - 1 = m /\ place[m] = q[m]
    BY <1>7
  <2>2. place[m + 1] = place[m] + mem[m + 1] + 4 /\ q[m + 1] = q[m] + mem[m + 1] + 4
    BY <1>5, <2>1
  <2> QED
    BY <2>1, <2>2
<1>8. j \in P
  <2>1. P \in SUBSET Nat
    OBVIOUS
  <2> HIDE DEF P
  <2> QED
    BY <1>6, <1>7, <2>1, NaturalInduction
<1> QED
  BY <1>3, <1>8

(* What is read of one component.                                          *)
LEMMA StringIsRead ==
  ASSUME NEW mem, NEW p \in Nat, NEW c, IsTold(c), IsString(c),
         At(mem, p - 1, ItemLayout(c), ItemLen(c)),
         NEW n \in Nat, NEW j \in Nat, Bit(mem[n + 1], j) = 1, NEW declared
  PROVE  LET a == Argument(mem, n, j, p, declared) IN
         a.name = c.name /\ a.value = c.value /\ a.ok
<1>1. PICK item : item = ItemLayout(c)
  OBVIOUS
<1>2. StringItem(item, c)
  BY <1>1, StringItemIs DEF IsTold
<1>3. PICK v \in Word, l \in Word : v = Len(c.value) /\ l = Len(c.name)
  BY DEF IsTold
<1>4. v \in Nat /\ l \in Nat
  BY WordIs
<1>5. c.name \in Seq(Nat) /\ c.value \in Seq(Nat)
  BY DEF IsTold, IsComponent, IsString
<1>6. HasLen(c.value, v) /\ HasLen(c.name, l)
  BY <1>3, <1>4, <1>5, SeqIs DEF HasLen
<1>7. PICK k \in Nat : k = v + l + 4 /\ ItemLen(c) = k /\ At(mem, p - 1, item, k)
  BY <1>1, <1>2, <1>3, <1>4 DEF StringItem, HasLen, ItemLen
<1>8. /\ At(item, 0, U16(v), 2) /\ At(item, 2, U16(l), 2)
      /\ At(item, 4, c.value, v) /\ At(item, 4 + v, c.name, l)
  BY <1>2, <1>3 DEF StringItem
<1>9. p - 1 \in Int /\ 4 + v \in Nat /\ 0 + 2 <= k /\ 2 + 2 <= k /\ 4 + v <= k /\ (4 + v) + l <= k
  BY <1>4, <1>7
<1>10. At(mem, (p - 1) + 0, U16(v), 2)
  BY <1>7, <1>8, <1>9, AtNested
<1>11. At(mem, (p - 1) + 2, U16(l), 2)
  BY <1>7, <1>8, <1>9, AtNested
<1>12. At(mem, (p - 1) + 4, c.value, v)
  BY <1>4, <1>7, <1>8, <1>9, AtNested
<1>13. At(mem, (p - 1) + (4 + v), c.name, l)
  BY <1>4, <1>7, <1>8, <1>9, AtNested
<1>14. ReadU16(mem, p) = v
  <2>1. /\ 1 \in 1..2 /\ 2 \in 1..2 /\ ((p - 1) + 0) + 1 = p /\ ((p - 1) + 0) + 2 = p + 1
    OBVIOUS
  <2>2. mem[p] = U16(v)[1] /\ mem[p + 1] = U16(v)[2]
    BY <1>10, <2>1, Zenon DEF At
  <2> QED
    BY <2>2, ReadU16Is
<1>15. ReadU16(mem, p + 2) = l
  <2>1. /\ 1 \in 1..2 /\ 2 \in 1..2 /\ ((p - 1) + 2) + 1 = p + 2
        /\ ((p - 1) + 2) + 2 = (p + 2) + 1 /\ p + 2 \in Int
    OBVIOUS
  <2>2. mem[p + 2] = U16(l)[1] /\ mem[(p + 2) + 1] = U16(l)[2]
    BY <1>11, <2>1, Zenon DEF At
  <2> QED
    BY <2>1, <2>2, ReadU16Is
<1>16. Read(mem, p + 4, v) = c.value
  <2>1. (p - 1) + 4 = (p + 4) - 1 /\ p + 4 \in Int
    OBVIOUS
  <2> QED
    BY <1>4, <1>6, <1>12, <2>1, ReadIs
<1>17. Read(mem, p + 4 + v, l) = c.name
  <2>1. (p - 1) + (4 + v) = (p + 4 + v) - 1 /\ p + 4 + v \in Int
    BY <1>4
  <2> QED
    BY <1>4, <1>6, <1>13, <2>1, ReadIs
<1> QED
  BY <1>14, <1>15, <1>16, <1>17 DEF Argument

(* A value of four bytes is read, if the action knows it as one.           *)
LEMMA NumberIsRead ==
  ASSUME NEW mem, NEW p \in Nat, NEW c, IsTold(c), ~IsString(c),
         At(mem, p - 1, ItemLayout(c), ItemLen(c)),
         NEW n \in Nat, NEW j \in Nat, Bit(mem[n + 1], j) # 1, mem[j + 1] = ItemLen(c) - 4,
         NEW declared
  PROVE  LET a == Argument(mem, n, j, p, declared) IN
         /\ a.name = c.name /\ a.value = FourByteValue(c)
         /\ a.ok <=> TypeNamed(c.name, declared) \in FourBytes
<1>1. PICK item : item = ItemLayout(c)
  OBVIOUS
<1>2. NumberItem(item, c)
  BY <1>1, NumberItemIs DEF IsTold
<1>3. PICK l \in Word : l = Len(c.name)
  BY DEF IsTold
<1>4. l \in Nat
  BY WordIs
<1>5. c.name \in Seq(Nat)
  BY DEF IsTold, IsComponent
<1>6. HasLen(c.name, l)
  BY <1>3, <1>4, <1>5, SeqIs DEF HasLen
<1>7. PICK k \in Nat : k = l + 4 /\ ItemLen(c) = k /\ At(mem, p - 1, item, k)
  BY <1>1, <1>2, <1>3, <1>4 DEF NumberItem, HasLen, ItemLen
<1>8. PICK v : v = FourByteValue(c)
  OBVIOUS
<1>9. PICK a \in Word, b \in Word : v = <<a, b>>
  <2>1. v \in Word \X Word
    BY <1>8, FourByteValueIs DEF IsTold, Uint32
  <2> QED
    BY <2>1
<1>10. /\ At(item, 0, U16(a), 2) /\ At(item, 2, U16(b), 2) /\ At(item, 4, c.name, l)
  BY <1>2, <1>3, <1>8, <1>9 DEF NumberItem
<1>11. p - 1 \in Int /\ 0 + 2 <= k /\ 2 + 2 <= k /\ 4 + l <= k
  BY <1>4, <1>7
<1>12. At(mem, (p - 1) + 0, U16(a), 2)
  BY <1>7, <1>10, <1>11, AtNested
<1>13. At(mem, (p - 1) + 2, U16(b), 2)
  BY <1>7, <1>10, <1>11, AtNested
<1>14. At(mem, (p - 1) + 4, c.name, l)
  BY <1>4, <1>7, <1>10, <1>11, AtNested
<1>15. ReadU16(mem, p) = a
  <2>1. /\ 1 \in 1..2 /\ 2 \in 1..2 /\ ((p - 1) + 0) + 1 = p /\ ((p - 1) + 0) + 2 = p + 1
    OBVIOUS
  <2>2. mem[p] = U16(a)[1] /\ mem[p + 1] = U16(a)[2]
    BY <1>12, <2>1, Zenon DEF At
  <2> QED
    BY <2>2, ReadU16Is
<1>16. ReadU16(mem, p + 2) = b
  <2>1. /\ 1 \in 1..2 /\ 2 \in 1..2 /\ ((p - 1) + 2) + 1 = p + 2
        /\ ((p - 1) + 2) + 2 = (p + 2) + 1 /\ p + 2 \in Int
    OBVIOUS
  <2>2. mem[p + 2] = U16(b)[1] /\ mem[(p + 2) + 1] = U16(b)[2]
    BY <1>13, <2>1, Zenon DEF At
  <2> QED
    BY <2>1, <2>2, ReadU16Is
<1>17. Read(mem, p + 4, mem[j + 1]) = c.name
  <2>1. (p - 1) + 4 = (p + 4) - 1 /\ p + 4 \in Int
    OBVIOUS
  <2>2. mem[j + 1] = l
    BY <1>4, <1>7
  <2> QED
    BY <1>4, <1>6, <1>14, <2>1, <2>2, ReadIs
<1>18. ReadU32(mem, p) = v
  BY <1>9, <1>15, <1>16 DEF ReadU32
<1> QED
  BY <1>8, <1>17, <1>18 DEF Argument, FourByteArgument

(* Some indices have a greatest one.                                       *)
LEMMA GreatestIndex ==
  ASSUME NEW n \in Nat, NEW T, T \subseteq 1..n, T # {}
  PROVE  \E x \in T : \A y \in T : y <= x
<1> DEFINE S == {n - y : y \in T}
<1>1. S \in SUBSET Nat /\ S # {}
  <2>1. ASSUME NEW y \in T PROVE n - y \in Nat
    <3>1. y \in 1..n
      OBVIOUS
    <3> QED
      BY <3>1
  <2> QED
    BY <2>1
<1>2. PICK z \in S : \A w \in S : z <= w
  <2> HIDE DEF S
  <2> QED
    BY <1>1, LeastNatural
<1>3. PICK x \in T : z = n - x
  BY <1>2
<1>4. ASSUME NEW y \in T PROVE y <= x
  <2>1. n - y \in S /\ y \in Int /\ x \in Int
    OBVIOUS
  <2>2. z <= n - y
    BY <1>2, <2>1
  <2> QED
    BY <1>3, <2>1, <2>2
<1> QED
  BY <1>4

(* The last one of a name.                                                 *)
LastOf(d, name) ==
  CHOOSE j \in DOMAIN d :
    d[j].name = name /\ \A k \in DOMAIN d : d[k].name = name => k <= j

(* It is the last of those.                                                *)
LEMMA LastIs ==
  ASSUME NEW n \in Nat, NEW a, DOMAIN a = 1..n,
         NEW name, name \in {a[j].name : j \in 1..n}
  PROVE  /\ LastOf(a, name) \in 1..n /\ a[LastOf(a, name)].name = name
         /\ \A k \in 1..n : a[k].name = name => k <= LastOf(a, name)
<1> DEFINE T == {j \in 1..n : a[j].name = name}
<1>1. PICK m \in T : \A k \in T : k <= m
  <2>1. T \subseteq 1..n /\ T # {}
    OBVIOUS
  <2> HIDE DEF T
  <2> QED
    BY <2>1, GreatestIndex
<1>2. \E j \in DOMAIN a : a[j].name = name /\ \A k \in DOMAIN a : a[k].name = name => k <= j
  BY <1>1
<1> DEFINE x == CHOOSE j \in DOMAIN a :
                  a[j].name = name /\ \A k \in DOMAIN a : a[k].name = name => k <= j
<1>3. x \in DOMAIN a /\ a[x].name = name /\ \A k \in DOMAIN a : a[k].name = name => k <= x
  BY <1>2, Zenon
<1>4. LastOf(a, name) = x
  BY Zenon DEF LastOf
<1> HIDE DEF x
<1> QED
  BY <1>3, <1>4

(* A dictionary depends on nothing but the names and the values.           *)
LEMMA SameDictionary ==
  ASSUME NEW n \in Nat, NEW a, NEW b, DOMAIN a = 1..n, DOMAIN b = 1..n,
         \A j \in 1..n : a[j].name = b[j].name /\ a[j].value = b[j].value
  PROVE  Dictionary(a) = Dictionary(b)
<1> DEFINE Names(d) == {d[j].name : j \in 1..n}
<1>1. /\ Dictionary(a) = [name \in Names(a) |-> a[LastOf(a, name)].value]
      /\ Dictionary(b) = [name \in Names(b) |-> b[LastOf(b, name)].value]
  BY DEF Dictionary, LastOf
<1>2. Names(a) = Names(b)
  OBVIOUS
<1>3. ASSUME NEW name \in Names(a) PROVE a[LastOf(a, name)].value = b[LastOf(b, name)].value
  <2>1. /\ LastOf(a, name) \in 1..n /\ a[LastOf(a, name)].name = name
        /\ \A k \in 1..n : a[k].name = name => k <= LastOf(a, name)
    BY LastIs
  <2>2. /\ LastOf(b, name) \in 1..n /\ b[LastOf(b, name)].name = name
        /\ \A k \in 1..n : b[k].name = name => k <= LastOf(b, name)
    <3>1. name \in Names(b)
      BY <1>2
    <3> QED
      BY <3>1, LastIs
  <2>3. LastOf(a, name) <= LastOf(b, name) /\ LastOf(b, name) <= LastOf(a, name)
    BY <2>1, <2>2
  <2>4. LastOf(a, name) = LastOf(b, name)
    BY <2>1, <2>2, <2>3
  <2> QED
    BY <2>1, <2>4
<1> HIDE DEF Names
<1> QED
  BY <1>1, <1>2, <1>3

(* What the reader gets of components that are told: all of them, or       *)
(* nothing if one that is no string is not known as a number.              *)
Known(cs, declared) ==
  \A j \in 1..Len(cs) : IsString(cs[j]) \/ TypeNamed(cs[j].name, declared) \in FourBytes

(* process_arguments_attribute reads what is encoded: all of the           *)
(* components, or nothing.                                                 *)
LEMMA EncodedIsRead ==
  ASSUME NEW attr, NEW cs, NEW q, Encodes(attr, cs, q), Len(cs) <= MaxComponents,
         \A j \in 1..Len(cs) : IsTold(cs[j]), NEW declared
  PROVE  ProcessArguments(attr, declared) =
           IF Known(cs, declared) THEN [ok |-> TRUE, dict |-> Meaning(cs)] ELSE NoArguments
<1>1. PICK mem, n :
        /\ mem = [i \in 0..(Len(attr) - 1) |-> attr[i + 1]] /\ n = mem[0]
        /\ ProcessArguments(attr, declared) =
             LET args == [j \in 1..n |->
                            Argument(mem, n, j - 1, ArgumentPlace(mem, n, j - 1), declared)]
             IN  IF n <= MaxComponents /\ \A j \in 1..n : args[j].ok
                 THEN [ok |-> TRUE, dict |-> Dictionary(args)]
                 ELSE NoArguments
  BY Zenon DEF ProcessArguments
<1>2. PICK l \in Nat : l = Len(attr)
  BY DEF Encodes
<1>3. n = Len(cs) /\ n \in Nat
  <2>1. 0 \in 0..(l - 1) /\ attr[1] = Len(cs) /\ Len(cs) \in Nat
    BY <1>2 DEF Encodes
  <2> QED
    BY <1>1, <1>2, <2>1
<1> USE <1>3
<1>5. ASSUME NEW j \in 1..n
      PROVE  /\ mem[j] = ItemLen(cs[j]) - 4 /\ q[j - 1] \in Nat /\ ItemLen(cs[j]) \in Nat
             /\ q[j] = q[j - 1] + mem[j] + 4
  <2>1. j \in 0..(l - 1)
    BY <1>3, <1>2 DEF Encodes
  <2>2. mem[j] = attr[j + 1]
    BY <1>2, <1>1, <2>1
  <2>3. /\ attr[j + 1] = ItemLen(cs[j]) - 4 /\ q[j - 1] \in Nat /\ ItemLen(cs[j]) \in Nat
        /\ q[j] = q[j - 1] + ItemLen(cs[j])
    BY <1>3 DEF Encodes
  <2> QED
    BY <2>2, <2>3
<1>6. ASSUME NEW j \in 1..n PROVE ArgumentPlace(mem, n, j - 1) = q[j - 1]
  <2>1. PICK i \in Nat : i = j - 1 /\ i \in 0..(n - 1)
    OBVIOUS
  <2>2. \A k \in 1..i : q[k] = q[k - 1] + mem[k] + 4
    BY <1>5, <2>1
  <2>3. q[0] = n + 2
    BY <1>3 DEF Encodes
  <2>4. ArgumentPlace(mem, n, i) = q[i]
    BY <2>2, <2>3, PlaceIs
  <2> QED
    BY <2>1, <2>4
<1> DEFINE Arg(j) == Argument(mem, n, j - 1, ArgumentPlace(mem, n, j - 1), declared)
           args == [j \in 1..n |-> Arg(j)]
           Value(c) == IF IsString(c) THEN c.value ELSE FourByteValue(c)
           all == [j \in 1..n |-> [name |-> cs[j].name, value |-> Value(cs[j])]]
<1>7. ASSUME NEW j \in 1..n
      PROVE  /\ Arg(j).name = cs[j].name /\ Arg(j).value = Value(cs[j])
             /\ Arg(j).ok <=> IsString(cs[j]) \/ TypeNamed(cs[j].name, declared) \in FourBytes
  <2>1. PICK p \in Nat, i \in Nat : p = q[j - 1] /\ i = j - 1
    BY <1>5
  <2>0. PICK c : c = cs[j]
    OBVIOUS
  <2>2. Arg(j) = Argument(mem, n, i, p, declared)
    BY <1>6, <2>0, <2>1
  <2>3. IsTold(c)
    BY <1>3, <2>0, <2>1
  <2>4. PICK k \in Nat : k = ItemLen(c)
    BY <1>5, <2>0, <2>1
  <2>5. p + k <= l /\ At(attr, p, ItemLayout(c), k)
    BY <1>3, <1>2, <2>0, <2>1, <2>4 DEF Encodes
  <2>6. At(mem, p - 1, ItemLayout(c), ItemLen(c))
    <3>1. ASSUME NEW x \in 1..k PROVE mem[(p - 1) + x] = ItemLayout(c)[x]
      <4>1. (p - 1) + x \in 0..(l - 1) /\ ((p - 1) + x) + 1 = p + x
        BY <2>5
      <4>2. mem[(p - 1) + x] = attr[p + x]
        BY <1>2, <1>1, <4>1
      <4>3. attr[p + x] = ItemLayout(c)[x]
        BY <2>5 DEF At
      <4> QED
        BY <4>2, <4>3
    <3> QED
      BY <2>4, <3>1 DEF At
  <2>7. Bit(mem[n + 1], i) = 1 <=> IsString(c)
    <3>1. n + 1 \in 0..(l - 1) /\ (n + 1) + 1 = n + 2
      BY <1>3, <1>2 DEF Encodes
    <3>2. mem[n + 1] = attr[n + 2]
      BY <1>2, <1>1, <3>1
    <3> QED
      BY <1>3, <2>0, <2>1, <3>2 DEF Encodes
  <2>8. mem[i + 1] = ItemLen(c) - 4
    <3>1. i + 1 = j
      BY <2>0, <2>1
    <3> QED
      BY <1>5, <2>0, <2>1, <3>1
  <2> HIDE DEF Arg
  <2>9. CASE IsString(c)
    <3>1. Bit(mem[n + 1], i) = 1
      BY <2>7, <2>9
    <3> DEFINE a == Argument(mem, n, i, p, declared)
    <3>2. a.name = c.name /\ a.value = c.value /\ a.ok
      BY <2>3, <2>6, <2>9, <3>1, StringIsRead
    <3> HIDE DEF a
    <3> QED
      BY <2>0, <2>2, <2>9, <3>2 DEF a
  <2>10. CASE ~IsString(c)
    <3>1. Bit(mem[n + 1], i) # 1
      BY <2>7, <2>10
    <3> DEFINE a == Argument(mem, n, i, p, declared)
    <3>2. /\ a.name = c.name /\ a.value = FourByteValue(c)
          /\ a.ok <=> TypeNamed(c.name, declared) \in FourBytes
      BY <2>3, <2>6, <2>8, <2>10, <3>1, NumberIsRead
    <3> HIDE DEF a
    <3> QED
      BY <2>0, <2>2, <2>10, <3>2 DEF a
  <2> QED
    BY <2>9, <2>10
<1>8. ProcessArguments(attr, declared) =
        IF n <= MaxComponents /\ \A j \in 1..n : args[j].ok
        THEN [ok |-> TRUE, dict |-> Dictionary(args)]
        ELSE NoArguments
  BY <1>1, Zenon
<1>9. Meaning(cs) = Dictionary(all)
  BY <1>3 DEF Meaning
<1> HIDE DEF Arg, Value
<1>10. /\ DOMAIN args = 1..n /\ DOMAIN all = 1..n
       /\ \A j \in 1..n : args[j].name = all[j].name /\ args[j].value = all[j].value
       /\ (\A j \in 1..n : args[j].ok) <=> Known(cs, declared)
  BY <1>3, <1>7 DEF Known
<1> HIDE DEF args, all
<1>11. Dictionary(args) = Dictionary(all)
  BY <1>10, SameDictionary
<1> QED
  BY <1>3, <1>8, <1>9, <1>10, <1>11

(* A sequence put together of parts, one after another: there is one,      *)
LEMMA ConcatRecursion ==
  ASSUME NEW n \in Nat, NEW b
  PROVE  \E f : f = [i \in 0..n |-> IF i = 0 THEN << >> ELSE f[i - 1] \o b[i]]
<1> DEFINE Solves(f, m) == f = [i \in 0..m |-> IF i = 0 THEN << >> ELSE f[i - 1] \o b[i]]
           P == {m \in Nat : \E f : Solves(f, m)}
<1>1. 0 \in P
  <2> DEFINE f == [i \in 0..0 |-> << >>]
  <2>1. Solves(f, 0)
    OBVIOUS
  <2> QED
    BY <2>1
<1>2. ASSUME NEW m \in P PROVE m + 1 \in P
  <2>1. PICK f : Solves(f, m)
    BY <1>2
  <2> DEFINE g == [i \in 0..(m + 1) |-> IF i = m + 1 THEN f[m] \o b[m + 1] ELSE f[i]]
  <2>2. m \in Nat /\ m + 1 \in Nat
    OBVIOUS
  <2>3. \A i \in 0..m : f[i] = IF i = 0 THEN << >> ELSE f[i - 1] \o b[i]
    BY <2>1
  <2>4. ASSUME NEW i \in 0..(m + 1)
        PROVE  g[i] = IF i = 0 THEN << >> ELSE g[i - 1] \o b[i]
    <3>1. CASE i = m + 1
      <4>1. i # 0 /\ i - 1 = m /\ m \in 0..(m + 1) /\ m # m + 1
        BY <2>2, <3>1
      <4>2. g[m] = f[m] /\ g[i] = f[m] \o b[m + 1]
        BY <3>1, <4>1
      <4> QED
        BY <3>1, <4>1, <4>2
    <3>2. CASE i = 0
      <4>1. i \in 0..m /\ i # m + 1
        BY <2>2, <3>2
      <4> QED
        BY <2>3, <3>2, <4>1
    <3>3. CASE i # m + 1 /\ i # 0
      <4>1. i \in 0..m /\ i - 1 \in 0..(m + 1) /\ i - 1 # m + 1
        BY <2>2, <3>3
      <4>2. g[i] = f[i] /\ g[i - 1] = f[i - 1]
        BY <3>3, <4>1
      <4> QED
        BY <2>3, <3>3, <4>1, <4>2
    <3> QED
      BY <3>1, <3>2, <3>3
  <2>5. g = [i \in 0..(m + 1) |-> g[i]]
    OBVIOUS
  <2> HIDE DEF g
  <2>6. Solves(g, m + 1)
    BY <2>4, <2>5, Zenon
  <2> QED
    BY <2>2, <2>6
<1>3. n \in P
  <2>1. P \in SUBSET Nat
    OBVIOUS
  <2> HIDE DEF P
  <2> QED
    BY <1>1, <1>2, <2>1, NaturalInduction
<1> QED
  BY <1>3

(* and each of the parts is found in it where the ones before it end.      *)
LEMMA PartsAt ==
  ASSUME NEW n \in Nat, NEW f, NEW b, f[0] = << >>,
         \A i \in 1..n : f[i] = f[i - 1] \o b[i] /\ IsSeq(b[i])
  PROVE  \E q : /\ q[0] = 0 /\ q[n] \in Nat /\ HasLen(f[n], q[n])
                /\ \A i \in 1..n :
                     /\ q[i - 1] \in Nat /\ Len(b[i]) \in Nat
                     /\ q[i] = q[i - 1] + Len(b[i]) /\ q[i] <= q[n]
                     /\ At(f[n], q[i - 1], b[i], Len(b[i]))
<1> DEFINE q == [i \in 0..n |-> Len(f[i])]
           Good(m) == /\ q[m] \in Nat /\ HasLen(f[m], q[m])
                      /\ \A i \in 0..m : q[i] \in Nat /\ q[i] <= q[m]
                      /\ \A i \in 1..m :
                           /\ Len(b[i]) \in Nat /\ q[i] = q[i - 1] + Len(b[i])
                           /\ At(f[m], q[i - 1], b[i], Len(b[i]))
           P == {m \in Nat : m <= n => Good(m)}
<1>1. q[0] = 0 /\ HasLen(f[0], 0)
  <2>1. << >> \in Seq(Nat) /\ Len(<< >>) = 0 /\ 0 \in 0..n
    OBVIOUS
  <2> QED
    BY <2>1, SeqIs DEF HasLen
<1>2. 0 \in P
  <2>1. \A i \in 0..0 : i = 0
    OBVIOUS
  <2>2. \A i \in 1..0 : FALSE
    OBVIOUS
  <2> HIDE DEF q
  <2>3. Good(0)
    BY <1>1, <2>1, <2>2
  <2> QED
    BY <2>3
<1>3. ASSUME NEW m \in P PROVE m + 1 \in P
  <2>0. m \in Nat
    OBVIOUS
  <2> HIDE DEF Good
  <2> SUFFICES ASSUME m + 1 <= n PROVE Good(m + 1)
    BY <2>0
  <2>11. m + 1 \in 1..n /\ (m + 1) - 1 = m /\ Good(m)
    BY <1>3, <2>0
  <2> USE DEF Good
  <2>1. m + 1 \in 1..n /\ (m + 1) - 1 = m /\ Good(m)
    BY <2>11
  <2>2. PICK c : c = b[m + 1]
    OBVIOUS
  <2>3. f[m + 1] = f[m] \o c /\ IsSeq(c)
    BY <2>1, <2>2
  <2>4. PICK l \in Nat : l = Len(c) /\ HasLen(c, l)
    BY <2>3, HasLenIs
  <2>5. PICK k \in Nat : k = q[m] /\ HasLen(f[m], k)
    BY <2>1
  <2>6. /\ HasLen(f[m + 1], k + l) /\ At(f[m + 1], 0, f[m], k) /\ At(f[m + 1], k, c, l)
    <3>1. PICK s : s = f[m]
      OBVIOUS
    <3>3. HasLen(s, k) /\ HasLen(c, l)
      BY <2>4, <2>5, <3>1
    <3> HIDE DEF q, Good, P
    <3>2. HasLen(s \o c, k + l) /\ At(s \o c, 0, s, k) /\ At(s \o c, k, c, l)
      BY <3>3, ConcatIs
    <3> QED
      BY <2>3, <3>1, <3>2
  <2>7. q[m + 1] = k + l
    <3>1. m + 1 \in 0..n
      BY <2>1
    <3> QED
      BY <2>6, <3>1 DEF HasLen
  <2> HIDE DEF q
  <2>8. ASSUME NEW i \in 0..(m + 1) PROVE q[i] \in Nat /\ q[i] <= q[m + 1]
    <3>1. CASE i = m + 1
      BY <2>7, <3>1
    <3>2. CASE i # m + 1
      <4>1. i \in 0..m
        BY <2>0, <3>2
      <4>2. q[i] \in Nat /\ q[i] <= k
        BY <2>1, <2>5, <4>1
      <4> QED
        BY <2>7, <4>2
    <3> QED
      BY <3>1, <3>2
  <2>9. ASSUME NEW i \in 1..(m + 1)
        PROVE  /\ Len(b[i]) \in Nat /\ q[i] = q[i - 1] + Len(b[i])
               /\ At(f[m + 1], q[i - 1], b[i], Len(b[i]))
    <3>1. CASE i = m + 1
      <4>1. i - 1 = m
        BY <2>0, <3>1
      <4> QED
        BY <2>2, <2>4, <2>5, <2>6, <2>7, <3>1, <4>1
    <3>2. CASE i # m + 1
      <4>1. i \in 1..m /\ i \in 0..m /\ i - 1 \in 0..m
        BY <2>0, <3>2
      <4>2. PICK x \in Nat, y \in Nat : x = q[i - 1] /\ y = Len(b[i])
        BY <2>1, <4>1
      <4>3. At(f[m], x, b[i], y) /\ x + y <= k /\ q[i] = x + y
        BY <2>1, <2>5, <4>1, <4>2
      <4>4. At(f[m + 1], 0 + x, b[i], y)
        BY <2>6, <4>3, AtNested
      <4>5. 0 + x = x
        OBVIOUS
      <4> QED
        BY <4>2, <4>3, <4>4, <4>5
    <3> QED
      BY <3>1, <3>2
  <2>10. q[m + 1] \in Nat /\ HasLen(f[m + 1], q[m + 1])
    BY <2>6, <2>7
  <2> QED
    BY <2>8, <2>9, <2>10
<1>4. n \in P
  <2>1. P \in SUBSET Nat
    OBVIOUS
  <2> HIDE DEF P
  <2> QED
    BY <1>2, <1>3, <2>1, NaturalInduction
<1>5. Good(n)
  <2> HIDE DEF Good
  <2> QED
    BY <1>4
<1> HIDE DEF q
<1>6. \A i \in 1..n : i \in 0..n /\ i - 1 \in 0..n
  OBVIOUS
<1> QED
  BY <1>1, <1>5, <1>6

(* It is one of numbers if its parts are.                                  *)
LEMMA PartsNat ==
  ASSUME NEW n \in Nat, NEW f, NEW b, f[0] = << >>,
         \A i \in 1..n : f[i] = f[i - 1] \o b[i] /\ b[i] \in Seq(Nat)
  PROVE  f[n] \in Seq(Nat)
<1> DEFINE P == {m \in Nat : m <= n => f[m] \in Seq(Nat)}
<1>1. 0 \in P
  <2>1. f[0] \in Seq(Nat)
    OBVIOUS
  <2> QED
    BY <2>1
<1>2. ASSUME NEW m \in P PROVE m + 1 \in P
  <2> SUFFICES ASSUME m + 1 <= n PROVE f[m + 1] \in Seq(Nat)
    OBVIOUS
  <2>1. m + 1 \in 1..n /\ (m + 1) - 1 = m /\ f[m] \in Seq(Nat)
    BY <1>2
  <2>2. f[m + 1] = f[m] \o b[m + 1] /\ b[m + 1] \in Seq(Nat)
    BY <2>1
  <2> QED
    BY <2>1, <2>2, ConcatProperties
<1>3. n \in P
  <2>1. P \in SUBSET Nat
    OBVIOUS
  <2> HIDE DEF P
  <2> QED
    BY <1>1, <1>2, <2>1, NaturalInduction
<1> QED
  BY <1>3

(* The layout of a component is a sequence of numbers.                     *)
LEMMA ItemNat ==
  ASSUME NEW c, IsComponent(c), c.type # "none"
  PROVE  ItemLayout(c) \in Seq(Nat) /\ ItemLen(c) \in Nat /\ ItemLen(c) >= 4
<1>1. c.name \in Seq(Nat) /\ Len(c.name) \in Nat
  BY LenProperties DEF IsComponent
<1>2. CASE IsString(c)
  <2>1. c.value \in Seq(Nat) /\ Len(c.value) \in Nat
    BY <1>2, LenProperties DEF IsComponent, IsString
  <2>2. ItemLayout(c) = U16(Len(c.value)) \o U16(Len(c.name)) \o c.value \o c.name
    BY <1>2, StringItemIs
  <2>3. U16(Len(c.value)) \in Seq(Nat) /\ U16(Len(c.name)) \in Seq(Nat)
    BY <1>1, <2>1, U16Nat
  <2>4. ItemLayout(c) \in Seq(Nat)
    BY <1>1, <2>1, <2>2, <2>3, ConcatProperties
  <2>5. ItemLen(c) = Len(c.value) + Len(c.name) + 4
    BY <1>2, StringItemIs DEF StringItem, HasLen, ItemLen
  <2>6. PICK v \in Nat, n \in Nat : v = Len(c.value) /\ n = Len(c.name)
    BY <1>1, <2>1
  <2>7. ItemLen(c) = v + n + 4
    BY <2>5, <2>6
  <2>8. ItemLen(c) \in Nat /\ ItemLen(c) >= 4
    BY <2>7
  <2> QED
    BY <2>4, <2>8
<1>3. CASE ~IsString(c)
  <2>1. PICK v : v = FourByteValue(c) /\ v \in Uint32
    BY <1>3, FourByteValueIs
  <2>2. ItemLayout(c) = U32(v) \o c.name
    BY <1>3, <2>1, NumberItemIs
  <2>3. v[1] \in Nat /\ v[2] \in Nat
    BY <2>1, WordIs DEF Uint32
  <2>4. U32(v) \in Seq(Nat)
    BY <2>3, U16Nat, ConcatProperties DEF U32
  <2>5. ItemLayout(c) \in Seq(Nat)
    BY <1>1, <2>2, <2>4, ConcatProperties
  <2>6. ItemLen(c) = Len(c.name) + 4
    BY <1>3, NumberItemIs DEF NumberItem, HasLen, ItemLen
  <2> QED
    BY <1>1, <2>5, <2>6
<1> QED
  BY <1>2, <1>3

(* The layout of a list of components.                                     *)
LEMMA LayoutEncodes ==
  ASSUME NEW cs, AreComponents(cs), Len(cs) <= MaxComponents,
         \A j \in 1..Len(cs) : cs[j].type # "none"
  PROVE  \E q : Encodes(Layout(cs), cs, q)
<1>1. PICK n \in Nat : n = Len(cs) /\ DOMAIN cs = 1..n
  BY LenProperties DEF AreComponents
<1> DEFINE b == [j \in 1..n |-> ItemLayout(cs[j])]
           Solves(f) == f = [j \in 0..n |-> IF j = 0 THEN << >> ELSE f[j - 1] \o ItemLayout(cs[j])]
           items == CHOOSE f : Solves(f)
           lens == [j \in 1..n |-> Len(ItemLayout(cs[j])) - 4]
           mask == <<MaskOf(cs)>>
           one == <<n>>
<1>2. Layout(cs) = one \o lens \o mask \o items[n]
  BY <1>1 DEF Layout
<1>3. Solves(items)
  <2>1. PICK f : f = [j \in 0..n |-> IF j = 0 THEN << >> ELSE f[j - 1] \o b[j]]
    BY ConcatRecursion
  <2>2. ASSUME NEW j \in 0..n, j # 0 PROVE b[j] = ItemLayout(cs[j])
    BY <2>2
  <2> HIDE DEF b
  <2>3. [j \in 0..n |-> IF j = 0 THEN << >> ELSE f[j - 1] \o b[j]]
          = [j \in 0..n |-> IF j = 0 THEN << >> ELSE f[j - 1] \o ItemLayout(cs[j])]
    BY <2>2
  <2>4. Solves(f)
    BY <2>1, <2>3, Zenon
  <2> HIDE DEF Solves
  <2> QED
    BY <2>4
<1> HIDE DEF items
<1>4. items[0] = << >>
  BY <1>3
<1>5. ASSUME NEW j \in 1..n
      PROVE  /\ items[j] = items[j - 1] \o b[j] /\ IsSeq(b[j]) /\ b[j] = ItemLayout(cs[j])
             /\ ItemLen(cs[j]) \in Nat
  <2>1. j \in 0..n /\ j # 0
    OBVIOUS
  <2>2. items[j] = items[j - 1] \o ItemLayout(cs[j])
    BY <1>3, <2>1
  <2>3. IsComponent(cs[j]) /\ cs[j].type # "none"
    BY <1>1 DEF AreComponents
  <2>4. ItemLayout(cs[j]) \in Seq(Nat) /\ ItemLen(cs[j]) \in Nat
    BY <2>3, ItemNat
  <2>5. IsSeq(ItemLayout(cs[j]))
    BY <2>4, SeqIs
  <2> QED
    BY <2>2, <2>4, <2>5
<1> HIDE DEF Solves
<1>6. PICK s : /\ s[0] = 0 /\ s[n] \in Nat /\ HasLen(items[n], s[n])
               /\ \A i \in 1..n :
                    /\ s[i - 1] \in Nat /\ Len(b[i]) \in Nat
                    /\ s[i] = s[i - 1] + Len(b[i]) /\ s[i] <= s[n]
                    /\ At(items[n], s[i - 1], b[i], Len(b[i]))
  <2>1. \A i \in 1..n : items[i] = items[i - 1] \o b[i] /\ IsSeq(b[i])
    BY <1>5
  <2> HIDE DEF b
  <2> QED
    BY <1>4, <2>1, PartsAt
<1>30. PICK k \in Nat : k = s[n]
  BY <1>6
<1>7. PICK rest : k = s[n] /\ rest = items[n] /\ HasLen(rest, k)
  BY <1>6, <1>30
<1>8. HasLen(one, 1) /\ HasLen(mask, 1) /\ one[1] = n /\ mask[1] = MaskOf(cs)
  <2>1. one \in Seq({n}) /\ Len(one) = 1 /\ mask \in Seq({MaskOf(cs)}) /\ Len(mask) = 1
    OBVIOUS
  <2> QED
    BY <2>1, SeqIs DEF HasLen
<1>9. HasLen(lens, n) /\ \A j \in 1..n : lens[j] = ItemLen(cs[j]) - 4
  <2>1. DOMAIN lens = 1..n /\ lens = [j \in 1..n |-> lens[j]]
    OBVIOUS
  <2>2. \A j \in 1..n : lens[j] = ItemLen(cs[j]) - 4
    BY DEF ItemLen
  <2> HIDE DEF lens
  <2> QED
    BY <2>1, <2>2, HasLenIs
<1> HIDE DEF one, mask, lens
<1> DEFINE x == one \o lens
           y == x \o mask
           z == y \o rest
<1>10. HasLen(x, n + 1) /\ At(x, 0, one, 1) /\ At(x, 1, lens, n)
  <2>1. HasLen(x, 1 + n) /\ At(x, 0, one, 1) /\ At(x, 1, lens, n)
    BY <1>8, <1>9, ConcatIs
  <2> QED
    BY <2>1
<1> HIDE DEF x
<1>11. HasLen(y, n + 2) /\ At(y, 0, x, n + 1) /\ At(y, n + 1, mask, 1)
  <2>1. HasLen(y, (n + 1) + 1) /\ At(y, 0, x, n + 1) /\ At(y, n + 1, mask, 1)
    BY <1>8, <1>10, ConcatIs
  <2>2. (n + 1) + 1 = n + 2
    OBVIOUS
  <2> QED
    BY <2>1, <2>2
<1> HIDE DEF y
<1>12. HasLen(z, n + 2 + k) /\ At(z, 0, y, n + 2) /\ At(z, n + 2, rest, k)
  <2>1. PICK m \in Nat : m = n + 2
    OBVIOUS
  <2>2. HasLen(y, m) /\ HasLen(rest, k)
    BY <1>7, <1>11, <2>1
  <2> HIDE <1>7, <1>11
  <2>3. HasLen(z, m + k) /\ At(z, 0, y, m) /\ At(z, m, rest, k)
    BY <2>2, ConcatIs
  <2> QED
    BY <2>1, <2>3
<1> HIDE DEF z
<1>13. z[1] = n
  <2>1. z[0 + 1] = y[1] /\ y[0 + 1] = x[1] /\ x[0 + 1] = one[1]
    BY <1>10, <1>11, <1>12 DEF At
  <2> QED
    BY <1>8, <2>1
<1>14. ASSUME NEW j \in 1..n PROVE z[j + 1] = ItemLen(cs[j]) - 4
  <2>1. z[0 + (j + 1)] = y[j + 1] /\ y[0 + (j + 1)] = x[j + 1] /\ x[1 + j] = lens[j]
    <3>1. j + 1 \in 1..(n + 2) /\ j + 1 \in 1..(n + 1)
      OBVIOUS
    <3> QED
      BY <1>10, <1>11, <1>12, <3>1 DEF At
  <2>2. 0 + (j + 1) = j + 1 /\ 1 + j = j + 1
    OBVIOUS
  <2> QED
    BY <1>9, <2>1, <2>2, Zenon
<1>15. z[n + 2] = MaskOf(cs)
  <2>1. z[0 + (n + 2)] = y[n + 2] /\ y[(n + 1) + 1] = mask[1]
    <3>1. n + 2 \in 1..(n + 2) /\ 1 \in 1..1
      OBVIOUS
    <3> QED
      BY <1>11, <1>12, <3>1 DEF At
  <2>2. 0 + (n + 2) = n + 2 /\ (n + 1) + 1 = n + 2
    OBVIOUS
  <2> QED
    BY <1>8, <2>1, <2>2, Zenon
<1> DEFINE q == [j \in 0..n |-> n + 2 + s[j]]
<1>16. ASSUME NEW j \in 1..n
       PROVE  /\ q[j - 1] \in Nat /\ q[j] = q[j - 1] + ItemLen(cs[j]) /\ q[j] <= n + 2 + k
              /\ At(z, q[j - 1], ItemLayout(cs[j]), ItemLen(cs[j]))
  <2>1. j \in 0..n /\ j - 1 \in 0..n
    OBVIOUS
  <2>2. PICK i \in Nat, l \in Nat : /\ i = s[j - 1] /\ l = ItemLen(cs[j]) /\ l = Len(b[j])
                                    /\ s[j] = i + l /\ i + l <= k
                                    /\ At(rest, i, b[j], l)
    <3>1. Len(b[j]) = ItemLen(cs[j])
      BY <1>5 DEF ItemLen
    <3> HIDE DEF b
    <3> QED
      BY <1>6, <1>7, <3>1
  <2>3. q[j - 1] = n + 2 + i /\ q[j] = n + 2 + (i + l)
    BY <2>1, <2>2
  <2> HIDE DEF q, b
  <2>4. At(z, (n + 2) + i, b[j], l)
    <3>1. n + 2 \in Int /\ n + 2 \in Nat
      OBVIOUS
    <3> QED
      BY <1>12, <2>2, <3>1, AtNested
  <2>5. PICK m \in Nat : m = n + 2 + i
    OBVIOUS
  <2>6. q[j - 1] = m /\ q[j] = m + l /\ m + l <= n + 2 + k
    BY <2>2, <2>3, <2>5, SMTT(30)
  <2>7. At(z, m, b[j], l)
    BY <2>4, <2>5
  <2>8. b[j] = ItemLayout(cs[j]) /\ l = ItemLen(cs[j])
    BY <1>5, <2>2
  <2> QED
    BY <2>6, <2>7, <2>8
<1>17. ASSUME NEW j \in 1..n PROVE Bit(z[n + 2], j - 1) = 1 <=> IsString(cs[j])
  <2>1. j \in 1..MaxComponents /\ j \in DOMAIN cs
    BY <1>1 DEF MaxComponents
  <2> QED
    BY <1>15, <2>1, MaskIs
<1>18. q[0] = n + 2
  BY <1>6
<1> HIDE DEF q, b
<1>19. Layout(cs) = z
  BY <1>2, <1>7 DEF z, y, x
<1>20. Len(z) = n + 2 + k
  BY <1>12, HasLenIs
<1>22. PICK l \in Nat : l = Len(z) /\ l = n + 2 + k /\ n + 2 <= l
  BY <1>20
<1>21. Encodes(z, cs, q)
  <2>1. n \in Nat /\ q[0] = n + 2 /\ q[0] <= l
    BY <1>18, <1>22
  <2>2. \A j \in 1..n : q[j - 1] \in Nat /\ ItemLen(cs[j]) \in Nat
    BY <1>5, <1>16
  <2>3. \A j \in 1..n : q[j] = q[j - 1] + ItemLen(cs[j]) /\ q[j] <= l
    BY <1>16, <1>22
  <2>4. \A j \in 1..n : At(z, q[j - 1], ItemLayout(cs[j]), ItemLen(cs[j]))
    BY <1>16
  <2> QED
    BY <1>1, <1>13, <1>14, <1>17, <1>22, <2>1, <2>2, <2>3, <2>4, Zenon DEF Encodes
<1> QED
  BY <1>19, <1>21

-----------------------------------------------------------------------------
(* Writing the components                                                  *)

(* Writing one byte.                                                       *)
LEMMA WriteOneIs ==
  ASSUME NEW mem, NEW n \in Nat, IsBlock(mem, n), NEW p \in 0..(n - 1), NEW x
  PROVE  /\ IsBlock(Write(mem, p, <<x>>), n) /\ Write(mem, p, <<x>>)[p] = x
         /\ \A i \in 0..(n - 1) : i # p => Write(mem, p, <<x>>)[i] = mem[i]
<1> DEFINE s == <<x>>
           w == Write(mem, p, s)
<1>1. Len(s) = 1 /\ s[1] = x
  OBVIOUS
<1> HIDE DEF s
<1>2. w = [i \in 0..(n - 1) |-> IF i \in p..(p + 1 - 1) THEN s[i - p + 1] ELSE mem[i]]
  BY <1>1 DEF Write, IsBlock
<1> HIDE DEF w
<1>3. w[p] = s[p - p + 1] /\ p - p + 1 = 1
  BY <1>2
<1>4. \A i \in 0..(n - 1) : i # p => w[i] = mem[i]
  BY <1>2
<1>5. IsBlock(w, n)
  BY <1>2 DEF IsBlock
<1> QED
  BY <1>1, <1>3, <1>4, <1>5 DEF w, s

(* One byte is changed, and nothing else.                                  *)
OneWritten(w, mem, n, p, x) ==
  /\ IsBlock(w, n) /\ w[p] = x
  /\ \A i \in 0..(n - 1) : i # p => w[i] = mem[i]

LEMMA WriteIsOneWritten ==
  \A mem, n, p, x : n \in Nat /\ IsBlock(mem, n) /\ p \in 0..(n - 1)
                   => OneWritten(Write(mem, p, <<x>>), mem, n, p, x)
<1> SUFFICES ASSUME NEW mem, NEW n \in Nat, IsBlock(mem, n), NEW p \in 0..(n - 1), NEW x
             PROVE  OneWritten(Write(mem, p, <<x>>), mem, n, p, x)
  BY Zenon
<1>1. /\ IsBlock(Write(mem, p, <<x>>), n) /\ Write(mem, p, <<x>>)[p] = x
      /\ \A i \in 0..(n - 1) : i # p => Write(mem, p, <<x>>)[i] = mem[i]
  BY WriteOneIs
<1> QED
  BY <1>1, Zenon DEF OneWritten

(* A block of numbers.                                                     *)
NatBlock(mem, n) == IsBlock(mem, n) /\ \A i \in 0..(n - 1) : mem[i] \in Nat

(* A component and its length are put in: what is before it stays.         *)
Put(mem, p, s, j, l) == Write(Write(mem, p, s), j, <<l>>)

(* It is there then, and what was there before still is.                   *)
LEMMA PutIs ==
  ASSUME NEW size \in Nat, NEW mem, NatBlock(mem, size),
         NEW q \in Nat, NEW s \in Seq(Nat), NEW k \in Nat, HasLen(s, k),
         q + k <= size, NEW j \in Nat, 0 < j, j < q, NEW l \in Nat
  PROVE  /\ NatBlock(Put(mem, q, s, j, l), size) /\ Put(mem, q, s, j, l)[j] = l
         /\ \A i \in 0..(q - 1) : i # j => Put(mem, q, s, j, l)[i] = mem[i]
         /\ At(Put(mem, q, s, j, l), q - 1, s, k)
<1> DEFINE w == Put(mem, q, s, j, l)
           v == Write(mem, q, s)
<1>1. PICK p \in Int : p = q - 1 /\ p + 1 = q /\ -1 <= p /\ p + k < size
  OBVIOUS
<1>2. /\ IsBlock(v, size) /\ Agree(v, mem, 0, p) /\ Agree(v, mem, p + k + 1, size - 1)
      /\ At(v, p, s, k)
  <2>1. v = Write(mem, p + 1, s)
    BY <1>1
  <2> HIDE DEF v
  <2>2. IsBlock(mem, size)
    BY DEF NatBlock
  <2> QED
    BY <1>1, <2>1, <2>2, WriteIs
<1>3. w = Write(v, j, <<l>>)
  BY DEF Put
<1> HIDE DEF v, w
<1>4. /\ IsBlock(w, size) /\ w[j] = l
      /\ \A i \in 0..(size - 1) : i # j => w[i] = v[i]
  <2>1. j \in 0..(size - 1)
    OBVIOUS
  <2>2. IsBlock(v, size)
    BY <1>2
  <2>3. OneWritten(w, v, size, j, l)
    BY <1>3, <2>1, <2>2, WriteIsOneWritten, Zenon
  <2> QED
    BY <2>3, Zenon DEF OneWritten
<1>5. ASSUME NEW i \in 0..(q - 1), i # j PROVE w[i] = mem[i]
  <2>1. i \in 0..p /\ i \in 0..(size - 1)
    BY <1>1
  <2> QED
    BY <1>2, <1>4, <1>5, <2>1 DEF Agree
<1>6. At(w, q - 1, s, k)
  <2>1. ASSUME NEW i \in 1..k PROVE w[p + i] = s[i]
    <3>1. p + i \in 0..(size - 1) /\ p + i # j
      BY <1>1
    <3> QED
      BY <1>2, <1>4, <3>1 DEF At
  <2> QED
    BY <1>1, <2>1 DEF At
<1>7. ASSUME NEW i \in 0..(size - 1) PROVE w[i] \in Nat
  <2>1. CASE i = j
    BY <1>4, <2>1
  <2>2. CASE i # j /\ i <= p
    <3>1. i \in 0..(q - 1)
      BY <1>1, <2>2
    <3>2. w[i] = mem[i]
      BY <1>5, <2>2, <3>1
    <3> QED
      BY <3>2 DEF NatBlock
  <2>3. CASE i # j /\ i > p + k
    <3>1. i \in (p + k + 1)..(size - 1)
      BY <1>1, <2>3
    <3>2. w[i] = v[i] /\ v[i] = mem[i]
      BY <1>2, <1>4, <2>3, <3>1 DEF Agree
    <3> QED
      BY <3>2 DEF NatBlock
  <2>4. CASE i > p /\ i <= p + k
    <3>1. PICK x \in 1..k : x = i - p /\ p + x = i
      BY <1>1, <2>4
    <3>2. w[p + x] = s[x]
      BY <1>1, <1>6 DEF At
    <3>3. s[x] \in Nat
      <4>1. DOMAIN s = 1..k /\ s \in [1..Len(s) -> Nat] /\ Len(s) = k
        BY HasLenIs, LenProperties
      <4> QED
        BY <4>1
    <3> QED
      BY <3>1, <3>2, <3>3
  <2> QED
    BY <1>1, <2>1, <2>2, <2>3, <2>4
<1> QED
  BY <1>4, <1>5, <1>6, <1>7 DEF NatBlock, w

(* The places of the components, one after another in a block.             *)
Tight(cs, q, size) ==
  LET n == Len(cs) IN
  /\ n \in Nat /\ size \in Nat /\ q[0] = n + 2 /\ q[0] <= size
  /\ \A j \in 1..n : q[j - 1] \in Nat /\ ItemLen(cs[j]) \in Nat
  /\ \A j \in 1..n :
       q[j] = q[j - 1] + ItemLen(cs[j]) /\ n + 2 <= q[j - 1] /\ q[j] <= size

(* A mask with the bits of the first j components, if they are strings.    *)
HasBits(mask, cs, j) ==
  /\ mask \in Byte
  /\ \A i \in 1..Len(cs) : /\ IsString(cs[i]) /\ i <= j => Bit(mask, i - 1) = 1
                           /\ ~IsString(cs[i]) => Bit(mask, i - 1) # 1

(* The memory when the first j components are in it.                       *)
Partly(st, cs, q, size, j) ==
  LET n == Len(cs) IN
  /\ NatBlock(st.mem, size) /\ st.mem[0] = n
  /\ j < n => st.pos = q[j]
  /\ \A i \in 1..j : st.mem[i] = ItemLen(cs[i]) - 4
  /\ HasBits(st.mem[n + 1], cs, j)
  /\ \A i \in 1..j : At(st.mem, q[i - 1] - 1, ItemLayout(cs[i]), ItemLen(cs[i]))

(* What is before one of them is before all after it.                      *)
LEMMA PlacesGrow ==
  ASSUME NEW cs, NEW q, NEW size, Tight(cs, q, size), NEW j \in 1..Len(cs), NEW i \in 1..(j - 1)
  PROVE  q[i - 1] + ItemLen(cs[i]) <= q[j - 1]
<1>1. PICK n \in Nat : n = Len(cs)
  BY DEF Tight
<1> DEFINE P == {m \in Nat : i + m <= n => q[i] <= q[i + m]}
<1>2. q[i] \in Nat /\ q[i] = q[i - 1] + ItemLen(cs[i])
  <2>1. i \in 1..n
    BY <1>1
  <2>2. PICK x \in Nat, y \in Nat : x = q[i - 1] /\ y = ItemLen(cs[i]) /\ q[i] = x + y
    BY <1>1, <2>1 DEF Tight
  <2> QED
    BY <2>2
<1>3. 0 \in P
  <2>1. i + 0 = i /\ i \in Nat
    OBVIOUS
  <2> QED
    BY <1>2, <2>1
<1>4. ASSUME NEW m \in P PROVE m + 1 \in P
  <2> SUFFICES ASSUME i + (m + 1) <= n PROVE q[i] <= q[i + (m + 1)]
    OBVIOUS
  <2>1. PICK k \in 1..n : k = i + (m + 1) /\ k - 1 = i + m
    BY <1>1
  <2>2. q[i] <= q[k - 1]
    BY <1>4, <2>1
  <2>3. PICK x \in Nat, y \in Nat : x = q[k - 1] /\ y = ItemLen(cs[k]) /\ q[k] = x + y
    BY <1>1, <2>1 DEF Tight
  <2>4. PICK z \in Nat : z = q[i]
    BY <1>2
  <2> QED
    BY <2>1, <2>2, <2>3, <2>4
<1>5. j - 1 - i \in P
  <2>1. P \in SUBSET Nat /\ j - 1 - i \in Nat
    BY <1>1
  <2> HIDE DEF P
  <2> QED
    BY <1>3, <1>4, <2>1, NaturalInduction
<1>6. i + (j - 1 - i) = j - 1 /\ j - 1 <= n
  BY <1>1
<1>7. q[i] <= q[j - 1]
  BY <1>5, <1>6
<1> QED
  BY <1>2, <1>7

(* One more of them, in a memory in which the mask has its bit.            *)
LEMMA PartlyGrows ==
  ASSUME NEW cs, NEW q, NEW size \in Nat, Tight(cs, q, size), NEW n \in Nat, n = Len(cs),
         NEW j \in 1..n, NEW st, Partly(st, cs, q, size, j - 1), ItemLayout(cs[j]) \in Seq(Nat),
         NEW mem, NatBlock(mem, size),
         \A i \in 0..(size - 1) : i # n + 1 => mem[i] = st.mem[i],
         HasBits(mem[n + 1], cs, j),
         NEW l \in Nat, l = ItemLen(cs[j]) - 4,
         NEW next, next.mem = Put(mem, q[j - 1], ItemLayout(cs[j]), j, l),
         j < n => next.pos = q[j]
  PROVE  Partly(next, cs, q, size, j)
<1>1. PICK p \in Nat, k \in Nat : p = q[j - 1] /\ k = ItemLen(cs[j])
  BY DEF Tight
<1>2. size \in Nat /\ n + 2 <= p /\ p + k <= size /\ n + 2 <= size
  BY <1>1 DEF Tight
<1>3. PICK s \in Seq(Nat) : s = ItemLayout(cs[j]) /\ HasLen(s, k)
  BY <1>1, SeqIs, HasLenIs DEF ItemLen
<1>4. PICK w : w = next.mem
  OBVIOUS
<1>5. /\ NatBlock(w, size) /\ w[j] = l
      /\ \A i \in 0..(p - 1) : i # j => w[i] = mem[i]
      /\ At(w, p - 1, s, k)
  <2>1. w = Put(mem, p, s, j, l)
    BY <1>1, <1>3, <1>4
  <2>2. j \in Nat /\ 0 < j /\ j < p /\ p + k <= size /\ HasLen(s, k)
    BY <1>2, <1>3
  <2>3. NatBlock(w, size) /\ w[j] = l
    BY <2>1, <2>2, PutIs, SMTT(30)
  <2>4. \A i \in 0..(p - 1) : i # j => w[i] = mem[i]
    BY <2>1, <2>2, PutIs, SMTT(30)
  <2>5. At(w, p - 1, s, k)
    BY <2>1, <2>2, PutIs
  <2> QED
    BY <2>3, <2>4, <2>5
<1>6. w[0] = n
  <2>1. 0 \in 0..(p - 1) /\ 0 # j /\ 0 \in 0..(size - 1) /\ 0 # n + 1
    BY <1>2
  <2>2. st.mem[0] = n
    BY DEF Partly
  <2> QED
    BY <1>5, <2>1, <2>2
<1>7. ASSUME NEW i \in 1..j PROVE w[i] = ItemLen(cs[i]) - 4
  <2>1. CASE i = j
    BY <1>5, <2>1
  <2>2. CASE i # j
    <3>1. i \in 1..(j - 1) /\ i \in 0..(p - 1) /\ i \in 0..(size - 1) /\ i # n + 1
      BY <1>2, <2>2, SMTT(30)
    <3>2. st.mem[i] = ItemLen(cs[i]) - 4
      BY <3>1 DEF Partly
    <3> QED
      BY <1>5, <2>2, <3>1, <3>2
  <2> QED
    BY <2>1, <2>2
<1>8. w[n + 1] = mem[n + 1]
  <2>1. n + 1 \in 0..(p - 1) /\ n + 1 # j
    BY <1>2
  <2> QED
    BY <1>5, <2>1
<1>9. ASSUME NEW i \in 1..j
      PROVE  At(w, q[i - 1] - 1, ItemLayout(cs[i]), ItemLen(cs[i]))
  <2>1. CASE i = j
    BY <1>1, <1>3, <1>5, <2>1
  <2>2. CASE i # j
    <3>1. i \in 1..(j - 1) /\ i \in 1..n
      BY <2>2
    <3>20. PICK x \in Nat, y \in Nat : x = q[i - 1] /\ y = ItemLen(cs[i])
      BY <3>1 DEF Tight
    <3>2. PICK c : x = q[i - 1] /\ y = ItemLen(cs[i]) /\ c = ItemLayout(cs[i])
      BY <3>20
    <3>3. At(st.mem, x - 1, c, y)
      BY <3>1, <3>2 DEF Partly
    <3>4. n + 2 <= x /\ x + y <= p
      <4>1. n + 2 <= x
        BY <3>1, <3>2 DEF Tight
      <4>2. q[i - 1] + ItemLen(cs[i]) <= q[j - 1]
        BY <3>1, PlacesGrow
      <4> QED
        BY <1>1, <3>2, <4>1, <4>2
    <3>5. ASSUME NEW h \in 1..y PROVE w[(x - 1) + h] = c[h]
      <4>1. /\ (x - 1) + h \in 0..(p - 1) /\ (x - 1) + h # j
            /\ (x - 1) + h \in 0..(size - 1) /\ (x - 1) + h # n + 1
        BY <1>2, <3>4
      <4>2. st.mem[(x - 1) + h] = c[h]
        BY <3>3 DEF At
      <4> QED
        BY <1>5, <4>1, <4>2
    <3> QED
      BY <3>2, <3>5 DEF At
  <2> QED
    BY <2>1, <2>2
<1>10. j < n => next.pos = q[j]
  OBVIOUS
<1>11. NatBlock(w, size) /\ HasBits(w[n + 1], cs, j)
  BY <1>5, <1>8
<1> QED
  BY <1>4, <1>6, <1>7, <1>9, <1>10, <1>11, Zenon DEF Partly

(* One round of the loop.                                                  *)
LEMMA StringIsPut ==
  ASSUME NEW cs, NEW q, NEW size \in Nat, Tight(cs, q, size), NEW n \in Nat, n = Len(cs),
         n <= MaxComponents, NEW j \in 1..n, NEW st, Partly(st, cs, q, size, j - 1),
         NEW c, c = cs[j], IsComponent(c), IsString(c), ItemLen(c) - 4 <= 255,
         j < n => Len(c.value) = Len(c.name)
  PROVE  Partly(PutComponent(st, c, n, j - 1), cs, q, size, j)
<1> DEFINE mem == Write(st.mem, n + 1, <<SetBit(st.mem[n + 1], j - 1)>>)
           next == PutComponent(st, c, n, j - 1)
<1>1. PICK v \in Nat, k \in Nat : v = Len(c.value) /\ k = Len(c.name)
  BY StringItemIs
<1>2. ItemLen(c) = v + k + 4 /\ v + k <= 255
  <2>1. ItemLen(c) = v + k + 4
    BY <1>1, StringItemIs DEF StringItem, HasLen, ItemLen
  <2> QED
    BY <2>1
<1>3. ItemLayout(c) \in Seq(Nat)
  <2>1. c.type # "none"
    BY DEF IsString
  <2> QED
    BY <2>1, ItemNat
<1>4. st.pos = q[j - 1] /\ NatBlock(st.mem, size) /\ HasBits(st.mem[n + 1], cs, j - 1)
  <2>1. j - 1 < n
    OBVIOUS
  <2> QED
    BY <2>1 DEF Partly
<1>5. n + 1 \in 0..(size - 1) /\ size \in Nat
  BY DEF Tight
<1>6. j - 1 \in 0..7 /\ st.mem[n + 1] \in Byte
  BY <1>4 DEF MaxComponents, HasBits
<1>7. PICK b \in Byte : /\ b = SetBit(st.mem[n + 1], j - 1) /\ Bit(b, j - 1) = 1
                        /\ \A i \in 0..7 : i # j - 1 => Bit(b, i) = Bit(st.mem[n + 1], i)
  BY <1>6, SetBitIs
<1>8. /\ IsBlock(mem, size) /\ mem[n + 1] = b
      /\ \A i \in 0..(size - 1) : i # n + 1 => mem[i] = st.mem[i]
  <2>1. mem = Write(st.mem, n + 1, <<b>>)
    BY <1>7
  <2> HIDE DEF mem
  <2>2. PICK old : old = st.mem /\ IsBlock(old, size)
    BY <1>4 DEF NatBlock
  <2>3. PICK p \in 0..(size - 1) : p = n + 1
    BY <1>5
  <2>4. /\ IsBlock(Write(old, p, <<b>>), size) /\ Write(old, p, <<b>>)[p] = b
        /\ \A i \in 0..(size - 1) : i # p => Write(old, p, <<b>>)[i] = old[i]
    BY <2>2, WriteOneIs
  <2> QED
    BY <2>1, <2>2, <2>3, <2>4
<1>9. next = [mem |-> Write(Write(mem, st.pos, U16(v) \o U16(k) \o c.value \o c.name),
                            j - 1 + 1, <<(v + k) % 256>>),
              pos |-> st.pos + 4 + 2 * v]
  BY <1>1 DEF PutComponent
<1> HIDE DEF mem, next
<1>10. NatBlock(mem, size)
  <2>1. b \in Nat
    BY DEF Byte
  <2>2. ASSUME NEW i \in 0..(size - 1) PROVE mem[i] \in Nat
    BY <1>4, <1>8, <2>1 DEF NatBlock
  <2> QED
    BY <1>8, <2>2 DEF NatBlock
<1>11. HasBits(mem[n + 1], cs, j)
  <2>1. ASSUME NEW i \in 1..n
        PROVE  /\ IsString(cs[i]) /\ i <= j => Bit(b, i - 1) = 1
               /\ ~IsString(cs[i]) => Bit(b, i - 1) # 1
    <3>1. CASE i = j
      BY <1>7, <3>1
    <3>2. CASE i # j
      <4>1. i - 1 \in 0..7 /\ i - 1 # j - 1 /\ (i <= j => i <= j - 1)
        BY <3>2 DEF MaxComponents
      <4>2. Bit(b, i - 1) = Bit(st.mem[n + 1], i - 1)
        BY <1>7, <4>1
      <4> QED
        BY <1>4, <4>1, <4>2 DEF HasBits
    <3> QED
      BY <3>1, <3>2
  <2> QED
    BY <1>8, <2>1 DEF HasBits
<1>12. PICK l \in Nat : l = v + k /\ l = ItemLen(c) - 4 /\ (v + k) % 256 = l
  <2>1. PICK l \in Nat : l = v + k
    OBVIOUS
  <2>2. l % 256 = l
    BY <1>2, <2>1
  <2> QED
    BY <1>2, <2>1, <2>2
<1>13. next.mem = Put(mem, q[j - 1], ItemLayout(cs[j]), j, l)
  <2>1. ItemLayout(c) = U16(v) \o U16(k) \o c.value \o c.name
    BY <1>1, StringItemIs
  <2>2. j - 1 + 1 = j
    OBVIOUS
  <2> QED
    BY <1>4, <1>9, <1>12, <2>1, <2>2 DEF Put
<1>14. j < n => next.pos = q[j]
  <2>1. PICK p \in Nat : p = q[j - 1] /\ q[j] = p + ItemLen(c)
    BY DEF Tight
  <2>2. next.pos = p + 4 + 2 * v
    BY <1>4, <1>9, <2>1
  <2>3. q[j] = p + (v + k + 4)
    BY <1>2, <2>1
  <2>4. j < n => v = k
    BY <1>1
  <2>5. j < n => p + 4 + 2 * v = p + (v + k + 4)
    BY <2>4
  <2> QED
    BY <2>2, <2>3, <2>5
<1>15. Partly(next, cs, q, size, j)
  <2>1. l = ItemLen(cs[j]) - 4 /\ ItemLayout(cs[j]) \in Seq(Nat)
    BY <1>3, <1>12
  <2> QED
    BY <1>8, <1>10, <1>11, <1>13, <1>14, <2>1, PartlyGrows, ZenonT(60)
<1> QED
  BY <1>15 DEF next

(* The same of a value of four bytes.                                      *)
LEMMA NumberIsPut ==
  ASSUME NEW cs, NEW q, NEW size \in Nat, Tight(cs, q, size), NEW n \in Nat, n = Len(cs),
         NEW j \in 1..n, NEW st, Partly(st, cs, q, size, j - 1),
         NEW c, c = cs[j], IsComponent(c), c.type # "none", ~IsString(c),
         ItemLen(c) - 4 <= 255
  PROVE  Partly(PutComponent(st, c, n, j - 1), cs, q, size, j)
<1> DEFINE next == PutComponent(st, c, n, j - 1)
<1>1. PICK k \in Nat : k = Len(c.name) /\ ItemLen(c) = k + 4 /\ k <= 255
  <2>1. PICK k \in Nat : k = Len(c.name)
    BY NumberItemIs
  <2>2. ItemLen(c) = k + 4
    BY <2>1, NumberItemIs DEF NumberItem, HasLen, ItemLen
  <2> QED
    BY <2>1, <2>2
<1>2. ItemLayout(c) \in Seq(Nat) /\ ItemLayout(c) = U32(FourByteValue(c)) \o c.name
  BY ItemNat, NumberItemIs
<1>3. st.pos = q[j - 1] /\ NatBlock(st.mem, size) /\ HasBits(st.mem[n + 1], cs, j - 1)
  <2>1. j - 1 < n
    OBVIOUS
  <2> QED
    BY <2>1 DEF Partly
<1>4. next = [mem |-> Write(Write(st.mem, st.pos, U32(FourByteValue(c)) \o c.name), j - 1 + 1,
                            <<k % 256>>),
              pos |-> st.pos + 4 + k]
  <2>1. c.type \in FourBytes
    BY FourByteValueIs
  <2> QED
    BY <1>1, <2>1 DEF PutComponent, IsString
<1> HIDE DEF next
<1>5. HasBits(st.mem[n + 1], cs, j)
  <2>1. ASSUME NEW i \in 1..n, IsString(cs[i]), i <= j PROVE i <= j - 1
    <3>1. i # j
      BY <2>1
    <3> QED
      BY <2>1, <3>1
  <2> QED
    BY <1>3, <2>1 DEF HasBits
<1>6. k % 256 = k
  <2>1. k \in Nat /\ k <= 255
    BY <1>1
  <2>2. \A m \in Nat : m <= 255 => m % 256 = m
    OBVIOUS
  <2> QED
    BY <2>1, <2>2, Zenon
<1>7. next.mem = Put(st.mem, q[j - 1], ItemLayout(cs[j]), j, k)
  <2>1. j - 1 + 1 = j
    OBVIOUS
  <2> QED
    BY <1>2, <1>3, <1>4, <1>6, <2>1 DEF Put
<1>8. j < n => next.pos = q[j]
  <2>1. PICK p \in Nat : p = q[j - 1] /\ q[j] = p + ItemLen(c)
    BY DEF Tight
  <2>2. next.pos = p + 4 + k
    BY <1>3, <1>4, <2>1
  <2>3. q[j] = p + (k + 4)
    BY <1>1, <2>1, Zenon
  <2>4. p + 4 + k = p + (k + 4)
    OBVIOUS
  <2> QED
    BY <2>2, <2>3, <2>4, Zenon
<1>9. Partly(next, cs, q, size, j)
  <2>1. k = ItemLen(cs[j]) - 4 /\ ItemLayout(cs[j]) \in Seq(Nat)
    BY <1>1, <1>2
  <2>2. \A i \in 0..(size - 1) : i # n + 1 => st.mem[i] = st.mem[i]
    OBVIOUS
  <2> QED
    BY <1>3, <1>5, <1>7, <1>8, <2>1, <2>2, PartlyGrows
<1> QED
  BY <1>9 DEF next

(* Numbers that are added up do not get less.                              *)
LEMMA SumsGrow ==
  ASSUME NEW n \in Nat, NEW a \in [1..n -> Nat], NEW sum, sum[0] = 0,
         \A i \in 1..n : sum[i] = sum[i - 1] + a[i]
  PROVE  \A m \in 0..n : \A i \in 0..m : sum[i] \in Nat /\ sum[m] \in Nat /\ sum[i] <= sum[m]
<1> DEFINE Good(m) == sum[m] \in Nat /\ \A i \in 0..m : sum[i] \in Nat /\ sum[i] <= sum[m]
           P == {m \in Nat : m <= n => Good(m)}
<1>1. Good(0)
  <2>1. \A i \in 0..0 : i = 0
    OBVIOUS
  <2> QED
    BY <2>1
<1>2. ASSUME NEW m \in Nat, m + 1 <= n, Good(m) PROVE Good(m + 1)
  <2>1. m + 1 \in 1..n /\ (m + 1) - 1 = m
    BY <1>2
  <2>2. PICK x \in Nat, y \in Nat : x = sum[m] /\ y = a[m + 1]
    BY <1>2, <2>1
  <2>3. sum[m + 1] = x + y
    BY <2>1, <2>2
  <2>4. ASSUME NEW i \in 0..(m + 1) PROVE sum[i] \in Nat /\ sum[i] <= sum[m + 1]
    <3>1. CASE i = m + 1
      BY <2>2, <2>3, <3>1
    <3>2. CASE i # m + 1
      <4>1. i \in 0..m
        BY <3>2
      <4>2. sum[i] \in Nat /\ sum[i] <= x
        BY <1>2, <2>2, <4>1
      <4> QED
        BY <2>3, <4>2
    <3> QED
      BY <3>1, <3>2
  <2> QED
    BY <2>3, <2>4
<1> HIDE DEF Good
<1>3. ASSUME NEW m \in 0..n PROVE Good(m)
  <2>1. P \in SUBSET Nat /\ 0 \in P
    BY <1>1
  <2>2. ASSUME NEW k \in P PROVE k + 1 \in P
    <3>1. k \in Nat /\ (k <= n => Good(k))
      OBVIOUS
    <3> QED
      BY <1>2, <3>1
  <2> HIDE DEF P
  <2>3. m \in P
    <3>1. m \in Nat
      OBVIOUS
    <3> QED
      BY <2>1, <2>2, <3>1, NaturalInduction
  <2> QED
    BY <2>3 DEF P
<1> QED
  BY <1>3 DEF Good

(* The block that is allocated has exactly the places of the components.   *)
LEMMA PlacesAre ==
  ASSUME NEW cs, AreComponents(cs), NEW n \in Nat, n = Len(cs),
         \A j \in 1..n : cs[j].type # "none"
  PROVE  \E q : Tight(cs, q, AllocatedSize(cs)) /\ q[n] = AllocatedSize(cs)
<1> DEFINE b(c) == Len(c.name) + (IF IsString(c) THEN Len(c.value) ELSE 0) + 4
           a == [i \in 1..n |-> b(cs[i])]
<1>1. AllocatedSize(cs) = 2 + n + Total(a)
  BY DEF AllocatedSize, SumOf
<1>2. ASSUME NEW i \in 1..n PROVE a[i] = ItemLen(cs[i]) /\ ItemLen(cs[i]) \in Nat
  <2>1. PICK c : c = cs[i] /\ IsComponent(c) /\ c.type # "none"
    BY DEF AreComponents
  <2>2. ItemLen(c) \in Nat
    BY <2>1, ItemNat
  <2>3. CASE IsString(c)
    <3>1. PICK x \in Nat, y \in Nat : x = Len(c.value) /\ y = Len(c.name)
      BY <2>1, <2>3, StringItemIs
    <3>2. ItemLen(c) = x + y + 4
      BY <2>1, <2>3, <3>1, StringItemIs DEF StringItem, HasLen, ItemLen
    <3>3. b(c) = y + x + 4
      BY <2>3, <3>1
    <3> HIDE DEF b
    <3>4. a[i] = b(c)
      BY <2>1
    <3> QED
      BY <2>1, <2>2, <3>2, <3>3, <3>4
  <2>4. CASE ~IsString(c)
    <3>1. PICK y \in Nat : y = Len(c.name)
      BY <2>1, <2>4, NumberItemIs
    <3>2. ItemLen(c) = y + 4
      BY <2>1, <2>4, <3>1, NumberItemIs DEF NumberItem, HasLen, ItemLen
    <3>3. b(c) = y + 0 + 4
      BY <2>4, <3>1
    <3> HIDE DEF b
    <3>4. a[i] = b(c)
      BY <2>1
    <3> QED
      BY <2>1, <2>2, <3>2, <3>3, <3>4
  <2> QED
    BY <2>3, <2>4
<1>3. a \in [1..n -> Nat]
  BY <1>2
<1> HIDE DEF a, b
<1>4. PICK sum : /\ sum[0] = 0 /\ \A i \in 1..n : sum[i] = sum[i - 1] + a[i]
                 /\ Total(a) = sum[n]
  BY <1>3, TotalRecursion
<1>5. \A m \in 0..n : \A i \in 0..m : sum[i] \in Nat /\ sum[m] \in Nat /\ sum[i] <= sum[m]
  BY <1>3, <1>4, SumsGrow
<1>6. PICK t \in Nat : t = sum[n]
  BY <1>5
<1>7. PICK size \in Nat : size = AllocatedSize(cs) /\ size = n + 2 + t
  BY <1>1, <1>4, <1>6
<1> DEFINE q == [j \in 0..n |-> n + 2 + sum[j]]
<1>8. q[0] = n + 2 /\ q[n] = size /\ q[0] <= size
  BY <1>4, <1>6, <1>7
<1>9. ASSUME NEW j \in 1..n
      PROVE  /\ q[j - 1] \in Nat /\ ItemLen(cs[j]) \in Nat
             /\ q[j] = q[j - 1] + ItemLen(cs[j]) /\ n + 2 <= q[j - 1] /\ q[j] <= size
  <2>1. j - 1 \in 0..n /\ j \in 0..n /\ n \in 0..n
    OBVIOUS
  <2>2. PICK x \in Nat, l \in Nat : x = sum[j - 1] /\ l = ItemLen(cs[j]) /\ sum[j] = x + l
    BY <1>2, <1>4, <1>5, <2>1
  <2>3. x + l <= t
    BY <1>5, <1>6, <2>1, <2>2
  <2>4. q[j - 1] = n + 2 + x /\ q[j] = n + 2 + (x + l)
    BY <2>1, <2>2
  <2> HIDE DEF q
  <2>5. /\ n + 2 + x \in Nat /\ n + 2 + (x + l) = (n + 2 + x) + l /\ n + 2 <= n + 2 + x
        /\ n + 2 + (x + l) <= size
    BY <1>7, <2>3
  <2> QED
    BY <2>2, <2>4, <2>5
<1> HIDE DEF q
<1>10. Tight(cs, q, size)
  BY <1>8, <1>9 DEF Tight
<1> QED
  BY <1>7, <1>8, <1>10

(* The memory after each round of the loop.                                *)
LEMMA FilledRecursion ==
  ASSUME NEW n \in Nat, NEW start, NEW cs
  PROVE  \E f : /\ f = [j \in 0..n |-> f[j]] /\ f[0] = start
                /\ \A j \in 1..n : f[j] = PutComponent(f[j - 1], cs[j], n, j - 1)
<1> DEFINE Solves(f, m) == f = [j \in 0..m |-> IF j = 0 THEN start
                                               ELSE PutComponent(f[j - 1], cs[j], n, j - 1)]
           P == {m \in Nat : \E f : Solves(f, m)}
<1>1. 0 \in P
  <2> DEFINE f == [j \in 0..0 |-> start]
  <2>1. Solves(f, 0)
    OBVIOUS
  <2> QED
    BY <2>1
<1>2. ASSUME NEW m \in P PROVE m + 1 \in P
  <2>1. PICK f : Solves(f, m)
    BY <1>2
  <2> DEFINE g == [j \in 0..(m + 1) |->
                     IF j = m + 1 THEN PutComponent(f[m], cs[m + 1], n, m) ELSE f[j]]
  <2>2. m \in Nat /\ m + 1 \in Nat
    OBVIOUS
  <2>3. \A j \in 0..m : f[j] = IF j = 0 THEN start ELSE PutComponent(f[j - 1], cs[j], n, j - 1)
    BY <2>1
  <2>4. ASSUME NEW j \in 0..(m + 1)
        PROVE  g[j] = IF j = 0 THEN start ELSE PutComponent(g[j - 1], cs[j], n, j - 1)
    <3>1. CASE j = m + 1
      <4>1. j # 0 /\ j - 1 = m /\ m \in 0..(m + 1) /\ m # m + 1
        BY <2>2, <3>1
      <4>2. g[m] = f[m] /\ g[j] = PutComponent(f[m], cs[m + 1], n, m)
        BY <3>1, <4>1
      <4> QED
        BY <3>1, <4>1, <4>2
    <3>2. CASE j = 0
      <4>1. j \in 0..m /\ j # m + 1
        BY <2>2, <3>2
      <4> QED
        BY <2>3, <3>2, <4>1
    <3>3. CASE j # m + 1 /\ j # 0
      <4>1. j \in 0..m /\ j - 1 \in 0..(m + 1) /\ j - 1 # m + 1
        BY <2>2, <3>3
      <4>2. g[j] = f[j] /\ g[j - 1] = f[j - 1]
        BY <3>3, <4>1
      <4> QED
        BY <2>3, <3>3, <4>1, <4>2
    <3> QED
      BY <3>1, <3>2, <3>3
  <2>5. g = [j \in 0..(m + 1) |-> g[j]]
    OBVIOUS
  <2> HIDE DEF g
  <2>6. Solves(g, m + 1)
    BY <2>4, <2>5, Zenon
  <2> QED
    BY <2>2, <2>6
<1>3. n \in P
  <2>1. P \in SUBSET Nat
    OBVIOUS
  <2> HIDE DEF P
  <2> QED
    BY <1>1, <1>2, <2>1, NaturalInduction
<1>4. PICK f : Solves(f, n)
  BY <1>3
<1>5. f = [j \in 0..n |-> f[j]] /\ f[0] = start
  BY <1>4
<1>6. ASSUME NEW j \in 1..n PROVE f[j] = PutComponent(f[j - 1], cs[j], n, j - 1)
  <2>1. j \in 0..n /\ j # 0
    OBVIOUS
  <2> QED
    BY <1>4, <2>1
<1> HIDE DEF Solves
<1> QED
  BY <1>5, <1>6

(* Components that build_arguments_attribute lays out as the reader        *)
(* expects them.                                                           *)
Regular(cs, g) ==
  /\ AreComponents(cs) /\ Len(cs) <= MaxComponents /\ g \in Byte
  /\ \A j \in 1..Len(cs) : /\ cs[j].type # "none" /\ ItemLen(cs[j]) - 4 <= 255
                           /\ ~IsString(cs[j]) => Bit(g, j - 1) # 1
  /\ \A j \in 1..(Len(cs) - 1) : IsString(cs[j]) => Len(cs[j].value) = Len(cs[j].name)

(* Before the loop,                                                        *)
LEMMA StartIs ==
  ASSUME NEW cs, NEW g, Regular(cs, g), NEW q, NEW size \in Nat, Tight(cs, q, size),
         NEW n \in Nat, n = Len(cs)
  PROVE  Partly([mem |-> Write(Block(size, g), 0, <<n>>), pos |-> 2 + n], cs, q, size, 0)
<1> DEFINE block == Block(size, g)
           mem == Write(block, 0, <<n>>)
           st == [mem |-> mem, pos |-> 2 + n]
<1>1. IsBlock(block, size) /\ \A i \in 0..(size - 1) : block[i] = g
  BY DEF IsBlock, Block
<1> HIDE DEF block
<1>2. n + 2 <= size
  BY DEF Tight
<1>3. 0 \in 0..(size - 1) /\ n + 1 \in 0..(size - 1) /\ n + 1 # 0
  BY <1>2
<1>4. /\ IsBlock(mem, size) /\ mem[0] = n
      /\ \A i \in 0..(size - 1) : i # 0 => mem[i] = block[i]
  <2>1. PICK p \in 0..(size - 1) : p = 0
    BY <1>3
  <2> HIDE DEF mem
  <2>2. /\ IsBlock(Write(block, p, <<n>>), size) /\ Write(block, p, <<n>>)[p] = n
        /\ \A i \in 0..(size - 1) : i # p => Write(block, p, <<n>>)[i] = block[i]
    BY <1>1, WriteOneIs
  <2> QED
    BY <2>1, <2>2 DEF mem
<1> HIDE DEF mem
<1>5. g \in Byte /\ g \in Nat
  BY DEF Regular, Byte
<1>6. NatBlock(mem, size)
  <2>1. ASSUME NEW i \in 0..(size - 1) PROVE mem[i] \in Nat
    BY <1>1, <1>4, <1>5
  <2> QED
    BY <1>4, <2>1 DEF NatBlock
<1>7. HasBits(mem[n + 1], cs, 0)
  <2>1. mem[n + 1] = g
    BY <1>1, <1>3, <1>4
  <2>2. ASSUME NEW i \in 1..Len(cs)
        PROVE  /\ IsString(cs[i]) /\ i <= 0 => Bit(g, i - 1) = 1
               /\ ~IsString(cs[i]) => Bit(g, i - 1) # 1
    BY DEF Regular
  <2> QED
    BY <1>5, <2>1, <2>2 DEF HasBits
<1>8. st.mem = mem /\ st.pos = q[0]
  BY DEF Tight
<1> HIDE DEF st
<1>9. \A i \in 1..0 : FALSE
  OBVIOUS
<1>10. Partly(st, cs, q, size, 0)
  BY <1>4, <1>6, <1>7, <1>8, <1>9 DEF Partly
<1> QED
  BY <1>10 DEF st, mem, block

(* and after it.                                                           *)
LEMMA FilledIs ==
  ASSUME NEW cs, NEW g, Regular(cs, g), NEW q, NEW size \in Nat, Tight(cs, q, size),
         size = AllocatedSize(cs), NEW n \in Nat, n = Len(cs)
  PROVE  \E st : Partly(st, cs, q, size, n) /\ Filled(cs, g) = st.mem
<1> DEFINE start == [mem |-> Write(Block(size, g), 0, <<n>>), pos |-> 2 + n]
           Solves(f) == f = [j \in 0..n |-> IF j = 0 THEN start
                                            ELSE PutComponent(f[j - 1], cs[j], n, j - 1)]
           put == CHOOSE f : Solves(f)
<1>1. Filled(cs, g) = put[n].mem
  BY DEF Filled
<1>2. Partly(start, cs, q, size, 0)
  BY StartIs
<1> HIDE DEF start
<1>3. Solves(put)
  <2> HIDE DEF put, Solves
  <2>1. PICK f : /\ f = [j \in 0..n |-> f[j]] /\ f[0] = start
                 /\ \A j \in 1..n : f[j] = PutComponent(f[j - 1], cs[j], n, j - 1)
    BY FilledRecursion, SMTT(30)
  <2>2. \A j \in 0..n : f[j] = IF j = 0 THEN start
                               ELSE PutComponent(f[j - 1], cs[j], n, j - 1)
    <3>1. \A j \in 0..n : j # 0 => j \in 1..n
      OBVIOUS
    <3> QED
      BY <2>1, <3>1
  <2>3. Solves(f)
    BY <2>1, <2>2, Zenon DEF Solves
  <2> QED
    BY <2>3 DEF put
<1> HIDE DEF put
<1>4. put[0] = start
  BY <1>3
<1>5. ASSUME NEW j \in 1..n PROVE put[j] = PutComponent(put[j - 1], cs[j], n, j - 1)
  <2>1. j \in 0..n /\ j # 0
    OBVIOUS
  <2> QED
    BY <1>3, <2>1
<1> HIDE DEF Solves
<1> DEFINE P == {m \in Nat : m <= n => Partly(put[m], cs, q, size, m)}
<1>6. 0 \in P
  BY <1>2, <1>4
<1>7. ASSUME NEW m \in P PROVE m + 1 \in P
  <2> SUFFICES ASSUME m + 1 <= n PROVE Partly(put[m + 1], cs, q, size, m + 1)
    OBVIOUS
  <2>1. PICK j \in 1..n : j = m + 1 /\ j - 1 = m
    OBVIOUS
  <2>2. PICK st : st = put[m] /\ Partly(st, cs, q, size, j - 1)
    BY <1>7, <2>1
  <2>3. PICK c : c = cs[j]
    OBVIOUS
  <2>4. put[j] = PutComponent(st, c, n, j - 1)
    BY <1>5, <2>1, <2>2, <2>3
  <2>5. /\ IsComponent(c) /\ c.type # "none" /\ ItemLen(c) - 4 <= 255 /\ n <= MaxComponents
        /\ IsString(c) /\ j < n => Len(c.value) = Len(c.name)
    <3>1. IsComponent(c) /\ c.type # "none" /\ ItemLen(c) - 4 <= 255 /\ n <= MaxComponents
      BY <2>3 DEF Regular, AreComponents
    <3>2. ASSUME IsString(c), j < n PROVE Len(c.value) = Len(c.name)
      <4>1. j \in 1..(Len(cs) - 1)
        BY <3>2
      <4> QED
        BY <2>3, <3>2, <4>1 DEF Regular
    <3> QED
      BY <3>1, <3>2
  <2> HIDE DEF P
  <2>6. CASE IsString(c)
    <3>1. j < n => Len(c.value) = Len(c.name)
      BY <2>5, <2>6
    <3>2. Partly(PutComponent(st, c, n, j - 1), cs, q, size, j)
      BY <2>2, <2>3, <2>5, <2>6, <3>1, StringIsPut
    <3> QED
      BY <2>1, <2>4, <3>2
  <2>7. CASE ~IsString(c)
    <3>2. Partly(PutComponent(st, c, n, j - 1), cs, q, size, j)
      BY <2>2, <2>3, <2>5, <2>7, NumberIsPut
    <3> QED
      BY <2>1, <2>4, <3>2
  <2> QED
    BY <2>6, <2>7
<1>8. n \in P
  <2>1. P \in SUBSET Nat
    OBVIOUS
  <2> HIDE DEF P
  <2> QED
    BY <1>6, <1>7, <2>1, NaturalInduction
<1> QED
  BY <1>1, <1>8

(* What build_arguments_attribute builds tells the components.             *)
LEMMA BuildEncodes ==
  ASSUME NEW cs, NEW g, Regular(cs, g)
  PROVE  /\ BuildArguments(cs, g) \in Seq(Nat)
         /\ \E q : Encodes(BuildArguments(cs, g), cs, q)
<1>1. PICK n \in Nat : n = Len(cs) /\ n <= MaxComponents
  BY LenProperties DEF Regular, AreComponents
<1>0. PICK size \in Nat : \E q : Tight(cs, q, size) /\ size = AllocatedSize(cs) /\ q[n] = size
  <2>1. AreComponents(cs) /\ \A j \in 1..n : cs[j].type # "none"
    BY <1>1 DEF Regular
  <2>2. PICK q : Tight(cs, q, AllocatedSize(cs)) /\ q[n] = AllocatedSize(cs)
    BY <1>1, <2>1, PlacesAre
  <2>3. AllocatedSize(cs) \in Nat
    BY <2>2 DEF Tight
  <2> QED
    BY <2>2, <2>3
<1>2. PICK q : Tight(cs, q, size) /\ size = AllocatedSize(cs) /\ q[n] = size
  BY <1>0
<1>3. PICK st : Partly(st, cs, q, size, n) /\ Filled(cs, g) = st.mem
  BY <1>1, <1>2, FilledIs
<1>4. PICK mem : mem = st.mem /\ NatBlock(mem, size)
  BY <1>3 DEF Partly
<1> DEFINE attr == Read(mem, 0, size)
<1>5. BuildArguments(cs, g) = attr
  BY <1>2, <1>3, <1>4 DEF BuildArguments
<1>6. /\ DOMAIN attr = 1..size /\ attr = [i \in 1..size |-> attr[i]]
      /\ \A i \in 1..size : attr[i] = mem[i - 1]
  BY DEF Read
<1> HIDE DEF attr
<1>7. attr \in [1..size -> Nat]
  <2>1. ASSUME NEW i \in 1..size PROVE attr[i] \in Nat
    <3>1. i - 1 \in 0..(size - 1)
      OBVIOUS
    <3> QED
      BY <1>4, <1>6, <3>1 DEF NatBlock
  <2> QED
    BY <1>6, <2>1
<1>8. attr \in Seq(Nat) /\ Len(attr) = size
  BY <1>7, LenIs
<1>9. /\ q[0] = n + 2 /\ n + 2 <= size
      /\ \A j \in 1..n : /\ q[j - 1] \in Nat /\ ItemLen(cs[j]) \in Nat
                         /\ q[j] = q[j - 1] + ItemLen(cs[j]) /\ q[j] <= size
  BY <1>1, <1>2 DEF Tight
<1>10. attr[1] = n
  <2>1. 1 \in 1..size /\ 1 - 1 = 0 /\ mem[0] = n
    BY <1>1, <1>3, <1>4, <1>9 DEF Partly
  <2> QED
    BY <1>6, <2>1
<1>11. ASSUME NEW j \in 1..n PROVE attr[j + 1] = ItemLen(cs[j]) - 4
  <2>1. j + 1 \in 1..size /\ (j + 1) - 1 = j
    BY <1>9
  <2>2. mem[j] = ItemLen(cs[j]) - 4
    BY <1>3, <1>4 DEF Partly
  <2> QED
    BY <1>6, <2>1, <2>2
<1>12. ASSUME NEW j \in 1..n PROVE Bit(attr[n + 2], j - 1) = 1 <=> IsString(cs[j])
  <2>1. n + 2 \in 1..size /\ (n + 2) - 1 = n + 1
    BY <1>9
  <2>2. attr[n + 2] = mem[n + 1] /\ HasBits(mem[n + 1], cs, n)
    BY <1>1, <1>3, <1>4, <1>6, <2>1 DEF Partly
  <2> QED
    BY <1>1, <2>2 DEF HasBits
<1>13. ASSUME NEW j \in 1..n PROVE At(attr, q[j - 1], ItemLayout(cs[j]), ItemLen(cs[j]))
  <2>10. PICK p \in Nat, k \in Nat : p = q[j - 1] /\ k = ItemLen(cs[j])
    BY <1>9
  <2>1. PICK item : p = q[j - 1] /\ k = ItemLen(cs[j]) /\ item = ItemLayout(cs[j])
    BY <2>10
  <2>2. p + k <= size
    BY <1>9, <2>1
  <2>3. At(mem, p - 1, item, k)
    BY <1>1, <1>3, <1>4, <2>1 DEF Partly
  <2>4. ASSUME NEW i \in 1..k PROVE attr[p + i] = item[i]
    <3>1. p + i \in 1..size /\ (p + i) - 1 = (p - 1) + i
      BY <2>2
    <3> QED
      BY <1>6, <2>3, <3>1 DEF At
  <2> QED
    BY <2>1, <2>4 DEF At
<1>14. Encodes(attr, cs, q)
  BY <1>1, <1>8, <1>9, <1>10, <1>11, <1>12, <1>13, Zenon DEF Encodes
<1> QED
  BY <1>5, <1>8, <1>14
=============================================================================
