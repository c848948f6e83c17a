------------------------- MODULE DeviceMessagesProofs -------------------------
(***************************************************************************)
(* What is proved of the messages of a device, for any model, any texts,   *)
(* any bytes left in memory and any messages of the server.  First come *)
(* the functions that write a message into memory, then each of the        *)
(* messages, with the theorems about what is sent; then how an attribute   *)
(* is found in a message, with the theorems about what is read: the status *)
(* that the device tells, and what it learns of a message of the server.   *)
(***************************************************************************)
EXTENDS DeviceMessages, DeviceDataProofs, TLAPS

-----------------------------------------------------------------------------
(* Attributes                                                              *)

(* Padding: of up to three zeros.                                          *)
Zeros(n) == [i \in 1..n |-> 0]

(* How much padding a value of n bytes gets.                               *)
LEMMA PaddingIs ==
  ASSUME NEW n \in Nat
  PROVE  Padding(n) \in 0..3 /\ HasLen(Zeros(n), n)
<1>1. Padding(n) \in 0..3
  BY DEF Padding
<1>2. DOMAIN Zeros(n) = 1..n /\ Zeros(n) = [i \in 1..n |-> Zeros(n)[i]]
  BY DEF Zeros
<1>3. HasLen(Zeros(n), n)
  BY <1>2, HasLenIs
<1> QED
  BY <1>1, <1>3

(* What stun_add_attribute writes is the layout of the attribute.          *)
LEMMA AttrLayoutIs ==
  ASSUME NEW type, NEW value, NEW v \in Nat, HasLen(value, v)
  PROVE  /\ HasLen(AttrLayout(Attr(type, value)), 4 + v + Padding(v))
         /\ Len(value) = v
         /\ AttrLayout(Attr(type, value)) = U16(type) \o U16(v) \o value \o Zeros(Padding(v))
<1> DEFINE x == U16(type)
           y == U16(v)
           z == Zeros(Padding(v))
<1>1. Len(value) = v
  BY DEF HasLen
<1>2. AttrLayout(Attr(type, value)) = x \o y \o value \o z
  BY <1>1 DEF AttrLayout, Attr, Padding, Zeros
<1>3. PICK p \in 0..3 : p = Padding(v)
  BY PaddingIs
<1>4. HasLen(x, 2) /\ HasLen(y, 2) /\ HasLen(z, p)
  BY <1>3, U16Is, PaddingIs
<1> HIDE DEF x, y, z
<1>5. HasLen(x \o y, 4)
  <2>1. HasLen(x \o y, 2 + 2)
    BY <1>4, ConcatIs
  <2> QED
    BY <2>1
<1>6. HasLen(x \o y \o value, 4 + v)
  BY <1>5, ConcatIs
<1>7. HasLen(x \o y \o value \o z, (4 + v) + p)
  BY <1>4, <1>6, ConcatIs
<1> QED
  BY <1>1, <1>2, <1>3, <1>7 DEF x, y, z

(* The attributes are laid out one after another.                          *)
LEMMA AttrsLayoutRecursion ==
  ASSUME NEW attrs, Len(attrs) \in Nat
  PROVE  \E f : /\ f[0] = << >> /\ \A i \in 1..Len(attrs) : f[i] = f[i - 1] \o AttrLayout(attrs[i])
                /\ AttrsLayout(attrs) = f[Len(attrs)]
<1> DEFINE n == Len(attrs)
           Solves(f, m) ==
             f = [i \in 0..m |-> IF i = 0 THEN << >> ELSE f[i - 1] \o AttrLayout(attrs[i])]
           P == {m \in Nat : \E f : Solves(f, m)}
<1>1. 0 \in P
  <2> DEFINE f == [i \in 0..0 |-> << >>]
  <2>1. Solves(f, 0)
    OBVIOUS
  <2> QED
    BY <2>1
<1>2. ASSUME NEW m \in P PROVE m + 1 \in P
  <2>1. PICK f : Solves(f, m)
    BY <1>2
  <2> DEFINE g == [i \in 0..(m + 1) |->
                     IF i = m + 1 THEN f[m] \o AttrLayout(attrs[m + 1]) ELSE f[i]]
  <2>2. m \in Nat /\ m + 1 \in Nat
    OBVIOUS
  <2>3. \A i \in 0..m : f[i] = IF i = 0 THEN << >> ELSE f[i - 1] \o AttrLayout(attrs[i])
    BY <2>1
  <2>4. ASSUME NEW i \in 0..(m + 1)
        PROVE  g[i] = IF i = 0 THEN << >> ELSE g[i - 1] \o AttrLayout(attrs[i])
    <3>1. CASE i = m + 1
      <4>1. i # 0 /\ i - 1 = m /\ m \in 0..(m + 1) /\ m # m + 1
        BY <2>2, <3>1
      <4>2. g[m] = f[m] /\ g[i] = f[m] \o AttrLayout(attrs[i])
        BY <3>1, <4>1
      <4> QED
        BY <4>1, <4>2
    <3>2. CASE i = 0
      <4>1. i \in 0..m /\ i # m + 1
        BY <2>2, <3>2
      <4> QED
        BY <2>3, <3>2, <4>1
    <3>3. CASE i # m + 1 /\ i # 0
      <4>1. i \in 0..m /\ i - 1 \in 0..(m + 1) /\ i - 1 # m + 1
        BY <2>2, <3>3
      <4>2. g[i] = f[i] /\ g[i - 1] = f[i - 1]
        BY <3>3, <4>1
      <4> QED
        BY <2>3, <3>3, <4>1, <4>2
    <3> QED
      BY <3>1, <3>2, <3>3
  <2>5. g = [i \in 0..(m + 1) |-> g[i]]
    OBVIOUS
  <2> HIDE DEF g
  <2>6. Solves(g, m + 1)
    BY <2>4, <2>5, Zenon
  <2> QED
    BY <2>2, <2>6
<1>3. n \in P
  <2>1. P \in SUBSET Nat
    OBVIOUS
  <2> HIDE DEF P
  <2> QED
    BY <1>1, <1>2, <2>1, NaturalInduction
<1>4. \E f : Solves(f, n)
  BY <1>3
<1>5. AttrsLayout(attrs) = (CHOOSE f : Solves(f, n))[n]
  BY DEF AttrsLayout
<1> DEFINE laidOut == CHOOSE f : Solves(f, n)
<1>6. Solves(laidOut, n)
  <2> HIDE DEF Solves
  <2> QED
    BY <1>4
<1> HIDE DEF laidOut
<1>7. laidOut[0] = << >>
  <2>1. 0 \in 0..n
    OBVIOUS
  <2> QED
    BY <1>6, <2>1
<1>8. ASSUME NEW i \in 1..n PROVE laidOut[i] = laidOut[i - 1] \o AttrLayout(attrs[i])
  <2>1. i \in 0..n /\ i # 0
    OBVIOUS
  <2> QED
    BY <1>6, <2>1
<1> QED
  BY <1>5, <1>7, <1>8 DEF laidOut

(* A list of attributes.                                                   *)
AreAttrs(attrs) ==
  IsSeq(attrs) /\ \A i \in 1..Len(attrs) :
    attrs[i] = Attr(attrs[i].type, attrs[i].value) /\ IsSeq(attrs[i].value)

(* No attributes are laid out as nothing, and one more as what was there   *)
(* followed by it.                                                         *)
LEMMA AttrsLayoutIs ==
  ASSUME NEW attrs, AreAttrs(attrs)
  PROVE  /\ IsSeq(AttrsLayout(attrs))
         /\ attrs = << >> => AttrsLayout(attrs) = << >>
         /\ \A type, value : IsSeq(value) =>
              /\ AreAttrs(Append(attrs, Attr(type, value)))
              /\ AttrsLayout(Append(attrs, Attr(type, value)))
                   = AttrsLayout(attrs) \o AttrLayout(Attr(type, value))
<1>0. PICK n \in Nat : n = Len(attrs)
  BY SeqIs DEF AreAttrs, IsSeq
<1>1. IsSeq(AttrsLayout(attrs)) /\ (attrs = << >> => AttrsLayout(attrs) = << >>)
  <2>1. PICK f : /\ f[0] = << >> /\ \A i \in 1..n : f[i] = f[i - 1] \o AttrLayout(attrs[i])
                 /\ AttrsLayout(attrs) = f[n]
    BY <1>0, AttrsLayoutRecursion
  <2> DEFINE P == {m \in Nat : m <= n => IsSeq(f[m])}
  <2>2. IsSeq(<< >>)
    BY DEF IsSeq
  <2>3. 0 \in P
    BY <2>1, <2>2
  <2>4. ASSUME NEW m \in P PROVE m + 1 \in P
    <3> SUFFICES ASSUME m + 1 <= n PROVE IsSeq(f[m + 1])
      OBVIOUS
    <3>1. m + 1 \in 1..n /\ (m + 1) - 1 = m /\ IsSeq(f[m])
      BY <2>4
    <3>2. PICK a : a = attrs[m + 1]
      OBVIOUS
    <3>3. a = Attr(a.type, a.value) /\ IsSeq(a.value)
      BY <1>0, <3>1, <3>2 DEF AreAttrs
    <3>4. PICK v \in Nat : HasLen(a.value, v)
      BY <3>3, HasLenIs
    <3>5. PICK k \in Nat : k = 4 + v + Padding(v)
      BY PaddingIs
    <3>6. HasLen(AttrLayout(a), k)
      BY <3>3, <3>4, <3>5, AttrLayoutIs
    <3>7. PICK l \in Nat : HasLen(f[m], l)
      BY <3>1, HasLenIs
    <3>8. HasLen(f[m] \o AttrLayout(a), l + k)
      BY <3>6, <3>7, ConcatIs
    <3>9. f[m + 1] = f[m] \o AttrLayout(a)
      BY <2>1, <3>1, <3>2
    <3> QED
      BY <3>8, <3>9, HasLenIs
  <2>5. n \in P
    <3>1. P \in SUBSET Nat
      OBVIOUS
    <3> HIDE DEF P
    <3> QED
      BY <2>3, <2>4, <3>1, NaturalInduction
  <2>6. IsSeq(f[n])
    BY <2>5
  <2>7. attrs = << >> => n = 0
    BY <1>0
  <2> QED
    BY <2>1, <2>6, <2>7
<1>2. ASSUME NEW type, NEW value, IsSeq(value)
      PROVE  /\ AreAttrs(Append(attrs, Attr(type, value)))
             /\ AttrsLayout(Append(attrs, Attr(type, value)))
                  = AttrsLayout(attrs) \o AttrLayout(Attr(type, value))
  <2> DEFINE a == Attr(type, value)
             S == {attrs[i] : i \in DOMAIN attrs} \cup {a}
             more == Append(attrs, a)
  <2>1. attrs \in Seq(S) /\ a \in S
    <3>1. attrs \in [1..n -> S]
      BY <1>0, LenProperties DEF AreAttrs, IsSeq
    <3> QED
      BY <3>1, LenIs
  <2> HIDE DEF S
  <2>2. /\ more \in Seq(S) /\ Len(more) = n + 1
        /\ \A i \in 1..n : more[i] = attrs[i]
        /\ more[n + 1] = a
    BY <1>0, <2>1, AppendProperties
  <2> HIDE DEF more
  <2>3. AreAttrs(more)
    <3>1. IsSeq(more)
      BY <2>2, SeqIs
    <3>2. a = Attr(a.type, a.value) /\ IsSeq(a.value)
      BY <1>2 DEF Attr
    <3>3. ASSUME NEW i \in 1..(n + 1)
          PROVE  more[i] = Attr(more[i].type, more[i].value) /\ IsSeq(more[i].value)
      <4>1. i \in 1..n \/ i = n + 1
        OBVIOUS
      <4>2. CASE i \in 1..n
        BY <1>0, <2>2, <4>2 DEF AreAttrs
      <4>3. CASE i = n + 1
        BY <2>2, <3>2, <4>3
      <4> QED
        BY <4>1, <4>2, <4>3
    <3> QED
      BY <2>2, <3>1, <3>3 DEF AreAttrs
  <2>4. PICK f : /\ f[0] = << >> /\ \A i \in 1..(n + 1) : f[i] = f[i - 1] \o AttrLayout(more[i])
                 /\ AttrsLayout(more) = f[n + 1]
    <3>1. Len(more) \in Nat
      BY <2>2
    <3> QED
      BY <2>2, <3>1, AttrsLayoutRecursion
  <2>5. PICK g : /\ g[0] = << >> /\ \A i \in 1..n : g[i] = g[i - 1] \o AttrLayout(attrs[i])
                 /\ AttrsLayout(attrs) = g[n]
    BY <1>0, AttrsLayoutRecursion
  <2> DEFINE P == {m \in Nat : m <= n => f[m] = g[m]}
  <2>6. 0 \in P
    BY <2>4, <2>5
  <2>7. ASSUME NEW m \in P PROVE m + 1 \in P
    <3> SUFFICES ASSUME m + 1 <= n PROVE f[m + 1] = g[m + 1]
      OBVIOUS
    <3>1. m + 1 \in 1..n /\ m + 1 \in 1..(n + 1) /\ (m + 1) - 1 = m /\ f[m] = g[m]
      BY <2>7
    <3>2. f[m + 1] = f[m] \o AttrLayout(more[m + 1])
      BY <2>4, <3>1
    <3>3. g[m + 1] = g[m] \o AttrLayout(attrs[m + 1])
      BY <2>5, <3>1
    <3> QED
      BY <2>2, <3>1, <3>2, <3>3
  <2>8. n \in P
    <3>1. P \in SUBSET Nat
      OBVIOUS
    <3> HIDE DEF P
    <3> QED
      BY <2>6, <2>7, <3>1, NaturalInduction
  <2>9. f[n] = AttrsLayout(attrs)
    BY <2>5, <2>8
  <2>10. f[n + 1] = f[n] \o AttrLayout(a)
    <3>1. n + 1 \in 1..(n + 1) /\ (n + 1) - 1 = n
      OBVIOUS
    <3> QED
      BY <2>2, <2>4, <3>1
  <2> QED
    BY <2>3, <2>4, <2>9, <2>10 DEF more
<1> QED
  BY <1>1, <1>2

-----------------------------------------------------------------------------
(* Messages in memory                                                      *)

(* A message that has the bytes t as its type, an id, and attributes laid  *)
(* out one after another, whose length n is in its header.                 *)
Holds(bytes, t, id, body, n) ==
  /\ IsBlock(bytes, n + 20)
  /\ At(bytes, -1, t, 2) /\ At(bytes, 1, U16(n), 2)
  /\ At(bytes, 3, MagicCookie, 4) /\ At(bytes, 7, id, 12)
  /\ At(bytes, 19, body, n)

IsMessage(m) == m = [bytes |-> m.bytes, length |-> m.length, signed |-> m.signed]

Carries(m, t, id, attrs, n) ==
  /\ n \in Nat
  /\ IsMessage(m)
  /\ AreAttrs(attrs) /\ HasLen(AttrsLayout(attrs), n)
  /\ m.length = n + 20
  /\ Holds(m.bytes, t, id, AttrsLayout(attrs), n)

(* The length in the header, as it is read back.                           *)
LEMMA DeclaredIs ==
  ASSUME NEW n \in 0..511, NEW bytes, At(bytes, 1, U16(n), 2)
  PROVE  ReadU16(bytes, 2) = n
<1>1. PICK a \in Nat, b \in Nat : a = (n \div 256) % 256 /\ b = n % 256
  OBVIOUS
<1>2. 256 * a + b = n
  BY <1>1
<1>3. bytes[2] = a /\ bytes[2 + 1] = b
  <2>1. bytes[1 + 1] = U16(n)[1] /\ bytes[1 + 2] = U16(n)[2]
    BY DEF At
  <2>2. U16(n)[1] = a /\ U16(n)[2] = b
    BY <1>1, U16Is
  <2> QED
    BY <2>1, <2>2
<1> QED
  BY <1>2, <1>3 DEF ReadU16

-----------------------------------------------------------------------------
(* Adding an attribute                                                     *)

(* The length that stun_add_attribute computes, that of the block after    *)
(* it, and what it writes.                                                 *)
Needed(m, value) ==
  Uint16(ReadU16(m.bytes, 2) + HeaderLen + Len(value) + Len(Zeros(Padding(Len(value)))) + 4)
LengthFor(m, needed) == IF needed > m.length THEN needed ELSE m.length
Item(type, value) == U16(type) \o U16(Len(value)) \o value \o Zeros(Padding(Len(value)))
BytesAdded(m, value, g, start, item) ==
  Write(Write(Realloc(m, LengthFor(m, Needed(m, value)), g), start, item), 2,
        U16(Needed(m, value) - HeaderLen))

(* stun_add_attribute, by its parts.                                       *)
LEMMA AddAttributeUnfolds ==
  ASSUME NEW m, NEW type, NEW value, NEW g
  PROVE  /\ AddAttribute(m, type, value, g).bytes =
              BytesAdded(m, value, g, AttributeStart(ReadU16(m.bytes, 2)), Item(type, value))
         /\ AddAttribute(m, type, value, g).length = LengthFor(m, Needed(m, value))
         /\ AddAttribute(m, type, value, g).signed = m.signed
         /\ IsMessage(AddAttribute(m, type, value, g))
<1>1. AddAttribute(m, type, value, g) =
        [bytes |-> BytesAdded(m, value, g, AttributeStart(ReadU16(m.bytes, 2)),
                              Item(type, value)),
         length |-> LengthFor(m, Needed(m, value)), signed |-> m.signed]
  BY SMT DEF AddAttribute, Zeros, Needed, LengthFor, Item, BytesAdded
<1> QED
  BY <1>1, SMT DEF IsMessage

(* A length below 1024 is not cut by a counter of 16 bits.                 *)
LEMMA Uint16Is == \A n \in 0..1023 : Uint16(n) = n
BY SMT DEF Uint16, WordSize

(* An attribute of v bytes, after which the message is N bytes long, goes  *)
(* into a message that carries n bytes of attributes.                      *)
HasRoom(m, n, v, p, N) ==
  /\ n \in 0..235 /\ v \in 0..255 /\ p \in 0..3 /\ N \in 24..517
  /\ m.length = n + 20 /\ ReadU16(m.bytes, 2) = n
  /\ p = Padding(v) /\ N = n + (4 + v + p) + 20

(* stun_add_attribute then writes the layout of the attribute after those  *)
(* that are there, and the new length.                                     *)
LEMMA AddAttributeWrites ==
  ASSUME NEW m, NEW n, NEW v, NEW p, NEW N, HasRoom(m, n, v, p, N),
         NEW type, NEW value, HasLen(value, v), NEW g
  PROVE  /\ AddAttribute(m, type, value, g).bytes =
              Write(Write(Realloc(m, N, g), 19 + n + 1, AttrLayout(Attr(type, value))),
                    1 + 1, U16(N - 20))
         /\ AddAttribute(m, type, value, g).length = N
         /\ AddAttribute(m, type, value, g).signed = m.signed
<1>1. /\ n \in 0..235 /\ v \in 0..255 /\ p \in 0..3 /\ N \in 24..517
      /\ m.length = n + 20 /\ ReadU16(m.bytes, 2) = n
      /\ p = Padding(v) /\ N = n + (4 + v + p) + 20
  BY DEF HasRoom
<1>2. Len(value) = v /\ Len(Zeros(p)) = p
  BY <1>1, PaddingIs DEF HasLen
<1>3. Item(type, value) = AttrLayout(Attr(type, value))
  <2>1. v \in Nat
    BY <1>1
  <2> QED
    BY <1>1, <1>2, <2>1, AttrLayoutIs, Zenon DEF Item
<1>4. Needed(m, value) = N
  <2>1. n + HeaderLen + v + p + 4 = N
    BY <1>1, SMT DEF HeaderLen
  <2>2. Uint16(N) = N
    BY <1>1, Uint16Is, SMT
  <2>3. Needed(m, value) = Uint16(n + HeaderLen + v + p + 4)
    BY <1>1, <1>2, Zenon DEF Needed
  <2> QED
    BY <2>1, <2>2, <2>3, Zenon
<1>5. LengthFor(m, N) = N
  <2>1. N > m.length
    BY <1>1, SMT
  <2> QED
    BY <2>1, Zenon DEF LengthFor
<1>6. AttributeStart(n) = 19 + n + 1 /\ 2 = 1 + 1 /\ HeaderLen = 20
  BY <1>1, SMT DEF AttributeStart, HeaderLen
<1>7. BytesAdded(m, value, g, 19 + n + 1, AttrLayout(Attr(type, value))) =
        Write(Write(Realloc(m, N, g), 19 + n + 1, AttrLayout(Attr(type, value))),
              1 + 1, U16(N - 20))
  BY <1>4, <1>5, <1>6, Zenon DEF BytesAdded
<1>8. /\ AddAttribute(m, type, value, g).bytes =
           BytesAdded(m, value, g, AttributeStart(ReadU16(m.bytes, 2)), Item(type, value))
      /\ AddAttribute(m, type, value, g).length = LengthFor(m, Needed(m, value))
      /\ AddAttribute(m, type, value, g).signed = m.signed
  BY AddAttributeUnfolds
<1>9. AddAttribute(m, type, value, g).length = N
  BY <1>4, <1>5, <1>8, Zenon
<1>10. AddAttribute(m, type, value, g).bytes =
         BytesAdded(m, value, g, 19 + n + 1, AttrLayout(Attr(type, value)))
  BY <1>1, <1>3, <1>6, <1>8, Zenon
<1> QED
  BY <1>7, <1>8, <1>9, <1>10, Zenon

(* A message r is m with the bytes of its attributes, now k of them, added *)
(* to; what was there stays.                                               *)
Added(r, m, t, id, attrs, n, k) ==
  Carries(r, t, id, attrs, k) /\ Agree(r.bytes, m.bytes, 0, 1) /\ Agree(r.bytes, m.bytes, 4, n + 19)

(* stun_add_attribute adds an attribute to a message that has room for it. *)
LEMMA AddAttributeIs ==
  ASSUME NEW n \in 0..235, NEW m, NEW t, NEW id, NEW attrs, Carries(m, t, id, attrs, n),
         NEW type, NEW value, NEW v \in 0..255, HasLen(value, v), NEW g
  PROVE  Added(AddAttribute(m, type, value, g), m, t, id, Append(attrs, Attr(type, value)),
               n, n + (4 + v + Padding(v)))
<1>1. PICK p \in 0..3 : p = Padding(v)
  BY PaddingIs
<1>2. PICK k \in 4..262 : k = 4 + v + p
  OBVIOUS
<1>3. PICK N \in 24..517 : N = n + (4 + v + p) + 20 /\ N = n + k + 20 /\ N - 20 = n + k
  BY <1>2
<1>4. m.length = n + 20 /\ ReadU16(m.bytes, 2) = n
  <2>1. n \in 0..511
    OBVIOUS
  <2> QED
    BY <2>1, DeclaredIs DEF Carries, Holds
<1>5. /\ AddAttribute(m, type, value, g).bytes =
             Write(Write(Realloc(m, N, g), 19 + n + 1, AttrLayout(Attr(type, value))),
                   1 + 1, U16(N - 20))
       /\ AddAttribute(m, type, value, g).length = N
       /\ AddAttribute(m, type, value, g).signed = m.signed
  <2>1. HasRoom(m, n, v, p, N)
    BY <1>1, <1>3, <1>4 DEF HasRoom
  <2> QED
    BY <2>1, AddAttributeWrites
<1> DEFINE item == AttrLayout(Attr(type, value))
           body == AttrsLayout(attrs)
           more == Append(attrs, Attr(type, value))
           grown == Realloc(m, N, g)
           w == Write(grown, 19 + n + 1, item)
           u == Write(w, 1 + 1, U16(N - 20))
           r == AddAttribute(m, type, value, g)
<1>6. n \in Nat /\ k \in Nat /\ N \in Nat /\ v \in Nat
  OBVIOUS
<1>7. HasLen(item, 4 + v + Padding(v))
  BY <1>6, AttrLayoutIs
<1>8. HasLen(item, k)
  BY <1>1, <1>2, <1>7, Zenon
<1>9. r.bytes = u /\ r.length = N /\ r.signed = m.signed
  BY <1>5
<1> HIDE DEF item
<1>10. IsBlock(grown, N) /\ Agree(grown, m.bytes, 0, n + 19)
  <2>1. grown = [i \in 0..(N - 1) |-> IF i < m.length THEN m.bytes[i] ELSE g]
    BY DEF Realloc
  <2> HIDE DEF grown
  <2>2. IsBlock(grown, N)
    BY <1>6, <2>1 DEF IsBlock
  <2>3. ASSUME NEW i \in 0..(n + 19) PROVE grown[i] = m.bytes[i]
    <3>1. i \in 0..(N - 1) /\ i < m.length
      BY <1>2, <1>3, <1>4
    <3> QED
      BY <2>1, <3>1
  <2> QED
    BY <2>2, <2>3, Zenon DEF Agree
<1> HIDE DEF grown
<1>11. IsBlock(w, N) /\ Agree(w, grown, 0, 19 + n) /\ At(w, 19 + n, item, k)
  <2>1. 19 + n + k < N /\ -1 <= 19 + n /\ 19 + n \in Int
    BY <1>3
  <2> QED
    BY <1>6, <1>8, <1>10, <2>1, WriteIs, Zenon
<1> HIDE DEF w
<1>12. IsBlock(u, N) /\ Agree(u, w, 0, 1) /\ Agree(u, w, 4, N - 1) /\ At(u, 1, U16(n + k), 2)
  <2>1. 1 + 2 < N /\ -1 <= 1 /\ 1 \in Int /\ 2 \in Nat /\ 1 + 2 + 1 = 4
    OBVIOUS
  <2>2. HasLen(U16(N - 20), 2)
    BY U16Is
  <2>3. IsBlock(u, N) /\ Agree(u, w, 0, 1) /\ Agree(u, w, 1 + 2 + 1, N - 1)
        /\ At(u, 1, U16(N - 20), 2)
    BY <1>6, <1>11, <2>1, <2>2, WriteIs, Zenon
  <2> QED
    BY <1>3, <2>1, <2>3, Zenon
<1> HIDE DEF u, r
<1>13. Agree(u, m.bytes, 0, 1) /\ Agree(u, m.bytes, 4, n + 19)
  BY <1>3, <1>10, <1>11, <1>12 DEF Agree
<1>14. At(u, -1, t, 2) /\ At(u, 3, MagicCookie, 4) /\ At(u, 7, id, 12) /\ At(u, 19, body, n)
  <2>1. /\ At(m.bytes, -1, t, 2) /\ At(m.bytes, 3, MagicCookie, 4) /\ At(m.bytes, 7, id, 12)
        /\ At(m.bytes, 19, body, n)
    BY DEF Carries, Holds
  <2> HIDE DEF body
  <2>2. At(u, -1, t, 2)
    <3>1. -1 \in Int /\ 2 \in Nat /\ 0 \in Int /\ 1 \in Int /\ 0 <= -1 + 1 /\ -1 + 2 <= 1
      OBVIOUS
    <3> QED
      BY <1>13, <2>1, <3>1, AtAgrees, Zenon
  <2>3. At(u, 3, MagicCookie, 4)
    <3>1. 3 \in Int /\ 4 \in Nat /\ 4 \in Int /\ n + 19 \in Int /\ 4 <= 3 + 1 /\ 3 + 4 <= n + 19
      OBVIOUS
    <3> QED
      BY <1>13, <2>1, <3>1, AtAgrees, Zenon
  <2>4. At(u, 7, id, 12)
    <3>1. 7 \in Int /\ 12 \in Nat /\ 4 \in Int /\ n + 19 \in Int /\ 4 <= 7 + 1 /\ 7 + 12 <= n + 19
      OBVIOUS
    <3> QED
      BY <1>13, <2>1, <3>1, AtAgrees, Zenon
  <2>5. At(u, 19, body, n)
    <3>1. 19 \in Int /\ n \in Nat /\ 4 \in Int /\ n + 19 \in Int /\ 4 <= 19 + 1 /\ 19 + n <= n + 19
      OBVIOUS
    <3> QED
      BY <1>13, <2>1, <3>1, AtAgrees, Zenon
  <2> QED
    BY <2>2, <2>3, <2>4, <2>5
<1>15. At(u, 19 + n, item, k)
  <2>1. /\ 4 <= 19 + n + 1 /\ 19 + n + k <= N - 1
        /\ 4 \in Int /\ N - 1 \in Int /\ 19 + n \in Int
    BY <1>3
  <2> QED
    BY <1>6, <1>11, <1>12, <2>1, AtAgrees, Zenon
<1>16. AreAttrs(more) /\ AttrsLayout(more) = body \o item
  <2>1. AreAttrs(attrs) /\ IsSeq(value)
    BY DEF Carries, HasLen
  <2> QED
    BY <2>1, AttrsLayoutIs, Zenon DEF item
<1>17. HasLen(body \o item, n + k) /\ At(body \o item, 0, body, n) /\ At(body \o item, n, item, k)
  <2>1. HasLen(body, n)
    BY DEF Carries
  <2> QED
    BY <1>6, <1>8, <2>1, ConcatIs, Zenon
<1> HIDE DEF body, more
<1>18. At(u, 19, body \o item, n + k)
  <2> SUFFICES ASSUME NEW i \in 1..(n + k) PROVE u[19 + i] = (body \o item)[i]
    BY DEF At
  <2>1. CASE i \in 1..n
    <3>1. 0 + i = i
      OBVIOUS
    <3> QED
      BY <1>14, <1>17, <2>1, <3>1 DEF At
  <2>2. CASE ~(i \in 1..n)
    <3>1. PICK j \in 1..k : i = n + j /\ 19 + i = 19 + n + j
      <4>1. i - n \in 1..k /\ i = n + (i - n) /\ 19 + i = 19 + n + (i - n)
        BY <1>2, <2>2
      <4> QED
        BY <4>1
    <3> QED
      BY <1>15, <1>17, <3>1 DEF At
  <2> QED
    BY <2>1, <2>2
<1>19. n + k \in Nat /\ N = (n + k) + 20
  BY <1>2, <1>3
<1>20. Holds(u, t, id, body \o item, n + k)
  BY <1>12, <1>14, <1>18, <1>19, Zenon DEF Holds
<1>21. Carries(r, t, id, more, n + k)
  <2>1. IsMessage(r)
    BY AddAttributeUnfolds, Zenon DEF r
  <2> QED
    BY <1>9, <1>16, <1>17, <1>19, <1>20, <2>1, Zenon DEF Carries
<1>22. n + k = n + (4 + v + Padding(v))
  BY <1>1, <1>2
<1>23. Carries(r, t, id, more, n + (4 + v + Padding(v)))
  BY <1>21, <1>22, Zenon
<1> QED
  BY <1>9, <1>13, <1>23, Zenon DEF r, more, Added

-----------------------------------------------------------------------------
(* The other parts of a message                                            *)

(* A message of which only the bytes s, k of them after the place p, were  *)
(* written.                                                                *)
Rewritten(r, m, p, s) == r = [m EXCEPT !.bytes = Write(@, p + 1, s)]
Keeps(r, m, n, p, k) ==
  \A q \in Int, j \in Nat : \A b :
    At(m.bytes, q, b, j) /\ q >= -1 /\ q + j <= n + 19 /\ (q + j <= p \/ p + k <= q) =>
      At(r.bytes, q, b, j)

(* A part of a message that was written over is what was written.          *)
LEMMA WriteKeeps ==
  ASSUME NEW m, NEW t, NEW id, NEW attrs, NEW n, Carries(m, t, id, attrs, n),
         NEW s, NEW k \in Nat, HasLen(s, k), NEW p \in Int, -1 <= p, p + k < 20,
         NEW r, Rewritten(r, m, p, s)
  PROVE  /\ IsMessage(r) /\ r.length = n + 20 /\ r.signed = m.signed
         /\ IsBlock(r.bytes, n + 20) /\ At(r.bytes, p, s, k)
         /\ Keeps(r, m, n, p, k)
<1> DEFINE w == Write(m.bytes, p + 1, s)
<1>1. n \in Nat /\ m = [bytes |-> m.bytes, length |-> m.length, signed |-> m.signed]
      /\ m.length = n + 20 /\ IsBlock(m.bytes, n + 20)
  BY DEF Carries, Holds, IsMessage
<1>2. r = [bytes |-> w, length |-> n + 20, signed |-> m.signed]
  <2> HIDE DEF w
  <2>1. r = [m EXCEPT !.bytes = w]
    BY DEF w, Rewritten
  <2> QED
    BY <1>1, <2>1
<1> HIDE DEF w
<1>3. IsBlock(w, n + 20) /\ Agree(w, m.bytes, 0, p) /\ Agree(w, m.bytes, p + k + 1, (n + 20) - 1)
      /\ At(w, p, s, k)
  <2>1. PICK N \in Nat : N = n + 20 /\ p + k < N
    BY <1>1
  <2>2. IsBlock(m.bytes, N)
    BY <1>1, <2>1
  <2>3. w = Write(m.bytes, p + 1, s)
    BY DEF w
  <2>4. /\ IsBlock(w, N) /\ Agree(w, m.bytes, 0, p) /\ Agree(w, m.bytes, p + k + 1, N - 1)
        /\ At(w, p, s, k)
    BY <2>1, <2>2, <2>3, WriteIs
  <2> QED
    BY <2>1, <2>4
<1>4. ASSUME NEW q \in Int, NEW b, NEW j \in Nat, At(m.bytes, q, b, j),
             q >= -1, q + j <= n + 19, q + j <= p \/ p + k <= q
      PROVE  At(w, q, b, j)
  <2>1. CASE q + j <= p
    <3>1. 0 \in Int /\ 0 <= q + 1
      BY <1>4
    <3> QED
      BY <1>3, <1>4, <2>1, <3>1, AtAgrees, Zenon
  <2>2. CASE p + k <= q
    <3>1. p + k + 1 \in Int /\ (n + 20) - 1 \in Int /\ p + k + 1 <= q + 1 /\ q + j <= (n + 20) - 1
      BY <1>1, <1>4, <2>2
    <3> QED
      BY <1>3, <1>4, <3>1, AtAgrees, Zenon
  <2> QED
    BY <1>4, <2>1, <2>2
<1>5. IsMessage(r) /\ r.length = n + 20 /\ r.signed = m.signed /\ r.bytes = w
  BY <1>2 DEF IsMessage
<1>6. IsBlock(r.bytes, n + 20) /\ At(r.bytes, p, s, k)
  BY <1>3, <1>5, Zenon
<1>7. Keeps(r, m, n, p, k)
  BY <1>4, <1>5, Zenon DEF Keeps
<1> QED
  BY <1>5, <1>6, <1>7

(* The type and the id may be written over those that were there.          *)
LEMMA TypeBytesIs ==
  ASSUME NEW method, NEW class
  PROVE  HasLen(TypeBytes(method, class), 2)
<1>1. PICK a, b : TypeBytes(method, class) = <<a, b>>
  BY DEF TypeBytes
<1>2. <<a, b>> \in Seq({a, b}) /\ Len(<<a, b>>) = 2
  OBVIOUS
<1> QED
  BY <1>1, <1>2, SeqIs DEF HasLen

(* stun_set_method_and_class, whenever it is called, changes only the type.*)
LEMMA SetTypeIs ==
  ASSUME NEW m, NEW t, NEW id, NEW attrs, NEW n, Carries(m, t, id, attrs, n),
         NEW method, NEW class
  PROVE  /\ Carries(SetMethodAndClass(m, method, class), TypeBytes(method, class), id, attrs, n)
         /\ SetMethodAndClass(m, method, class).signed = m.signed
<1> DEFINE s == TypeBytes(method, class)
           r == SetMethodAndClass(m, method, class)
           body == AttrsLayout(attrs)
<1>1. HasLen(s, 2)
  BY TypeBytesIs
<1>2. Rewritten(r, m, -1, s)
  <2>1. -1 + 1 = 0
    OBVIOUS
  <2> QED
    BY <2>1, Zenon DEF SetMethodAndClass, Rewritten
<1> HIDE DEF s, r
<1>3. /\ IsMessage(r) /\ r.length = n + 20 /\ r.signed = m.signed
      /\ IsBlock(r.bytes, n + 20) /\ At(r.bytes, -1, s, 2)
      /\ Keeps(r, m, n, -1, 2)
  <2>1. -1 \in Int /\ 2 \in Nat /\ -1 <= -1 /\ -1 + 2 < 20
    OBVIOUS
  <2> QED
    BY <1>1, <1>2, <2>1, WriteKeeps, Zenon
<1>4. /\ n \in Nat /\ AreAttrs(attrs) /\ HasLen(body, n)
      /\ At(m.bytes, 1, U16(n), 2) /\ At(m.bytes, 3, MagicCookie, 4)
      /\ At(m.bytes, 7, id, 12) /\ At(m.bytes, 19, body, n)
  BY DEF Carries, Holds
<1> HIDE DEF body
<1>5. /\ At(r.bytes, 1, U16(n), 2) /\ At(r.bytes, 3, MagicCookie, 4)
      /\ At(r.bytes, 7, id, 12) /\ At(r.bytes, 19, body, n)
  BY <1>3, <1>4 DEF Keeps
<1>7. Holds(r.bytes, s, id, body, n)
  BY <1>3, <1>5, Zenon DEF Holds
<1>8. Carries(r, s, id, attrs, n)
  BY <1>3, <1>4, <1>7, Zenon DEF Carries, body
<1> QED
  BY <1>3, <1>8, Zenon DEF r, s

(* The id of a request, copied into a response.                            *)
LEMMA SetIdIs ==
  ASSUME NEW m, NEW t, NEW id, NEW attrs, NEW n, Carries(m, t, id, attrs, n),
         NEW s, HasLen(s, 12)
  PROVE  /\ Carries([m EXCEPT !.bytes = Write(@, 8, s)], t, s, attrs, n)
         /\ [m EXCEPT !.bytes = Write(@, 8, s)].signed = m.signed
<1> DEFINE r == [m EXCEPT !.bytes = Write(@, 8, s)]
           body == AttrsLayout(attrs)
<1>2. Rewritten(r, m, 7, s)
  <2>1. 7 + 1 = 8
    OBVIOUS
  <2> QED
    BY <2>1, Zenon DEF Rewritten
<1> HIDE DEF r
<1>3. /\ IsMessage(r) /\ r.length = n + 20 /\ r.signed = m.signed
      /\ IsBlock(r.bytes, n + 20) /\ At(r.bytes, 7, s, 12)
      /\ Keeps(r, m, n, 7, 12)
  <2>1. 7 \in Int /\ 12 \in Nat /\ -1 <= 7 /\ 7 + 12 < 20
    OBVIOUS
  <2> QED
    BY <1>2, <2>1, WriteKeeps, Zenon
<1>4. /\ n \in Nat /\ AreAttrs(attrs) /\ HasLen(body, n) /\ At(m.bytes, -1, t, 2)
      /\ At(m.bytes, 1, U16(n), 2) /\ At(m.bytes, 3, MagicCookie, 4)
      /\ At(m.bytes, 19, body, n)
  BY DEF Carries, Holds
<1> HIDE DEF body
<1>5. /\ At(r.bytes, -1, t, 2) /\ At(r.bytes, 1, U16(n), 2)
      /\ At(r.bytes, 3, MagicCookie, 4) /\ At(r.bytes, 19, body, n)
  BY <1>3, <1>4 DEF Keeps
<1>7. Holds(r.bytes, t, s, body, n)
  BY <1>3, <1>5, Zenon DEF Holds
<1>8. Carries(r, t, s, attrs, n)
  BY <1>3, <1>4, <1>7, Zenon DEF Carries, body
<1> QED
  BY <1>3, <1>8, Zenon DEF r

(* A new message has what was left in memory as its type, and no           *)
(* attributes.                                                             *)
LEMMA NewMessageIs ==
  ASSUME NEW id, HasLen(id, 12), NEW g
  PROVE  /\ Carries(NewMessage(id, g), <<g, g>>, id, << >>, 0)
         /\ NewMessage(id, g).signed = Unsigned
<1> DEFINE b == Block(20, g)
           x == Write(b, 1 + 1, U16(0))
           y == Write(x, 3 + 1, MagicCookie)
           z == Write(y, 7 + 1, id)
           m == NewMessage(id, g)
<1>1. m = [bytes |-> z, length |-> 20, signed |-> Unsigned]
  <2>1. 1 + 1 = 2 /\ 3 + 1 = 4 /\ 7 + 1 = 8
    OBVIOUS
  <2> QED
    BY <2>1, Zenon DEF NewMessage, HeaderLen
<1>2. IsBlock(b, 20) /\ At(b, -1, <<g, g>>, 2)
  BY DEF Block, IsBlock, At
<1>3. HasLen(U16(0), 2) /\ HasLen(MagicCookie, 4)
  <2>1. MagicCookie \in Seq(Nat) /\ Len(MagicCookie) = 4
    BY DEF MagicCookie
  <2> QED
    BY <2>1, SeqIs, U16Is DEF HasLen
<1> HIDE DEF b, m
<1>4. IsBlock(x, 20) /\ Agree(x, b, 0, 1) /\ At(x, 1, U16(0), 2)
  BY <1>2, <1>3, WriteIs
<1> HIDE DEF x
<1>5. IsBlock(y, 20) /\ Agree(y, x, 0, 3) /\ At(y, 3, MagicCookie, 4)
  BY <1>3, <1>4, WriteIs
<1> HIDE DEF y
<1>6. IsBlock(z, 20) /\ Agree(z, y, 0, 7) /\ At(z, 7, id, 12)
  BY <1>5, WriteIs
<1> HIDE DEF z
<1>7. At(z, -1, <<g, g>>, 2)
  <2>1. At(x, -1, <<g, g>>, 2)
    BY <1>2, <1>4, AtAgrees
  <2>2. At(y, -1, <<g, g>>, 2)
    BY <1>5, <2>1, AtAgrees
  <2> QED
    BY <1>6, <2>2, AtAgrees
<1>8. At(z, 1, U16(0), 2)
  <2>1. At(y, 1, U16(0), 2)
    BY <1>4, <1>5, AtAgrees
  <2> QED
    BY <1>6, <2>1, AtAgrees
<1>9. At(z, 3, MagicCookie, 4)
  BY <1>5, <1>6, AtAgrees
<1>10. AreAttrs(<< >>) /\ HasLen(<< >>, 0) /\ AttrsLayout(<< >>) = << >>
  <2>1. AreAttrs(<< >>) /\ HasLen(<< >>, 0)
    BY DEF AreAttrs, IsSeq, HasLen
  <2> QED
    BY <2>1, AttrsLayoutIs
<1>11. At(z, 19, << >>, 0)
  BY DEF At
<1>12. IsBlock(z, 0 + 20) /\ 0 \in Nat /\ 0 + 20 = 20
  BY <1>6
<1>13. Holds(z, <<g, g>>, id, << >>, 0)
  BY <1>6, <1>7, <1>8, <1>9, <1>11, <1>12, Zenon DEF Holds
<1>14. m.bytes = z /\ m.length = 20 /\ m.signed = Unsigned /\ IsMessage(m)
  BY <1>1 DEF IsMessage
<1>15. Carries(m, <<g, g>>, id, << >>, 0)
  BY <1>10, <1>12, <1>13, <1>14, Zenon DEF Carries
<1> QED
  BY <1>14, <1>15, Zenon DEF m

-----------------------------------------------------------------------------
(* The layout of a message                                                 *)

(* Memory that holds the parts of a sequence holds the sequence, one place *)
(* lower.                                                                  *)
LEMMA SameAt ==
  ASSUME NEW b, NEW x, NEW p \in Nat, NEW q \in Int, q = p - 1,
         NEW s, NEW k \in Nat, At(b, q, s, k), At(x, p, s, k)
  PROVE  \A i \in (p + 1)..(p + k) : b[i - 1] = x[i]
<1> SUFFICES ASSUME NEW i \in (p + 1)..(p + k) PROVE b[i - 1] = x[i]
  OBVIOUS
<1>1. PICK j \in 1..k : j = i - p
  OBVIOUS
<1>2. q + j = i - 1 /\ p + j = i
  BY <1>1
<1>3. b[q + j] = s[j] /\ x[p + j] = s[j]
  BY DEF At
<1> QED
  BY <1>2, <1>3, Zenon

(* x is what a message that holds the parts t, id and body reads as.       *)
Lays(x, t, id, body, n) ==
  /\ HasLen(x, n + 20) /\ At(x, 0, t, 2) /\ At(x, 8, id, 12) /\ At(x, 20, body, n)
  /\ \A bytes : Holds(bytes, t, id, body, n) => Read(bytes, 0, n + 20) = x

(* Parts laid out one after another are found at their places.             *)
LEMMA LayoutIs ==
  ASSUME NEW t, HasLen(t, 2), NEW id, HasLen(id, 12), NEW n \in Nat, NEW body, HasLen(body, n)
  PROVE  Lays(t \o U16(n) \o MagicCookie \o id \o body, t, id, body, n)
<1> DEFINE u == U16(n)
           a == t \o u
           b == a \o MagicCookie
           c == b \o id
           x == c \o body
<1>1. HasLen(MagicCookie, 4) /\ HasLen(u, 2)
  <2>1. MagicCookie \in Seq(Nat) /\ Len(MagicCookie) = 4
    BY DEF MagicCookie
  <2> QED
    BY <2>1, SeqIs, U16Is DEF HasLen
<1> HIDE DEF u
<1>2. HasLen(a, 4) /\ At(a, 0, t, 2) /\ At(a, 2, u, 2)
  <2>1. HasLen(a, 2 + 2) /\ At(a, 0, t, 2) /\ At(a, 2, u, 2)
    BY <1>1, ConcatIs
  <2> QED
    BY <2>1
<1> HIDE DEF a
<1>3. HasLen(b, 8) /\ At(b, 0, a, 4) /\ At(b, 4, MagicCookie, 4)
  <2>1. HasLen(b, 4 + 4) /\ At(b, 0, a, 4) /\ At(b, 4, MagicCookie, 4)
    BY <1>1, <1>2, ConcatIs
  <2> QED
    BY <2>1
<1> HIDE DEF b
<1>4. HasLen(c, 20) /\ At(c, 0, b, 8) /\ At(c, 8, id, 12)
  <2>1. HasLen(c, 8 + 12) /\ At(c, 0, b, 8) /\ At(c, 8, id, 12)
    BY <1>3, ConcatIs
  <2> QED
    BY <2>1
<1> HIDE DEF c
<1>5. HasLen(x, n + 20) /\ At(x, 0, c, 20) /\ At(x, 20, body, n)
  <2>1. HasLen(x, 20 + n) /\ At(x, 0, c, 20) /\ At(x, 20, body, n)
    BY <1>4, ConcatIs
  <2> QED
    BY <2>1
<1> HIDE DEF x
<1>6. At(x, 0, b, 8) /\ At(x, 8, id, 12)
  <2>1. At(x, 0 + 0, b, 8) /\ At(x, 0 + 8, id, 12)
    BY <1>4, <1>5, AtNested
  <2> QED
    BY <2>1
<1>7. At(x, 0, a, 4) /\ At(x, 4, MagicCookie, 4)
  <2>1. At(x, 0 + 0, a, 4) /\ At(x, 0 + 4, MagicCookie, 4)
    BY <1>3, <1>6, AtNested
  <2> QED
    BY <2>1
<1>8. At(x, 0, t, 2) /\ At(x, 2, u, 2)
  <2>1. At(x, 0 + 0, t, 2) /\ At(x, 0 + 2, u, 2)
    BY <1>2, <1>7, AtNested
  <2> QED
    BY <2>1
<1>9. ASSUME NEW bytes, Holds(bytes, t, id, body, n)
      PROVE  Read(bytes, 0, n + 20) = x
  <2>1. /\ At(bytes, -1, t, 2) /\ At(bytes, 1, u, 2) /\ At(bytes, 3, MagicCookie, 4)
        /\ At(bytes, 7, id, 12) /\ At(bytes, 19, body, n)
    BY <1>9 DEF Holds, u
  <2>2. \A i \in 1..2 : bytes[i - 1] = x[i]
    <3>1. \A i \in (0 + 1)..(0 + 2) : bytes[i - 1] = x[i]
      BY <1>8, <2>1, SameAt
    <3> QED
      BY <3>1
  <2>3. \A i \in 3..4 : bytes[i - 1] = x[i]
    <3>1. \A i \in (2 + 1)..(2 + 2) : bytes[i - 1] = x[i]
      BY <1>8, <2>1, SameAt
    <3> QED
      BY <3>1
  <2>4. \A i \in 5..8 : bytes[i - 1] = x[i]
    <3>1. \A i \in (4 + 1)..(4 + 4) : bytes[i - 1] = x[i]
      BY <1>7, <2>1, SameAt
    <3> QED
      BY <3>1
  <2>5. \A i \in 9..20 : bytes[i - 1] = x[i]
    <3>1. \A i \in (8 + 1)..(8 + 12) : bytes[i - 1] = x[i]
      BY <1>6, <2>1, SameAt
    <3> QED
      BY <3>1
  <2>6. \A i \in 21..(n + 20) : bytes[i - 1] = x[i]
    <3>1. \A i \in (20 + 1)..(20 + n) : bytes[i - 1] = x[i]
      BY <1>5, <2>1, SameAt
    <3> QED
      BY <3>1
  <2>7. \A i \in 1..(n + 20) : bytes[i - 1] = x[i]
    <3> SUFFICES ASSUME NEW i \in 1..(n + 20) PROVE bytes[i - 1] = x[i]
      OBVIOUS
    <3>1. i \in 1..2 \/ i \in 3..4 \/ i \in 5..8 \/ i \in 9..20 \/ i \in 21..(n + 20)
      OBVIOUS
    <3> QED
      BY <2>2, <2>3, <2>4, <2>5, <2>6, <3>1, Zenon
  <2> DEFINE r == Read(bytes, 0, n + 20)
  <2>8. /\ DOMAIN r = 1..(n + 20) /\ r = [i \in 1..(n + 20) |-> r[i]]
        /\ \A i \in 1..(n + 20) : r[i] = bytes[i - 1]
    BY DEF Read
  <2> HIDE DEF r
  <2>9. HasLen(r, n + 20)
    BY <2>8, HasLenIs
  <2>10. r = x
    <3>1. n + 20 \in Nat /\ \A i \in 1..(n + 20) : r[i] = x[i]
      BY <2>7, <2>8
    <3> QED
      BY <1>5, <2>9, <3>1, SameSeq
  <2> QED
    BY <2>10 DEF r
<1> QED
  <2>1. Lays(x, t, id, body, n)
    BY <1>5, <1>6, <1>8, <1>9, Zenon DEF Lays
  <2> QED
    BY <2>1 DEF x, c, b, a, u

(* The integrity attribute, and what is signed.                            *)
Mac == [i \in 1..MacLen |-> 0]
MacAttr == Attr(ATTR_MESSAGE_INTEGRITY, Mac)
Signature(m, declared) ==
  [key |-> "lower", bytes |-> Read(Counted(m.bytes, declared), 0, declared + HeaderLen),
   at |-> AttributeStart(declared) + 4]

(* stun_set_message_integrity, by its parts.                               *)
LEMMA SetIntegrityUnfolds ==
  ASSUME NEW m, NEW g
  PROVE  LET a == AddAttribute(m, ATTR_MESSAGE_INTEGRITY, Mac, g)
         IN  SetIntegrity(m, g) =
               [bytes |-> a.bytes, length |-> a.length,
                signed |-> Signature(m, ReadU16(m.bytes, 2))]
<1> DEFINE a == AddAttribute(m, ATTR_MESSAGE_INTEGRITY, Mac, g)
<1>1. a = [bytes |-> a.bytes, length |-> a.length, signed |-> a.signed]
  BY AddAttributeUnfolds DEF IsMessage
<1>2. SetIntegrity(m, g) = [a EXCEPT !.signed = Signature(m, ReadU16(m.bytes, 2))]
  BY SMT DEF SetIntegrity, Signature, Mac
<1> HIDE DEF a
<1>3. SetIntegrity(m, g) = [bytes |-> a.bytes, length |-> a.length,
                            signed |-> Signature(m, ReadU16(m.bytes, 2))]
  <2>1. PICK s : s = Signature(m, ReadU16(m.bytes, 2))
    OBVIOUS
  <2>2. SetIntegrity(m, g) = [a EXCEPT !.signed = s]
    BY <1>2, <2>1, Zenon
  <2>3. [a EXCEPT !.signed = s] = [bytes |-> a.bytes, length |-> a.length, signed |-> s]
    BY <1>1
  <2> QED
    BY <2>1, <2>2, <2>3, Zenon
<1> QED
  BY <1>3 DEF a

(* An integrity has 20 bytes and no padding.                               *)
LEMMA MacIs == HasLen(Mac, 20) /\ Padding(20) = 0 /\ 20 \in 0..255
<1>1. DOMAIN Mac = 1..20 /\ Mac = [i \in 1..20 |-> Mac[i]]
  BY DEF Mac, MacLen
<1>2. HasLen(Mac, 20)
  BY <1>1, HasLenIs
<1> QED
  BY <1>2 DEF Padding

(* What stun_set_message_integrity adds is what the device itself would    *)
(* accept: the bytes signed are those that the message has in the end.     *)
LEMMA SetIntegrityIs ==
  ASSUME NEW n \in 0..235, NEW m, NEW t, NEW id, NEW attrs, Carries(m, t, id, attrs, n), NEW g
  PROVE  /\ Carries(SetIntegrity(m, g), t, id, Append(attrs, MacAttr), n + 24)
         /\ IntegrityCorrect(SetIntegrity(m, g), "lower")
<1>0. Added(AddAttribute(m, ATTR_MESSAGE_INTEGRITY, Mac, g), m, t, id,
            Append(attrs, Attr(ATTR_MESSAGE_INTEGRITY, Mac)), n, n + (4 + 20 + Padding(20)))
  BY MacIs, AddAttributeIs, ZenonT(40)
<1> DEFINE a == AddAttribute(m, ATTR_MESSAGE_INTEGRITY, Mac, g)
           r == SetIntegrity(m, g)
           c == Write(m.bytes, 1 + 1, U16(n + 24))
           more == Append(attrs, MacAttr)
<1>1. /\ Carries(a, t, id, more, n + 24)
      /\ Agree(a.bytes, m.bytes, 0, 1) /\ Agree(a.bytes, m.bytes, 4, n + 19)
  <2>1. /\ Carries(a, t, id, Append(attrs, Attr(ATTR_MESSAGE_INTEGRITY, Mac)),
                   n + (4 + 20 + Padding(20)))
        /\ Agree(a.bytes, m.bytes, 0, 1) /\ Agree(a.bytes, m.bytes, 4, n + 19)
    BY <1>0 DEF Added
  <2>2. n + (4 + 20 + Padding(20)) = n + 24
    BY MacIs
  <2> HIDE DEF a
  <2> QED
    BY <2>1, <2>2, Zenon DEF MacAttr
<1>2. /\ m.length = n + 20 /\ ReadU16(m.bytes, 2) = n /\ IsBlock(m.bytes, n + 20)
      /\ a.length = (n + 24) + 20 /\ At(a.bytes, 1, U16(n + 24), 2)
  <2>1. n \in 0..511
    OBVIOUS
  <2> HIDE DEF a
  <2> QED
    BY <1>1, <2>1, DeclaredIs DEF Carries, Holds
<1> HIDE DEF a
<1>3. /\ r.bytes = a.bytes /\ r.length = a.length /\ r.signed = Signature(m, n) /\ IsMessage(r)
  <2>1. r = [bytes |-> a.bytes, length |-> a.length, signed |-> Signature(m, n)]
    BY <1>2, SetIntegrityUnfolds, Zenon DEF a
  <2> QED
    BY <2>1 DEF IsMessage
<1> HIDE DEF r, more
<1>4. Carries(r, t, id, more, n + 24)
  BY <1>1, <1>3, Zenon DEF Carries
<1>5. /\ Agree(c, m.bytes, 0, 1) /\ Agree(c, m.bytes, 4, n + 19) /\ At(c, 1, U16(n + 24), 2)
      /\ c = Counted(m.bytes, n)
  <2>1. PICK N \in Nat : N = n + 20
    OBVIOUS
  <2>2. /\ Agree(c, m.bytes, 0, 1) /\ Agree(c, m.bytes, 1 + 2 + 1, N - 1)
        /\ At(c, 1, U16(n + 24), 2)
    <3>1. IsBlock(m.bytes, N) /\ 1 + 2 < N /\ HasLen(U16(n + 24), 2)
      BY <1>2, <2>1, U16Is
    <3> QED
      BY <3>1, WriteIs
  <2> HIDE DEF c
  <2>3. 1 + 2 + 1 = 4 /\ N - 1 = n + 19
    BY <2>1
  <2>4. c = Counted(m.bytes, n)
    <3>1. 1 + 1 = 2
      OBVIOUS
    <3> QED
      BY <3>1, Zenon DEF c, Counted, MacAttrLen
  <2> QED
    BY <2>2, <2>3, <2>4, Zenon
<1> HIDE DEF c
<1>6. \A i \in 0..(n + 19) : a.bytes[i] = c[i]
  <2> SUFFICES ASSUME NEW i \in 0..(n + 19) PROVE a.bytes[i] = c[i]
    OBVIOUS
  <2>1. i \in 0..1 \/ i \in 4..(n + 19) \/ i = 1 + 1 \/ i = 1 + 2
    OBVIOUS
  <2>2. 1 \in 1..2 /\ 2 \in 1..2
    OBVIOUS
  <2>3. CASE i \in 0..1
    BY <1>1, <1>5, <2>3, Zenon DEF Agree
  <2>4. CASE i \in 4..(n + 19)
    BY <1>1, <1>5, <2>4, Zenon DEF Agree
  <2>5. CASE i = 1 + 1
    BY <1>2, <1>5, <2>2, <2>5, Zenon DEF At
  <2>6. CASE i = 1 + 2
    BY <1>2, <1>5, <2>2, <2>6, Zenon DEF At
  <2> QED
    BY <2>1, <2>3, <2>4, <2>5, <2>6, Zenon
<1>7. Read(r.bytes, 0, n + 20) = Read(c, 0, n + 20)
  <2>1. \A i \in 1..(n + 20) : a.bytes[0 + i - 1] = c[0 + i - 1]
    BY <1>6
  <2> QED
    BY <1>3, <2>1 DEF Read
<1>8. /\ r.length - MacAttrLen = n + 20 /\ n + HeaderLen = n + 20
      /\ r.length - MacLen = AttributeStart(n) + 4
  BY <1>2, <1>3, SMT DEF MacAttrLen, HeaderLen, MacLen, AttributeStart
<1>9. IntegrityCorrect(r, "lower")
  BY <1>3, <1>5, <1>7, <1>8, Zenon DEF IntegrityCorrect, Signature
<1> QED
  BY <1>4, <1>9 DEF r, more

(* The attributes of a message, and the integrity after them.              *)
LEMMA MessageLayoutIs ==
  ASSUME NEW method, NEW class, NEW id, NEW attrs, AreAttrs(attrs)
  PROVE  MessageLayout(method, class, id, attrs) =
           TypeLayout(method, class) \o U16(Len(AttrsLayout(Append(attrs, MacAttr))))
             \o MagicCookie \o id \o AttrsLayout(Append(attrs, MacAttr))
<1> DEFINE body == AttrsLayout(Append(attrs, MacAttr))
<1>1. body = AttrsLayout(attrs) \o AttrLayout(MacAttr)
  <2>1. IsSeq(Mac)
    BY MacIs, HasLenIs
  <2> QED
    BY <2>1, AttrsLayoutIs, Zenon DEF MacAttr
<1>2. MessageLayout(method, class, id, attrs) =
        TypeLayout(method, class)
          \o U16(Len(AttrsLayout(attrs) \o AttrLayout(MacAttr)))
          \o MagicCookie \o id \o (AttrsLayout(attrs) \o AttrLayout(MacAttr))
  BY SMT DEF MessageLayout, MacAttr, Mac
<1> HIDE DEF body
<1>3. MessageLayout(method, class, id, attrs) =
        TypeLayout(method, class) \o U16(Len(body)) \o MagicCookie \o id \o body
  BY <1>1, <1>2, Zenon
<1> QED
  BY <1>3 DEF body

(* The integrity attribute takes 24 bytes.                                 *)
LEMMA WithMacIs ==
  ASSUME NEW attrs, AreAttrs(attrs), NEW n \in Nat, HasLen(AttrsLayout(attrs), n)
  PROVE  HasLen(AttrsLayout(Append(attrs, MacAttr)), n + 24)
<1>1. IsSeq(Mac) /\ HasLen(Mac, 20) /\ 20 \in Nat
  BY MacIs, HasLenIs
<1>2. AttrsLayout(Append(attrs, MacAttr)) = AttrsLayout(attrs) \o AttrLayout(MacAttr)
  BY <1>1, AttrsLayoutIs, Zenon DEF MacAttr
<1>3. HasLen(AttrLayout(MacAttr), 4 + 20 + Padding(20))
  <2>1. HasLen(AttrLayout(Attr(ATTR_MESSAGE_INTEGRITY, Mac)), 4 + 20 + Padding(20))
    BY <1>1, AttrLayoutIs
  <2> QED
    BY <2>1, Zenon DEF MacAttr
<1>4. 4 + 20 + Padding(20) = 24
  BY MacIs
<1>5. HasLen(AttrLayout(MacAttr), 24) /\ 24 \in Nat
  BY <1>3, <1>4
<1>6. HasLen(AttrsLayout(attrs) \o AttrLayout(MacAttr), n + 24)
  BY <1>5, ConcatIs, Zenon
<1> QED
  BY <1>2, <1>6, Zenon

(* Few enough bytes of attributes for the place of the integrity.          *)
Small(attrs) == \E n \in 0..235 : HasLen(AttrsLayout(attrs), n)

(* A message that fits has few enough bytes of attributes.                 *)
LEMMA FitsIs ==
  ASSUME NEW method, NEW class, HasLen(TypeLayout(method, class), 2),
         NEW id, HasLen(id, 12), NEW attrs, AreAttrs(attrs),
         Len(MessageLayout(method, class, id, attrs)) - MacAttrLen <= 255
  PROVE  Small(attrs)
<1> DEFINE body == AttrsLayout(Append(attrs, MacAttr))
           x == TypeLayout(method, class) \o U16(Len(body)) \o MagicCookie \o id \o body
<1>1. PICK n \in Nat : HasLen(AttrsLayout(attrs), n)
  BY AttrsLayoutIs, HasLenIs
<1>2. PICK k \in Nat : k = n + 24
  OBVIOUS
<1>3. HasLen(body, k) /\ Len(body) = k
  <2> HIDE DEF body
  <2>1. HasLen(body, n + 24)
    BY <1>1, WithMacIs DEF body
  <2> QED
    BY <1>2, <2>1 DEF HasLen
<1>4. MessageLayout(method, class, id, attrs) = x
  BY MessageLayoutIs
<1> HIDE DEF body
<1>5. HasLen(x, k + 20)
  <2>1. PICK t : t = TypeLayout(method, class)
    OBVIOUS
  <2>2. Lays(t \o U16(k) \o MagicCookie \o id \o body, t, id, body, k)
    BY <1>3, <2>1, LayoutIs
  <2> QED
    BY <1>3, <2>1, <2>2, Zenon DEF Lays, x
<1> HIDE DEF x
<1>6. Len(x) = k + 20
  BY <1>5, HasLenIs
<1>7. n \in 0..235
  BY <1>2, <1>4, <1>6 DEF MacAttrLen
<1> QED
  BY <1>1, <1>7 DEF Small

-----------------------------------------------------------------------------
(* Building a message                                                      *)

(* A message under construction: it carries its attributes, if they are    *)
(* few enough.                                                             *)
Built(m, t, id, attrs) ==
  /\ AreAttrs(attrs)
  /\ Small(attrs) => \E n \in 0..235 : Carries(m, t, id, attrs, n)

(* It is under construction from stun_new_message, ...                     *)
LEMMA BuiltNew ==
  ASSUME NEW id, HasLen(id, 12), NEW g
  PROVE  \E t : Built(NewMessage(id, g), t, id, << >>)
<1>1. Carries(NewMessage(id, g), <<g, g>>, id, << >>, 0) /\ 0 \in 0..235
  BY NewMessageIs
<1>2. AreAttrs(<< >>)
  BY <1>1 DEF Carries
<1>3. Built(NewMessage(id, g), <<g, g>>, id, << >>)
  BY <1>1, <1>2, Zenon DEF Built
<1> QED
  BY <1>3

(* ... after stun_set_method_and_class, ...                                *)
LEMMA BuiltType ==
  ASSUME NEW m, NEW t, NEW id, NEW attrs, Built(m, t, id, attrs), NEW method, NEW class
  PROVE  Built(SetMethodAndClass(m, method, class), TypeBytes(method, class), id, attrs)
<1>1. ASSUME NEW n \in 0..235, Carries(m, t, id, attrs, n)
      PROVE  Carries(SetMethodAndClass(m, method, class), TypeBytes(method, class), id, attrs, n)
  BY <1>1, SetTypeIs, Zenon
<1> QED
  BY <1>1, Zenon DEF Built

(* ... after the id of a request was copied into it, ...                   *)
LEMMA BuiltId ==
  ASSUME NEW m, NEW t, NEW id, NEW attrs, Built(m, t, id, attrs), NEW s, HasLen(s, 12)
  PROVE  Built([m EXCEPT !.bytes = Write(@, 8, s)], t, s, attrs)
<1> DEFINE r == [m EXCEPT !.bytes = Write(@, 8, s)]
<1>1. ASSUME NEW n \in 0..235, Carries(m, t, id, attrs, n) PROVE Carries(r, t, s, attrs, n)
  BY <1>1, SetIdIs
<1> HIDE DEF r
<1>2. Built(r, t, s, attrs)
  BY <1>1, Zenon DEF Built
<1> QED
  BY <1>2 DEF r

(* ... and after stun_add_attribute, whatever the sizes.                   *)
LEMMA BuiltAdd ==
  ASSUME NEW m, NEW t, NEW id, NEW attrs, Built(m, t, id, attrs),
         NEW type, NEW value, IsSeq(value), NEW g
  PROVE  Built(AddAttribute(m, type, value, g), t, id, Append(attrs, Attr(type, value)))
<1> DEFINE more == Append(attrs, Attr(type, value))
           r == AddAttribute(m, type, value, g)
<1>1. AreAttrs(more) /\ AttrsLayout(more) = AttrsLayout(attrs) \o AttrLayout(Attr(type, value))
  BY AttrsLayoutIs DEF Built
<1> HIDE DEF more, r
<1>2. ASSUME Small(more) PROVE \E n \in 0..235 : Carries(r, t, id, more, n)
  <2>1. PICK v \in Nat : HasLen(value, v)
    BY HasLenIs
  <2>2. PICK n \in Nat : HasLen(AttrsLayout(attrs), n)
    BY AttrsLayoutIs, HasLenIs DEF Built
  <2>3. PICK k \in Nat : k = 4 + v + Padding(v) /\ v <= k
    BY PaddingIs
  <2>4. HasLen(AttrLayout(Attr(type, value)), k)
    <3>1. HasLen(AttrLayout(Attr(type, value)), 4 + v + Padding(v))
      BY <2>1, AttrLayoutIs
    <3> QED
      BY <2>3, <3>1, Zenon
  <2>5. HasLen(AttrsLayout(more), n + k)
    BY <1>1, <2>2, <2>4, ConcatIs, Zenon
  <2>6. PICK N \in 0..235 : HasLen(AttrsLayout(more), N)
    BY <1>2 DEF Small
  <2>7. n + k = N
    BY <2>5, <2>6 DEF HasLen
  <2>8. n \in 0..235 /\ v \in 0..255
    BY <2>3, <2>7
  <2>9. PICK l \in 0..235 : Carries(m, t, id, attrs, l)
    BY <2>2, <2>8 DEF Built, Small
  <2>10. l = n
    BY <2>2, <2>9 DEF HasLen, Carries
  <2>11. Added(r, m, t, id, more, n, n + (4 + v + Padding(v)))
    <3>1. Carries(m, t, id, attrs, n)
      BY <2>9, <2>10
    <3> QED
      BY <2>1, <2>8, <3>1, AddAttributeIs, ZenonT(40) DEF r, more
  <2>12. n + (4 + v + Padding(v)) = N
    BY <2>3, <2>7
  <2>13. Carries(r, t, id, more, N)
    BY <2>11, <2>12, Zenon DEF Added
  <2> QED
    BY <2>13
<1> QED
  BY <1>1, <1>2, Zenon DEF Built, r, more


(* The two bytes of a type: what is written, and what is read of them.     *)
IsType(method, class, t, u) ==
  /\ t \in 0..63 /\ u \in 0..255
  /\ TypeBytes(method, class) = <<t, u>> /\ TypeLayout(method, class) = <<t, u>>
  /\ \A bytes : bytes[0] = t /\ bytes[1] = u =>
       /\ GetMethodAndClass(bytes) = [method |-> method, class |-> class]
       /\ ProcessMethodAndClass(bytes) = [method |-> method, class |-> class]

(* The two bytes written are those of the layout, and what is read of them *)
(* is the method and the class, in both of the functions that read them    *)
(* (stun_set_method_and_class, stun_get_method_and_class,                  *)
(* stun_process_stun_message).                                             *)
LEMMA TypeIs ==
  ASSUME NEW method \in Methods, NEW class \in Classes
  PROVE  \E t, u : IsType(method, class, t, u)
<1>1. PICK h \in 0..15, a \in 0..1, b \in 0..7, c \in 0..15 :
        method = 256 * h + 128 * a + 16 * b + c
  BY DEF Methods
<1>2. PICK c1 \in 0..1, c0 \in 0..1 :
        /\ c1 = (IF class \in {CL_SUCCESS, CL_ERROR} THEN 1 ELSE 0)
        /\ c0 = (IF class \in {CL_INDICATION, CL_ERROR} THEN 1 ELSE 0)
  OBVIOUS
<1>3. /\ class = 256 * c1 + 16 * c0
      /\ 16 * c0 = (IF class \in {CL_ERROR, CL_INDICATION} THEN 16 ELSE 0)
  BY <1>2 DEF Classes, CL_REQUEST, CL_INDICATION, CL_SUCCESS, CL_ERROR
<1>4. /\ 4 * h + 2 * a + c1 \in 0..63 /\ 32 * b + 16 * c0 + c \in 0..255
  OBVIOUS
<1>5. PICK t, u : t = 4 * h + 2 * a + c1 /\ u = 32 * b + 16 * c0 + c
  OBVIOUS
<1>6. t \in 0..63 /\ u \in 0..255
  BY <1>4, <1>5, Zenon
<1>7. PICK v \in Nat : v = 256 * t + u
  BY <1>6
<1>8. /\ t % 2 = c1 /\ (t \div 2) % 2 = a /\ t \div 4 = h
      /\ u % 16 = c /\ (u \div 32) % 8 = b /\ (u \div 16) % 2 = c0
  BY <1>5, <1>6
<1>9. /\ v % 16 = c /\ (v \div 32) % 8 = b /\ (v \div 16) % 2 = c0
      /\ (v \div 256) % 2 = c1 /\ (v \div 512) % 8 = 2 * (h % 4) + a
      /\ (v \div 4096) % 4 = h \div 4 /\ (v \div 256) % 256 = t /\ v % 256 = u
  <2>1. v % 16 = c /\ v % 256 = u
    BY <1>5, <1>6, <1>7
  <2>2. (v \div 32) % 8 = b
    <3>1. v \div 32 = 32 * h + 16 * a + 8 * c1 + b
      BY <1>5, <1>6, <1>7
    <3>2. (32 * h + 16 * a + 8 * c1 + b) % 8 = b
      OBVIOUS
    <3> QED
      BY <3>1, <3>2
  <2>3. (v \div 16) % 2 = c0
    <3>1. v \div 16 = 64 * h + 32 * a + 16 * c1 + 2 * b + c0
      BY <1>5, <1>6, <1>7
    <3>2. (64 * h + 32 * a + 16 * c1 + 2 * b + c0) % 2 = c0
      OBVIOUS
    <3> QED
      BY <3>1, <3>2
  <2>4. (v \div 256) % 2 = c1 /\ (v \div 256) % 256 = t
    BY <1>5, <1>6, <1>7
  <2>5. (v \div 512) % 8 = 2 * (h % 4) + a
    <3>1. v \div 512 = 2 * h + a
      BY <1>5, <1>6, <1>7
    <3>2. (2 * h + a) % 8 = 2 * (h % 4) + a
      OBVIOUS
    <3> QED
      BY <3>1, <3>2
  <2>6. (v \div 4096) % 4 = h \div 4
    BY <1>5, <1>6, <1>7
  <2> QED
    BY <2>1, <2>2, <2>3, <2>4, <2>5, <2>6
<1>10. TypeBytes(method, class) = <<t, u>>
  <2>1. PICK low \in 0..255 : low = method % 256 /\ low = 128 * a + 16 * b + c
    <3>1. PICK low : low = 128 * a + 16 * b + c
      OBVIOUS
    <3>2. low \in 0..255 /\ method = 256 * h + low
      BY <1>1, <3>1
    <3>3. \A i \in 0..15, j \in 0..255 : (256 * i + j) % 256 = j
      OBVIOUS
    <3>4. method % 256 = low
      BY <3>2, <3>3, ZenonT(40)
    <3> QED
      BY <3>1, <3>2, <3>4, Zenon
  <2>2. (method \div 256) % 16 = h
    BY <1>1
  <2>3. /\ low % 16 = c /\ low \div 16 = 8 * a + b /\ (8 * a + b) % 8 = b
        /\ low \div 128 = a
    BY <2>1
  <2>4. TypeBytes(method, class) =
          <<4 * h + 2 * (low \div 128) + (IF class \in {CL_SUCCESS, CL_ERROR} THEN 1 ELSE 0),
            (low % 16) + 32 * ((low \div 16) % 8)
              + (IF class \in {CL_ERROR, CL_INDICATION} THEN 16 ELSE 0)>>
    BY <2>1, <2>2 DEF TypeBytes
  <2>5. TypeBytes(method, class) = <<4 * h + 2 * a + c1, c + 32 * b + 16 * c0>>
    BY <1>2, <1>3, <2>3, <2>4
  <2>6. 4 * h + 2 * a + c1 = t /\ c + 32 * b + 16 * c0 = u
    BY <1>5
  <2> QED
    BY <2>5, <2>6
<1>11. TypeLayout(method, class) = <<t, u>>
  <2>1. Bits(method, 7, 11) = 2 * h + a
    BY <1>1 DEF Bits
  <2>2. Bits(method, 4, 6) = b
    <3>1. Bits(method, 4, 6) = (method \div 16) % 8
      BY DEF Bits
    <3>2. method \div 16 = 8 * (2 * h + a) + b
      BY <1>1
    <3>3. (8 * (2 * h + a) + b) % 8 = b
      OBVIOUS
    <3> QED
      BY <3>1, <3>2, <3>3
  <2>3. Bits(method, 0, 3) = c
    BY <1>1 DEF Bits
  <2>4. Bits(class, 8, 8) = c1 /\ Bits(class, 4, 4) = c0
    BY <1>3 DEF Bits
  <2>5. TypeLayout(method, class) = U16(512 * (2 * h + a) + 256 * c1 + 32 * b + 16 * c0 + c)
    BY <2>1, <2>2, <2>3, <2>4 DEF TypeLayout
  <2>6. 512 * (2 * h + a) + 256 * c1 + 32 * b + 16 * c0 + c = v
    BY <1>5, <1>6, <1>7
  <2>7. U16(v) = <<t, u>>
    <3>1. (v \div 256) % 256 = t /\ v % 256 = u
      BY <1>9
    <3> QED
      BY <3>1 DEF U16
  <2> QED
    BY <2>5, <2>6, <2>7
<1>12. ASSUME NEW bytes, bytes[0] = t, bytes[1] = u
       PROVE  /\ GetMethodAndClass(bytes) = [method |-> method, class |-> class]
              /\ ProcessMethodAndClass(bytes) = [method |-> method, class |-> class]
  <2>1. ReadU16(bytes, 0) = v
    BY <1>7, <1>12 DEF ReadU16
  <2>2. /\ c + 16 * b + 128 * (2 * (h % 4) + a) + 1024 * (h \div 4) = method
        /\ 256 * h + c + 16 * b + 128 * a = method
    BY <1>1
  <2>3. /\ (v % 16) + 16 * ((v \div 32) % 8) + 128 * ((v \div 512) % 8)
             + 1024 * ((v \div 4096) % 4) = method
        /\ 16 * ((v \div 16) % 2) + 256 * ((v \div 256) % 2) = class
    BY <1>3, <1>9, <2>2
  <2>4. /\ 256 * (t \div 4) + (u % 16) + 16 * ((u \div 32) % 8) + 128 * ((t \div 2) % 2) = method
        /\ 256 * (t % 2) + 16 * ((u \div 16) % 2) = class
    BY <1>3, <1>8, <2>2, ZenonT(40)
  <2>5. GetMethodAndClass(bytes) = [method |-> method, class |-> class]
    <3> DEFINE Of(x) == [method |-> (x % 16) + 16 * ((x \div 32) % 8)
                                      + 128 * ((x \div 512) % 8) + 1024 * ((x \div 4096) % 4),
                         class |-> 16 * ((x \div 16) % 2) + 256 * ((x \div 256) % 2)]
    <3>1. GetMethodAndClass(bytes) = Of(ReadU16(bytes, 0))
      BY DEF GetMethodAndClass
    <3>2. Of(v) = [method |-> method, class |-> class]
      BY <2>3
    <3> HIDE DEF Of
    <3> QED
      BY <2>1, <3>1, <3>2
  <2>6. ProcessMethodAndClass(bytes) = [method |-> method, class |-> class]
    BY <1>12, <2>4 DEF ProcessMethodAndClass
  <2> QED
    BY <2>5, <2>6
<1>13. \A bytes : bytes[0] = t /\ bytes[1] = u =>
         /\ GetMethodAndClass(bytes) = [method |-> method, class |-> class]
         /\ ProcessMethodAndClass(bytes) = [method |-> method, class |-> class]
  BY <1>12, Zenon
<1>14. IsType(method, class, t, u)
  BY <1>6, <1>10, <1>11, <1>13 DEF IsType
<1> QED
  BY <1>14, Zenon

(* A message whose attributes are few enough, once it is signed, is the    *)
(* layout of them, and the device itself would accept it.                  *)
LEMMA SignedIs ==
  ASSUME NEW method \in Methods, NEW class \in Classes, NEW id, HasLen(id, 12), NEW attrs,
         NEW m, Built(m, TypeBytes(method, class), id, attrs), NEW g,
         Len(MessageLayout(method, class, id, attrs)) - MacAttrLen <= 255
  PROVE  LET r == SetIntegrity(m, g) IN
         /\ Read(r.bytes, 0, r.length) = MessageLayout(method, class, id, attrs)
         /\ WellFormed(r.bytes, r.length) /\ IntegrityCorrect(r, "lower") /\ r.length \in Nat
<1> DEFINE r == SetIntegrity(m, g)
           body == AttrsLayout(Append(attrs, MacAttr))
           x == MessageLayout(method, class, id, attrs)
<1>0. PICK t, u : IsType(method, class, t, u)
  BY TypeIs, Zenon
<1>1. TypeLayout(method, class) = <<t, u>> /\ t < 64
  BY <1>0 DEF IsType
<1>2. TypeBytes(method, class) = <<t, u>>
  BY <1>0 DEF IsType
<1>3. HasLen(<<t, u>>, 2) /\ AreAttrs(attrs)
  BY <1>2, TypeBytesIs DEF Built
<1>4. Small(attrs)
  BY <1>1, <1>3, FitsIs
<1>5. PICK n \in 0..235 : Carries(m, <<t, u>>, id, attrs, n)
  BY <1>2, <1>4 DEF Built
<1>6. x = TypeLayout(method, class) \o U16(Len(body)) \o MagicCookie \o id \o body
  BY <1>3, MessageLayoutIs
<1> HIDE DEF x
<1>7. Carries(r, <<t, u>>, id, Append(attrs, MacAttr), n + 24) /\ IntegrityCorrect(r, "lower")
  BY <1>5, SetIntegrityIs, Zenon
<1> HIDE DEF r, body
<1>8. PICK k \in 24..259 : k = n + 24
  OBVIOUS
<1>9. HasLen(body, k) /\ Len(body) = k /\ r.length = k + 20 /\ Holds(r.bytes, <<t, u>>, id, body, k)
  <2>1. HasLen(body, k) /\ r.length = k + 20 /\ Holds(r.bytes, <<t, u>>, id, body, k)
    BY <1>7, <1>8, Zenon DEF Carries, body
  <2> QED
    BY <2>1 DEF HasLen
<1>10. x = <<t, u>> \o U16(k) \o MagicCookie \o id \o body
  BY <1>1, <1>9, <1>6, Zenon
<1>11. Read(r.bytes, 0, k + 20) = <<t, u>> \o U16(k) \o MagicCookie \o id \o body
  <2>1. PICK s, b : s = <<t, u>> /\ b = r.bytes
    OBVIOUS
  <2>2. k \in Nat
    OBVIOUS
  <2>3. HasLen(s, 2) /\ HasLen(body, k) /\ Holds(b, s, id, body, k)
    BY <1>3, <1>9, <2>1, Zenon
  <2>4. Read(b, 0, k + 20) = s \o U16(k) \o MagicCookie \o id \o body
    <3>1. Lays(s \o U16(k) \o MagicCookie \o id \o body, s, id, body, k)
      BY <2>2, <2>3, LayoutIs
    <3> QED
      BY <2>3, <3>1, Zenon DEF Lays
  <2> QED
    BY <2>1, <2>4, Zenon
<1>12. WellFormed(r.bytes, r.length)
  <2>1. r.bytes[0] < 64
    <3>1. r.bytes[-1 + 1] = <<t, u>>[1]
      <4>1. 1 \in 1..2
        OBVIOUS
      <4> QED
        BY <1>9, <4>1, Zenon DEF Holds, At
    <3>2. -1 + 1 = 0 /\ <<t, u>>[1] = t
      OBVIOUS
    <3>3. r.bytes[0] = t
      BY <3>1, <3>2, Zenon
    <3> QED
      BY <1>1, <3>3, Zenon
  <2>2. Read(r.bytes, 4, 4) = MagicCookie
    <3> DEFINE s == Read(r.bytes, 4, 4)
    <3>1. DOMAIN s = 1..4 /\ s = [i \in 1..4 |-> s[i]] /\ \A i \in 1..4 : s[i] = r.bytes[3 + i]
      BY DEF Read
    <3>2. \A i \in 1..4 : s[i] = MagicCookie[i]
      BY <1>9, <3>1, Zenon DEF Holds, At
    <3> HIDE DEF s
    <3>3. MagicCookie \in Seq(Nat) /\ Len(MagicCookie) = 4
      BY DEF MagicCookie
    <3>4. HasLen(s, 4) /\ HasLen(MagicCookie, 4)
      BY <3>1, <3>3, SeqIs, HasLenIs DEF HasLen
    <3>5. s = MagicCookie
      BY <3>2, <3>4, SameSeq
    <3> QED
      BY <3>5 DEF s
  <2>3. ReadU16(r.bytes, 2) = k
    <3>1. k \in 0..511
      OBVIOUS
    <3> QED
      BY <1>9, <3>1, DeclaredIs, ZenonT(40) DEF Holds
  <2>4. r.length >= HeaderLen /\ k = r.length - HeaderLen
    BY <1>9 DEF HeaderLen
  <2> QED
    BY <2>1, <2>2, <2>3, <2>4 DEF WellFormed
<1>13. Read(r.bytes, 0, r.length) = x
  BY <1>9, <1>10, <1>11, Zenon
<1>14. r.length \in Nat
  BY <1>9
<1> QED
  BY <1>7, <1>12, <1>13, <1>14 DEF r, x

-----------------------------------------------------------------------------
(* The values of attributes                                                *)

(* Four characters of a uuid are two bytes.                                *)
LEMMA StrToLIs ==
  ASSUME NEW uuid, NEW p \in Nat, \A k \in 1..4 : uuid[p + k] \in 0..15
  PROVE  U16(StrToL(uuid, p)) =
           <<16 * uuid[p + 1] + uuid[p + 2], 16 * uuid[p + 3] + uuid[p + 4]>>
<1>0. PICK a \in 0..15, b \in 0..15, c \in 0..15, d \in 0..15 :
        uuid[p + 1] = a /\ uuid[p + 2] = b /\ uuid[p + 3] = c /\ uuid[p + 4] = d
  <2>1. 1 \in 1..4 /\ 2 \in 1..4 /\ 3 \in 1..4 /\ 4 \in 1..4
    OBVIOUS
  <2>2. /\ uuid[p + 1] \in 0..15 /\ uuid[p + 2] \in 0..15 /\ uuid[p + 3] \in 0..15
        /\ uuid[p + 4] \in 0..15
    BY <2>1, Zenon
  <2> QED
    BY <2>2
<1> DEFINE Digits(n) == /\ \A k \in 1..n : uuid[p + k] # Dash
                        /\ n = 4 \/ uuid[p + n + 1] = Dash
           digits == CHOOSE n \in 0..4 : Digits(n)
           Solves(f) == f = [n \in 0..4 |-> IF n = 0 THEN 0 ELSE 16 * f[n - 1] + uuid[p + n]]
           value == CHOOSE f : Solves(f)
<1>1. StrToL(uuid, p) = value[digits]
  BY DEF StrToL
<1>2. digits = 4
  <2>1. \A k \in 1..4 : uuid[p + k] # Dash
    BY <1>0 DEF Dash
  <2>2. Digits(4)
    BY <2>1
  <2>3. ASSUME NEW n \in 0..4, Digits(n) PROVE n = 4
    <3>1. n # 4 => n + 1 \in 1..4 /\ p + (n + 1) = p + n + 1
      OBVIOUS
    <3> QED
      BY <2>1, <2>3, <3>1
  <2> HIDE DEF Digits
  <2>4. 4 \in 0..4
    OBVIOUS
  <2> QED
    BY <2>2, <2>3, <2>4
<1>3. Solves(value)
  <2> DEFINE f == [n \in 0..4 |->
                     IF n = 0 THEN 0 ELSE IF n = 1 THEN a ELSE IF n = 2 THEN 16 * a + b
                     ELSE IF n = 3 THEN 16 * (16 * a + b) + c
                     ELSE 16 * (16 * (16 * a + b) + c) + d]
  <2>0. uuid[p + 1] = a /\ uuid[p + 2] = b /\ uuid[p + 3] = c /\ uuid[p + 4] = d
    BY <1>0
  <2>1. f[0] = 0 /\ f[1] = a /\ f[2] = 16 * a + b /\ f[3] = 16 * (16 * a + b) + c
        /\ f[4] = 16 * (16 * (16 * a + b) + c) + d
    OBVIOUS
  <2>2. f = [n \in 0..4 |-> f[n]]
    OBVIOUS
  <2> HIDE DEF f
  <2>3. ASSUME NEW n \in 0..4 PROVE f[n] = IF n = 0 THEN 0 ELSE 16 * f[n - 1] + uuid[p + n]
    <3>1. n = 0 \/ n = 1 \/ n = 2 \/ n = 3 \/ n = 4
      OBVIOUS
    <3> QED
      BY <2>0, <2>1, <3>1
  <2>4. Solves(f)
    BY <2>2, <2>3, Zenon
  <2> HIDE DEF Solves
  <2> QED
    BY <2>4
<1> HIDE DEF digits, value
<1>4. value[4] = 16 * (16 * (16 * a + b) + c) + d
  <2>1. value[0] = 0
    BY <1>3
  <2>2. value[1] = 16 * value[0] + a
    BY <1>0, <1>3
  <2>3. value[2] = 16 * value[1] + b
    BY <1>0, <1>3
  <2>4. value[3] = 16 * value[2] + c
    BY <1>0, <1>3
  <2>5. value[4] = 16 * value[3] + d
    BY <1>0, <1>3
  <2> HIDE DEF Solves
  <2> QED
    BY <2>1, <2>2, <2>3, <2>4, <2>5
<1>5. PICK x, y : x = 16 * a + b /\ y = 16 * c + d
  OBVIOUS
<1>6. x \in 0..255 /\ y \in 0..255
  BY <1>5
<1>7. StrToL(uuid, p) = 256 * x + y
  BY <1>1, <1>2, <1>4, <1>5
<1>8. ((256 * x + y) \div 256) % 256 = x /\ (256 * x + y) % 256 = y
  BY <1>6
<1> QED
  BY <1>0, <1>5, <1>7, <1>8 DEF U16

(* The characters of a uuid are its digits, four in a group.               *)
LEMMA UuidDigits ==
  ASSUME NEW j \in 1..8
  PROVE  /\ Groups[j] \in Nat
         /\ \A k \in 1..4 : /\ Uuid[Groups[j] + k] = UuidDigit(4 * (j - 1) + k)
                            /\ Uuid[Groups[j] + k] \in 0..15
<1>1. Groups[1] = 0 /\ Groups[2] = 4 /\ Groups[3] = 9 /\ Groups[4] = 14
      /\ Groups[5] = 19 /\ Groups[6] = 24 /\ Groups[7] = 28 /\ Groups[8] = 32
  BY DEF Groups
<1> DEFINE off(i) == IF i <= 8 THEN 0 ELSE IF i <= 12 THEN 1 ELSE IF i <= 16 THEN 2
                     ELSE IF i <= 20 THEN 3 ELSE 4
<1>2. ASSUME NEW k \in 1..4
      PROVE  /\ Groups[j] + k = 4 * (j - 1) + k + off(4 * (j - 1) + k)
             /\ Groups[j] + k \in 1..36 /\ Groups[j] + k \notin {9, 14, 19, 24}
  <2>1. j = 1 \/ j = 2 \/ j = 3 \/ j = 4 \/ j = 5 \/ j = 6 \/ j = 7 \/ j = 8
    OBVIOUS
  <2> QED
    BY <1>1, <2>1
<1>3. ASSUME NEW k \in 1..4
      PROVE  Uuid[Groups[j] + k] = UuidDigit(4 * (j - 1) + k) /\ Uuid[Groups[j] + k] \in 0..15
  <2>1. Uuid[Groups[j] + k] \in 0..15
    <3>1. PICK i \in 1..36 : i = Groups[j] + k /\ i \notin {9, 14, 19, 24}
      BY <1>2
    <3>2. Uuid[i] \in 0..16 /\ Uuid[i] # 16
      BY <3>1, MessagesAssumption DEF Dash
    <3> QED
      BY <3>1, <3>2
  <2>2. UuidDigit(4 * (j - 1) + k) = Uuid[4 * (j - 1) + k + off(4 * (j - 1) + k)]
    BY DEF UuidDigit
  <2> HIDE DEF off
  <2> QED
    BY <1>2, <2>1, <2>2
<1>4. Groups[j] \in Nat
  <2>1. j = 1 \/ j = 2 \/ j = 3 \/ j = 4 \/ j = 5 \/ j = 6 \/ j = 7 \/ j = 8
    OBVIOUS
  <2> QED
    BY <1>1, <2>1
<1> QED
  BY <1>3, <1>4

(* The 16 bytes of the uuid, as they are meant to be.                      *)
MeantUuid == [i \in 1..16 |-> 16 * UuidDigit(2 * i - 1) + UuidDigit(2 * i)]

(* A uuid of the server is written as the 16 bytes that it stands for.     *)
LEMMA UuidBytesAre == UuidBytes(Uuid) = MeantUuid /\ IsSeq(UuidBytes(Uuid))
<1>1. ASSUME NEW i \in 1..16
      PROVE  UuidBytes(Uuid)[i] = 16 * UuidDigit(2 * i - 1) + UuidDigit(2 * i)
  <2>1. UuidBytes(Uuid)[i] = U16(StrToL(Uuid, Groups[(i + 1) \div 2]))[2 - (i % 2)]
    BY DEF UuidBytes
  <2>2. PICK j \in 1..8 : i = 2 * j - 1 \/ i = 2 * j
    <3>1. (i + 1) \div 2 \in 1..8
          /\ (i = 2 * ((i + 1) \div 2) - 1 \/ i = 2 * ((i + 1) \div 2))
      OBVIOUS
    <3> QED
      BY <3>1
  <2>3. (i + 1) \div 2 = j
    BY <2>2
  <2>4. PICK p \in Nat : p = Groups[j]
    BY UuidDigits
  <2>5. /\ 1 \in 1..4 /\ 2 \in 1..4 /\ 3 \in 1..4 /\ 4 \in 1..4
        /\ 4 * (j - 1) + 1 = 2 * (2 * j - 1) - 1 /\ 4 * (j - 1) + 2 = 2 * (2 * j - 1)
        /\ 4 * (j - 1) + 3 = 2 * (2 * j) - 1 /\ 4 * (j - 1) + 4 = 2 * (2 * j)
    OBVIOUS
  <2>6. /\ Uuid[p + 1] = UuidDigit(2 * (2 * j - 1) - 1) /\ Uuid[p + 1] \in 0..15
        /\ Uuid[p + 2] = UuidDigit(2 * (2 * j - 1)) /\ Uuid[p + 2] \in 0..15
        /\ Uuid[p + 3] = UuidDigit(2 * (2 * j) - 1) /\ Uuid[p + 3] \in 0..15
        /\ Uuid[p + 4] = UuidDigit(2 * (2 * j)) /\ Uuid[p + 4] \in 0..15
    BY <2>4, <2>5, UuidDigits, ZenonT(40)
  <2>7. PICK a \in 0..15, b \in 0..15, c \in 0..15, d \in 0..15 :
          Uuid[p + 1] = a /\ Uuid[p + 2] = b /\ Uuid[p + 3] = c /\ Uuid[p + 4] = d
    BY <2>6
  <2>8. U16(StrToL(Uuid, p)) = <<16 * a + b, 16 * c + d>>
    <3>1. \A k \in 1..4 : Uuid[p + k] \in 0..15
      BY <2>4, UuidDigits, Zenon
    <3>2. U16(StrToL(Uuid, p)) =
            <<16 * Uuid[p + 1] + Uuid[p + 2], 16 * Uuid[p + 3] + Uuid[p + 4]>>
      BY <3>1, StrToLIs, Zenon
    <3> QED
      BY <2>7, <3>2, Zenon
  <2>9. UuidBytes(Uuid)[i] = <<16 * a + b, 16 * c + d>>[2 - (i % 2)]
    BY <2>1, <2>3, <2>4, <2>8, Zenon
  <2>10. CASE i = 2 * j - 1
    <3>1. 2 - (i % 2) = 1
      BY <2>10
    <3>2. UuidBytes(Uuid)[i] = 16 * a + b
      BY <2>9, <3>1
    <3> QED
      BY <2>6, <2>7, <2>10, <3>2, Zenon
  <2>11. CASE i = 2 * j
    <3>1. 2 - (i % 2) = 2
      BY <2>11
    <3>2. UuidBytes(Uuid)[i] = 16 * c + d
      BY <2>9, <3>1
    <3> QED
      BY <2>6, <2>7, <2>11, <3>2, Zenon
  <2> QED
    BY <2>2, <2>10, <2>11
<1>2. DOMAIN UuidBytes(Uuid) = 1..16 /\ UuidBytes(Uuid) = [i \in 1..16 |-> UuidBytes(Uuid)[i]]
  BY DEF UuidBytes
<1>3. UuidBytes(Uuid) = MeantUuid
  BY <1>1, <1>2 DEF MeantUuid
<1>4. IsSeq(UuidBytes(Uuid))
  <2>1. HasLen(UuidBytes(Uuid), 16)
    BY <1>2, HasLenIs
  <2> QED
    BY <2>1 DEF HasLen
<1> QED
  BY <1>3, <1>4

(* The attribute of the status has the size that was allocated for it, and *)
(* the payload of an event the length that was counted, with room for it.  *)
LEMMA SizesAre ==
  ASSUME NEW cs, AreComponents(cs)
  PROVE  /\ AllocatedSize(cs) \in Nat /\ PayloadLen(cs) \in Nat
         /\ PayloadLen(cs) + 1 <= PayloadAllocated(cs)
<1> DEFINE a == [i \in 1..Len(cs) |-> 20 + Len(cs[i].name) + ValueLen(cs[i])]
           b == [i \in 1..Len(cs) |-> Len(cs[i].name) + 2 + ValueLen(cs[i]) + 22]
           d == [i \in 1..Len(cs) |->
                   Len(cs[i].name) + (IF IsString(cs[i]) THEN Len(cs[i].value) ELSE 0) + 4]
<1>1. ASSUME NEW c, IsComponent(c)
      PROVE  /\ 20 + Len(c.name) + ValueLen(c) \in Nat
             /\ Len(c.name) + 2 + ValueLen(c) + 22 \in Nat
             /\ Len(c.name) + (IF IsString(c) THEN Len(c.value) ELSE 0) + 4 \in Nat \ {0}
             /\ (20 + Len(c.name) + ValueLen(c)) + 1 <= 8 * (Len(c.name) + 2 + ValueLen(c) + 22)
  <2>1. PICK n \in Nat : n = Len(c.name)
    BY <1>1, LenProperties DEF IsComponent
  <2>2. IsString(c) => Len(c.value) \in Nat
    BY <1>1, LenProperties DEF IsComponent, IsString
  <2>3. PICK v \in Nat : v = ValueLen(c)
    <3>1. c.type = "string" => Len(c.value) \in Nat
      BY <2>2 DEF IsString
    <3> QED
      BY <1>1, <3>1 DEF IsComponent, ValueLen
  <2>4. PICK s \in Nat : s = IF IsString(c) THEN Len(c.value) ELSE 0
    BY <2>2
  <2>5. /\ 20 + n + v \in Nat /\ n + 2 + v + 22 \in Nat /\ n + s + 4 \in Nat \ {0}
        /\ (20 + n + v) + 1 <= 8 * (n + 2 + v + 22)
    OBVIOUS
  <2> QED
    BY <2>1, <2>3, <2>4, <2>5, Zenon
<1>2. cs \in Seq({cs[i] : i \in DOMAIN cs})
  BY DEF AreComponents
<1>3. \A i \in 1..Len(cs) : IsComponent(cs[i])
  BY DEF AreComponents
<1>4. /\ \A i \in 1..Len(cs) : a[i] \in Nat /\ b[i] \in Nat /\ a[i] + 1 <= 8 * b[i]
      /\ \A i \in 1..Len(cs) : d[i] \in Nat /\ d[i] + 1 <= 8 * d[i]
  <2>1. ASSUME NEW i \in 1..Len(cs)
        PROVE  a[i] \in Nat /\ b[i] \in Nat /\ a[i] + 1 <= 8 * b[i] /\ d[i] \in Nat \ {0}
    BY <1>1, <1>3
  <2> HIDE DEF a, b, d
  <2>2. ASSUME NEW i \in 1..Len(cs) PROVE d[i] + 1 <= 8 * d[i]
    <3>1. d[i] \in Nat \ {0}
      BY <2>1
    <3> QED
      BY <3>1
  <2> QED
    BY <2>1, <2>2
<1>5. /\ a = [i \in 1..Len(cs) |-> a[i]] /\ b = [i \in 1..Len(cs) |-> b[i]]
      /\ d = [i \in 1..Len(cs) |-> d[i]]
  OBVIOUS
<1>6. PayloadLen(cs) = 2 + Total(a) + Commas(cs)
  BY DEF SumOf, PayloadLen
<1>7. PayloadAllocated(cs) = 8 * (Total(b) + 3)
  BY DEF SumOf, PayloadAllocated
<1>8. AllocatedSize(cs) = 2 + Len(cs) + Total(d)
  BY DEF SumOf, AllocatedSize
<1> HIDE DEF a, b, d
<1>9. /\ Total(a) \in Nat /\ Total(b) \in Nat /\ Commas(cs) \in Nat
      /\ Total(a) + Commas(cs) <= 8 * Total(b)
  BY <1>2, <1>4, <1>5, SumsWithin
<1>10. Total(d) \in Nat
  BY <1>2, <1>4, <1>5, SumsWithin
<1>11. Len(cs) \in Nat
  BY <1>2, LenProperties
<1> QED
  BY <1>6, <1>7, <1>8, <1>9, <1>10, <1>11, SMTT(30)

(* The values of all attributes are sequences.                             *)
LEMMA ValuesAre ==
  /\ IsSeq(Username) /\ IsSeq(U32(Now)) /\ IsSeq(UuidBytes(Uuid)) /\ HasLen(OwnTrId, 12)
  /\ \A cs, g : AreComponents(cs) => IsSeq(BuildArguments(cs, g))
  /\ \A cs : AreComponents(cs) => IsSeq(StructuredPayload(cs))
  /\ \A name \in EventNames : IsSeq(name)
  /\ \A text \in Texts : text # NoText => IsSeq(text)
  /\ \A r \in Requests : HasLen(r.trId, 12) /\ AreAttrs(r.attrs)
<1>1. IsSeq(Username) /\ \A name \in EventNames : IsSeq(name)
  BY MessagesAssumption, SeqIs
<1>2. \A text \in Texts : text # NoText => IsSeq(text)
  BY MessagesAssumption, SeqIs
<1>3. IsSeq(U32(Now))
  <2>1. PICK x, y : x = U16(Now[1]) /\ y = U16(Now[2])
    OBVIOUS
  <2>2. HasLen(x, 2) /\ HasLen(y, 2)
    BY <2>1, U16Is
  <2>3. HasLen(x \o y, 2 + 2)
    BY <2>2, ConcatIs
  <2> QED
    BY <2>1, <2>3, HasLenIs DEF U32
<1>4. \A id \in [1..12 -> Byte] : HasLen(id, 12)
  <2> SUFFICES ASSUME NEW id \in [1..12 -> Byte] PROVE HasLen(id, 12)
    OBVIOUS
  <2>1. DOMAIN id = 1..12 /\ id = [i \in 1..12 |-> id[i]]
    OBVIOUS
  <2> QED
    BY <2>1, HasLenIs
<1>5. ASSUME NEW cs, NEW g, AreComponents(cs) PROVE IsSeq(BuildArguments(cs, g))
  <2>1. PICK n, mem : n \in Nat /\ n = AllocatedSize(cs) /\ mem = Filled(cs, g)
    BY <1>5, SizesAre
  <2>2. BuildArguments(cs, g) = Read(mem, 0, n)
    BY <2>1, Zenon DEF BuildArguments
  <2> DEFINE s == Read(mem, 0, n)
  <2>3. DOMAIN s = 1..n /\ s = [i \in 1..n |-> s[i]]
    BY DEF Read
  <2> HIDE DEF s
  <2>4. IsSeq(s)
    BY <2>3, SeqIs
  <2> QED
    BY <2>2, <2>4 DEF s
<1>6. ASSUME NEW cs, AreComponents(cs) PROVE IsSeq(StructuredPayload(cs))
  <2>1. PICK n \in Nat : n = PayloadLen(cs)
    BY <1>6, SizesAre
  <2> DEFINE s == [i \in 1..n |-> 91]
  <2>2. DOMAIN s = 1..n /\ s = [i \in 1..n |-> s[i]]
    OBVIOUS
  <2>3. StructuredPayload(cs) = s
    BY <2>1, Zenon DEF StructuredPayload
  <2> HIDE DEF s
  <2>4. IsSeq(s)
    BY <2>2, SeqIs
  <2> QED
    BY <2>3, <2>4
<1>7. ASSUME NEW r \in Requests PROVE HasLen(r.trId, 12) /\ AreAttrs(r.attrs)
  <2>1. r.trId \in [1..12 -> Byte] /\ r.attrs \in Seq([type : Word, value : Seq(Nat)])
    BY MessagesAssumption
  <2>2. PICK attrs : attrs = r.attrs
    OBVIOUS
  <2>3. PICK n \in Nat : n = Len(attrs)
    BY <2>1, <2>2, LenProperties
  <2>4. attrs \in [1..n -> [type : Word, value : Seq(Nat)]] /\ IsSeq(attrs)
    BY <2>1, <2>2, <2>3, LenProperties, SeqIs
  <2>5. ASSUME NEW i \in 1..n
        PROVE  attrs[i] = Attr(attrs[i].type, attrs[i].value) /\ IsSeq(attrs[i].value)
    <3>1. PICK a \in [type : Word, value : Seq(Nat)] : a = attrs[i]
      BY <2>4
    <3>2. a = Attr(a.type, a.value) /\ a.value \in Seq(Nat)
      BY DEF Attr
    <3> QED
      BY <3>1, <3>2, SeqIs
  <2>6. AreAttrs(attrs)
    BY <2>3, <2>4, <2>5 DEF AreAttrs
  <2> QED
    BY <1>4, <2>1, <2>2, <2>6
<1>8. HasLen(OwnTrId, 12) /\ IsSeq(UuidBytes(Uuid))
  BY <1>4, MessagesAssumption, UuidBytesAre
<1> QED
  BY <1>1, <1>2, <1>3, <1>5, <1>6, <1>7, <1>8

-----------------------------------------------------------------------------
(* Messages received                                                       *)

(* The method, the class and the id of a message of the server are read as *)
(* they were laid out, in both of the functions that read them             *)
(* (stun_get_method_and_class, stun_process_stun_message).                 *)
THEOREM HeadersAreRead ==
  ASSUME NEW r \in Requests
  PROVE  /\ GetMethodAndClass(Received(r).bytes) = [method |-> r.method, class |-> r.class]
         /\ ProcessMethodAndClass(Received(r).bytes) = [method |-> r.method, class |-> r.class]
         /\ Read(Received(r).bytes, 8, 12) = r.trId
<1>1. PICK method, class, id, attrs :
        /\ method = r.method /\ class = r.class /\ id = r.trId /\ attrs = r.attrs
  OBVIOUS
<1>2. HasLen(id, 12) /\ AreAttrs(attrs)
  BY <1>1, ValuesAre
<1>3. PICK t, u : IsType(method, class, t, u)
  <2>1. method \in Methods /\ class \in Classes
    BY <1>1, MessagesAssumption, Zenon
  <2> QED
    BY <2>1, TypeIs, Zenon
<1>4. PICK s : s = <<t, u>>
  OBVIOUS
<1>5. s = <<t, u>> /\ s[1] = t /\ s[2] = u
  BY <1>4
<1>6. TypeLayout(method, class) = s /\ HasLen(s, 2)
  <2>1. TypeLayout(method, class) = <<t, u>> /\ TypeBytes(method, class) = <<t, u>>
    BY <1>3 DEF IsType
  <2> QED
    BY <1>5, <2>1, TypeBytesIs, Zenon
<1>7. PICK body, k : body = AttrsLayout(Append(attrs, MacAttr)) /\ HasLen(body, k) /\ k \in Nat
                     /\ Len(body) = k
  <2>1. PICK n \in Nat : HasLen(AttrsLayout(attrs), n)
    BY <1>2, AttrsLayoutIs, HasLenIs
  <2>2. HasLen(AttrsLayout(Append(attrs, MacAttr)), n + 24)
    BY <1>2, <2>1, WithMacIs
  <2> QED
    BY <2>2, HasLenIs
<1>8. PICK x : x = MessageLayout(method, class, id, attrs)
  OBVIOUS
<1>9. x = s \o U16(k) \o MagicCookie \o id \o body
  <2>9. MessageLayout(method, class, id, attrs)
          = TypeLayout(method, class) \o U16(Len(AttrsLayout(Append(attrs, MacAttr))))
              \o MagicCookie \o id \o AttrsLayout(Append(attrs, MacAttr))
    <3>1. AreAttrs(attrs)
      BY <1>2
    <3> QED
      BY <3>1, MessageLayoutIs
  <2>1. x = TypeLayout(method, class) \o U16(Len(body)) \o MagicCookie \o id \o body
    BY <1>7, <1>8, <2>9, Zenon
  <2> QED
    BY <1>6, <1>7, <2>1, Zenon
<1>10. Lays(x, s, id, body, k)
  <2>1. Lays(s \o U16(k) \o MagicCookie \o id \o body, s, id, body, k)
    BY <1>2, <1>6, <1>7, LayoutIs
  <2> QED
    BY <1>9, <2>1, Zenon
<1>11. Len(x) = k + 20
  BY <1>10, HasLenIs DEF Lays
<1> DEFINE bytes == Received(r).bytes
<1>12. bytes = [i \in 0..(k + 20 - 1) |-> x[i + 1]]
  <2>1. bytes = [i \in 0..(Len(x) - 1) |-> x[i + 1]]
    BY <1>1, <1>8 DEF Received
  <2>2. Len(x) - 1 = k + 20 - 1
    BY <1>7, <1>11
  <2> HIDE DEF bytes
  <2> QED
    BY <2>1, <2>2, Zenon
<1> HIDE DEF bytes
<1>13. \A i \in 0..19 : bytes[i] = x[i + 1]
  BY <1>7, <1>12, SMTT(30)
<1>14. bytes[0] = t /\ bytes[1] = u
  <2>1. /\ 1 \in 1..2 /\ 2 \in 1..2 /\ 0 \in 0..19 /\ 1 \in 0..19
        /\ 0 + 1 = 1 /\ 0 + 2 = 2 /\ 1 + 1 = 2
    OBVIOUS
  <2>2. x[0 + 1] = s[1] /\ x[0 + 2] = s[2]
    BY <1>10, <2>1, Zenon DEF Lays, At
  <2>3. bytes[0] = x[0 + 1] /\ bytes[1] = x[1 + 1]
    BY <1>13, <2>1, Zenon
  <2> QED
    BY <1>5, <2>1, <2>2, <2>3, Zenon
<1>15. Read(bytes, 8, 12) = id
  <2> DEFINE y == Read(bytes, 8, 12)
  <2>1. DOMAIN y = 1..12 /\ y = [i \in 1..12 |-> y[i]]
        /\ \A i \in 1..12 : y[i] = bytes[8 + i - 1]
    BY DEF Read
  <2> HIDE DEF y
  <2>2. ASSUME NEW i \in 1..12 PROVE y[i] = id[i]
    <3>1. 8 + i - 1 \in 0..19 /\ (8 + i - 1) + 1 = 8 + i
      OBVIOUS
    <3>2. x[8 + i] = id[i]
      BY <1>10 DEF Lays, At
    <3>3. y[i] = x[8 + i]
      BY <1>13, <2>1, <3>1, Zenon
    <3> QED
      BY <3>2, <3>3, Zenon
  <2>3. HasLen(y, 12)
    BY <2>1, HasLenIs
  <2>4. y = id
    BY <1>2, <2>2, <2>3, SameSeq
  <2> QED
    BY <2>4 DEF y
<1>16. /\ GetMethodAndClass(bytes) = [method |-> method, class |-> class]
       /\ ProcessMethodAndClass(bytes) = [method |-> method, class |-> class]
  BY <1>3, <1>14 DEF IsType
<1> QED
  BY <1>1, <1>15, <1>16 DEF bytes

-----------------------------------------------------------------------------
(* The messages of the device                                              *)

(* The bytes of a message are those of its layout, and it is accepted, if  *)
(* the layout is short enough.                                             *)
Sound(m, method, class, id, attrs) ==
  Len(MessageLayout(method, class, id, attrs)) - MacAttrLen <= 255 =>
    /\ Read(m.bytes, 0, m.length) = MessageLayout(method, class, id, attrs)
    /\ WellFormed(m.bytes, m.length) /\ IntegrityCorrect(m, "lower") /\ m.length \in Nat

(* A message signed once its attributes are in it is.                      *)
LEMMA SignedIsSound ==
  ASSUME NEW method \in Methods, NEW class \in Classes, NEW id, HasLen(id, 12), NEW attrs,
         NEW m, Built(m, TypeBytes(method, class), id, attrs), NEW g
  PROVE  Sound(SetIntegrity(m, g), method, class, id, attrs)
BY SignedIs, Zenon DEF Sound

(* The methods and classes of the device are some of them.                 *)
LEMMA TypesAre ==
  /\ M_KEEP_ALIVE \in Methods /\ M_EVENT \in Methods /\ M_STORE_STATUS \in Methods
  /\ CL_REQUEST \in Classes /\ CL_SUCCESS \in Classes
BY DEF Methods, Classes, M_KEEP_ALIVE, M_EVENT, M_STORE_STATUS

(* The attributes that every message has.                                  *)
UsernameAttr == Attr(ATTR_USERNAME, Username)
TimestampAttr == Attr(ATTR_TIMESTAMP, U32(Now))
UuidAttr == Attr(ATTR_LYNCPORT_ID, MeantUuid)
CommonAttrs == Append(Append(Append(<< >>, UsernameAttr), TimestampAttr), UuidAttr)

(* stun_add_common_attrs adds them.                                        *)
LEMMA CommonIs ==
  ASSUME NEW g
  PROVE  \E t : Built(AddCommonAttrs(NewMessage(OwnTrId, g), g), t, OwnTrId, CommonAttrs)
<1>1. HasLen(OwnTrId, 12) /\ IsSeq(Username) /\ IsSeq(U32(Now))
  BY ValuesAre, Zenon
<1>2. UuidBytes(Uuid) = MeantUuid /\ IsSeq(MeantUuid)
  BY UuidBytesAre, Zenon
<1> DEFINE m == NewMessage(OwnTrId, g)
           a == AddAttribute(m, ATTR_USERNAME, Username, g)
           b == AddAttribute(a, ATTR_TIMESTAMP, U32(Now), g)
           c == AddAttribute(b, ATTR_LYNCPORT_ID, MeantUuid, g)
<1>3. AddCommonAttrs(m, g) = c
  BY <1>2, Zenon DEF AddCommonAttrs
<1>4. PICK t : Built(m, t, OwnTrId, << >>)
  BY <1>1, BuiltNew, Zenon
<1> HIDE DEF m
<1>5. Built(a, t, OwnTrId, Append(<< >>, UsernameAttr))
  BY <1>1, <1>4, BuiltAdd, Zenon DEF UsernameAttr
<1> HIDE DEF a
<1>6. Built(b, t, OwnTrId, Append(Append(<< >>, UsernameAttr), TimestampAttr))
  BY <1>1, <1>5, BuiltAdd, Zenon DEF TimestampAttr
<1> HIDE DEF b
<1>7. Built(c, t, OwnTrId, CommonAttrs)
  BY <1>2, <1>6, BuiltAdd, Zenon DEF UuidAttr, CommonAttrs
<1> HIDE DEF c
<1>8. Built(AddCommonAttrs(NewMessage(OwnTrId, g), g), t, OwnTrId, CommonAttrs)
  BY <1>3, <1>7, Zenon DEF m
<1> QED
  BY <1>8, Zenon

(* stun_get_keepalive_message.                                             *)
LEMMA KeepaliveIs ==
  ASSUME NEW g
  PROVE  Sound(KeepaliveMessage(g), M_KEEP_ALIVE, CL_REQUEST, OwnTrId, CommonAttrs)
<1> DEFINE m == AddCommonAttrs(NewMessage(OwnTrId, g), g)
           n == SetMethodAndClass(m, M_KEEP_ALIVE, CL_REQUEST)
<1>1. KeepaliveMessage(g) = SetIntegrity(n, g)
  BY Zenon DEF KeepaliveMessage
<1>2. PICK t : Built(m, t, OwnTrId, CommonAttrs)
  BY CommonIs, Zenon
<1> HIDE DEF m
<1>3. Built(n, TypeBytes(M_KEEP_ALIVE, CL_REQUEST), OwnTrId, CommonAttrs)
  BY <1>2, BuiltType, Zenon
<1> HIDE DEF n
<1>4. HasLen(OwnTrId, 12)
  BY ValuesAre, Zenon
<1>5. Sound(SetIntegrity(n, g), M_KEEP_ALIVE, CL_REQUEST, OwnTrId, CommonAttrs)
  BY <1>3, <1>4, TypesAre, SignedIsSound, Zenon
<1> QED
  BY <1>1, <1>5, Zenon

(* stun_get_event_message.                                                 *)
LEMMA EventIs ==
  ASSUME NEW g, NEW name, IsSeq(name), NEW payload, payload # NoText => IsSeq(payload)
  PROVE  Sound(EventMessage(name, payload, g), M_EVENT, CL_REQUEST, OwnTrId,
               IF payload = NoText THEN Append(CommonAttrs, Attr(ATTR_NAME, name))
               ELSE Append(Append(CommonAttrs, Attr(ATTR_NAME, name)),
                           Attr(ATTR_PAYLOAD, payload)))
<1> DEFINE m == AddCommonAttrs(NewMessage(OwnTrId, g), g)
           n == SetMethodAndClass(m, M_EVENT, CL_REQUEST)
           named == AddAttribute(n, ATTR_NAME, name, g)
           full == AddAttribute(named, ATTR_PAYLOAD, payload, g)
           some == Append(CommonAttrs, Attr(ATTR_NAME, name))
           all == Append(some, Attr(ATTR_PAYLOAD, payload))
           type == TypeBytes(M_EVENT, CL_REQUEST)
<1>1. EventMessage(name, payload, g)
        = SetIntegrity(IF payload = NoText THEN named ELSE full, g)
  BY Zenon DEF EventMessage
<1>2. PICK t : Built(m, t, OwnTrId, CommonAttrs)
  BY CommonIs, Zenon
<1> HIDE DEF m
<1>3. Built(n, type, OwnTrId, CommonAttrs)
  BY <1>2, BuiltType, Zenon
<1> HIDE DEF n
<1>4. Built(named, type, OwnTrId, some)
  BY <1>3, BuiltAdd, Zenon
<1> HIDE DEF named, some
<1>5. HasLen(OwnTrId, 12)
  BY ValuesAre, Zenon
<1>6. CASE payload = NoText
  <2>1. Sound(SetIntegrity(named, g), M_EVENT, CL_REQUEST, OwnTrId, some)
    BY <1>4, <1>5, TypesAre, SignedIsSound, Zenon
  <2> QED
    BY <1>1, <1>6, <2>1, Zenon DEF some
<1>7. CASE payload # NoText
  <2>1. Built(full, type, OwnTrId, all)
    BY <1>4, <1>7, BuiltAdd, Zenon
  <2> HIDE DEF full, all
  <2>2. Sound(SetIntegrity(full, g), M_EVENT, CL_REQUEST, OwnTrId, all)
    BY <2>1, <1>5, TypesAre, SignedIsSound, Zenon
  <2> QED
    BY <1>1, <1>7, <2>2, Zenon DEF some, all
<1> QED
  BY <1>6, <1>7, Zenon

(* stun_get_status_store_message.                                          *)
LEMMA StatusStoreIs ==
  ASSUME NEW g, AreComponents(device.status.items)
  PROVE  Sound(StatusStoreMessage(g), M_STORE_STATUS, CL_REQUEST, OwnTrId,
               Append(CommonAttrs,
                      Attr(ATTR_ARGUMENTS, BuildArguments(device.status.items, g))))
<1> DEFINE m == AddCommonAttrs(NewMessage(OwnTrId, g), g)
           n == SetMethodAndClass(m, M_STORE_STATUS, CL_REQUEST)
           value == BuildArguments(device.status.items, g)
           full == AddAttribute(n, ATTR_ARGUMENTS, value, g)
           all == Append(CommonAttrs, Attr(ATTR_ARGUMENTS, value))
           type == TypeBytes(M_STORE_STATUS, CL_REQUEST)
<1>1. StatusStoreMessage(g) = SetIntegrity(full, g)
  BY Zenon DEF StatusStoreMessage
<1>2. PICK t : Built(m, t, OwnTrId, CommonAttrs)
  BY CommonIs, Zenon
<1> HIDE DEF m
<1>3. Built(n, type, OwnTrId, CommonAttrs)
  BY <1>2, BuiltType, Zenon
<1> HIDE DEF n
<1>4. IsSeq(value) /\ HasLen(OwnTrId, 12)
  BY ValuesAre, Zenon
<1> HIDE DEF value
<1>5. Built(full, type, OwnTrId, all)
  BY <1>3, <1>4, BuiltAdd, Zenon
<1> HIDE DEF full, all
<1>6. Sound(SetIntegrity(full, g), M_STORE_STATUS, CL_REQUEST, OwnTrId, all)
  BY <1>4, <1>5, TypesAre, SignedIsSound, Zenon
<1> QED
  BY <1>1, <1>6, Zenon DEF all, value

(* A list of no attributes, and of one.                                    *)
LEMMA FewAttributes ==
  ASSUME NEW m, NEW g
  PROVE  /\ AddAttributes(m, << >>, g) = m
         /\ \A a : AddAttributes(m, <<a>>, g) = AddAttribute(m, a.type, a.value, g)
<1>1. AddAttributes(m, << >>, g) = m
  <2> DEFINE Solves(f) == f = [n \in 0..0 |->
               IF n = 0 THEN m ELSE AddAttribute(f[n - 1], << >>[n].type, << >>[n].value, g)]
             put == CHOOSE f : Solves(f)
             first == [n \in 0..0 |-> m]
  <2>1. Solves(first)
    <3>1. \A n \in 0..0 : n = 0
      OBVIOUS
    <3> QED
      BY <3>1, Zenon
  <2>2. Solves(put)
    BY <2>1, Zenon
  <2>3. put[0] = m
    BY <2>2
  <2>4. AddAttributes(m, << >>, g) = put[0]
    BY DEF AddAttributes
  <2> QED
    BY <2>3, <2>4, Zenon
<1>2. ASSUME NEW a
      PROVE  AddAttributes(m, <<a>>, g) = AddAttribute(m, a.type, a.value, g)
  <2> DEFINE Solves(f) == f = [n \in 0..1 |->
               IF n = 0 THEN m ELSE AddAttribute(f[n - 1], <<a>>[n].type, <<a>>[n].value, g)]
             put == CHOOSE f : Solves(f)
             more == AddAttribute(m, a.type, a.value, g)
             both == [n \in 0..1 |-> IF n = 0 THEN m ELSE more]
  <2>1. Solves(both)
    <3>1. ASSUME NEW n \in 0..1, n # 0
          PROVE  n - 1 = 0 /\ <<a>>[n] = a
      <4>1. n = 1 /\ n - 1 = 0
        BY <3>1
      <4>2. <<a>>[1] = a
        OBVIOUS
      <4> QED
        BY <4>1, <4>2, Zenon
    <3>2. both[0] = m
      OBVIOUS
    <3> HIDE DEF both
    <3>3. ASSUME NEW n \in 0..1, n # 0
          PROVE  AddAttribute(both[n - 1], <<a>>[n].type, <<a>>[n].value, g) = more
      <4>1. both[n - 1] = m /\ <<a>>[n] = a
        BY <3>1, <3>2, <3>3, Zenon
      <4> QED
        BY <4>1, Zenon
    <3>4. both = [n \in 0..1 |->
                    IF n = 0 THEN m
                    ELSE AddAttribute(both[n - 1], <<a>>[n].type, <<a>>[n].value, g)]
      BY <3>3, Zenon DEF both
    <3> QED
      BY <3>4
  <2>2. Solves(put)
    BY <2>1, Zenon
  <2>3. put[0] = m /\ put[1] = AddAttribute(put[0], a.type, a.value, g)
    <3>1. 0 \in 0..1 /\ 1 \in 0..1 /\ 1 # 0 /\ 1 - 1 = 0 /\ <<a>>[1] = a
      OBVIOUS
    <3> QED
      BY <2>2, <3>1, Zenon
  <2>4. AddAttributes(m, <<a>>, g) = put[1]
    BY DEF AddAttributes
  <2> QED
    BY <2>3, <2>4, Zenon
<1> QED
  BY <1>1, <1>2

(* stun_get_success_response, with no attribute of its own or with one.    *)
LEMMA ResponseIs ==
  ASSUME NEW g, NEW r \in Requests, NEW attrs, NEW all,
         \/ attrs = << >> /\ all = CommonAttrs
         \/ \E a : attrs = <<a>> /\ IsSeq(a.value) /\ a = Attr(a.type, a.value)
                   /\ all = Append(CommonAttrs, a)
  PROVE  Sound(SuccessResponse(Received(r), attrs, g), r.method, CL_SUCCESS, r.trId, all)
<1> DEFINE m == AddCommonAttrs(NewMessage(OwnTrId, g), g)
           full == AddAttributes(m, attrs, g)
           typed == SetMethodAndClass(full, r.method, CL_SUCCESS)
           named == [typed EXCEPT !.bytes = Write(@, 8, r.trId)]
           type == TypeBytes(r.method, CL_SUCCESS)
<1>1. SuccessResponse(Received(r), attrs, g) = SetIntegrity(named, g)
  <2>1. /\ GetMethodAndClass(Received(r).bytes).method = r.method
        /\ Read(Received(r).bytes, 8, 12) = r.trId
    <3>1. PICK b : b = Received(r).bytes
      OBVIOUS
    <3>2. PICK read : read = [method |-> r.method, class |-> r.class]
      OBVIOUS
    <3>3. GetMethodAndClass(b) = read /\ Read(b, 8, 12) = r.trId
      BY <3>1, <3>2, HeadersAreRead, Zenon
    <3>4. read.method = r.method
      BY <3>2
    <3> QED
      BY <3>1, <3>3, <3>4, Zenon
  <2> QED
    BY <2>1, Zenon DEF SuccessResponse
<1>2. PICK t : Built(m, t, OwnTrId, CommonAttrs)
  BY CommonIs, Zenon
<1> HIDE DEF m
<1>3. Built(full, t, OwnTrId, all)
  <2>1. CASE attrs = << >> /\ all = CommonAttrs
    BY <1>2, <2>1, FewAttributes, Zenon
  <2>2. ASSUME NEW a, attrs = <<a>> /\ IsSeq(a.value) /\ a = Attr(a.type, a.value)
                      /\ all = Append(CommonAttrs, a)
        PROVE  Built(full, t, OwnTrId, all)
    <3>1. full = AddAttribute(m, a.type, a.value, g)
      BY <2>2, FewAttributes, Zenon
    <3>2. Built(AddAttribute(m, a.type, a.value, g), t, OwnTrId,
                Append(CommonAttrs, Attr(a.type, a.value)))
      BY <1>2, <2>2, BuiltAdd, Zenon
    <3> QED
      BY <2>2, <3>1, <3>2, Zenon
  <2> QED
    BY <2>1, <2>2, Zenon
<1> HIDE DEF full
<1>4. Built(typed, type, OwnTrId, all)
  BY <1>3, BuiltType, Zenon
<1> HIDE DEF typed
<1>5. HasLen(r.trId, 12) /\ r.method \in Methods
  BY ValuesAre, MessagesAssumption, Zenon
<1>6. Built(named, type, r.trId, all)
  BY <1>4, <1>5, BuiltId
<1> HIDE DEF named
<1>7. Sound(SetIntegrity(named, g), r.method, CL_SUCCESS, r.trId, all)
  BY <1>5, <1>6, TypesAre, SignedIsSound, Zenon
<1> QED
  BY <1>1, <1>7, Zenon

-----------------------------------------------------------------------------
(* What is meant                                                           *)

(* Three attributes followed by no other, by one and by two.               *)
Extends(s, three) ==
  /\ s \o << >> = three
  /\ \A d : s \o <<d>> = Append(three, d)
  /\ \A d : s \o (<<d>> \o << >>) = Append(three, d)
  /\ \A d, e : s \o (<<d>> \o <<e>>) = Append(Append(three, d), e)

(* The sequence of the three is made by appending them.                    *)
LEMMA MoreAttributes ==
  ASSUME NEW a, NEW b, NEW c, NEW three, three = Append(Append(Append(<< >>, a), b), c)
  PROVE  Extends(<<a, b, c>>, three)
<1>1. three = <<a, b, c>>
  <2> DEFINE S == {a, b, c}
             one == Append(<< >>, a)
             two == Append(one, b)
             tuple == <<a, b, c>>
  <2>1. << >> \in Seq(S) /\ Len(<< >>) = 0 /\ a \in S /\ b \in S /\ c \in S
        /\ tuple \in Seq(S) /\ Len(tuple) = 3
        /\ tuple[1] = a /\ tuple[2] = b /\ tuple[3] = c
    OBVIOUS
  <2>2. three = Append(two, c)
    OBVIOUS
  <2> HIDE DEF S, tuple
  <2>3. one \in Seq(S) /\ Len(one) = 1 /\ one[1] = a
    BY <2>1, AppendProperties
  <2> HIDE DEF one
  <2>4. two \in Seq(S) /\ Len(two) = 2 /\ two[1] = a /\ two[2] = b
    <3>1. /\ two \in Seq(S) /\ Len(two) = Len(one) + 1 /\ two[Len(one) + 1] = b
          /\ \A i \in 1..Len(one) : two[i] = one[i]
      <4>1. one \in Seq(S) /\ b \in S
        BY <2>1, <2>3
      <4> QED
        BY <4>1, AppendProperties
    <3> HIDE DEF two
    <3> QED
      BY <2>3, <3>1
  <2> HIDE DEF two
  <2>5. three \in Seq(S) /\ Len(three) = 3 /\ three[1] = a /\ three[2] = b /\ three[3] = c
    BY <2>1, <2>2, <2>4, AppendProperties
  <2>6. HasLen(three, 3) /\ HasLen(tuple, 3)
    BY <2>1, <2>5, SeqIs DEF HasLen
  <2>7. \A i \in 1..3 : three[i] = tuple[i]
    BY <2>1, <2>5
  <2>8. three = tuple
    BY <2>6, <2>7, SameSeq
  <2> QED
    BY <2>8 DEF tuple
<1>2. ASSUME NEW d, NEW e
      PROVE  /\ three \o << >> = three
             /\ three \o <<d>> = Append(three, d)
             /\ <<d>> \o << >> = <<d>>
             /\ three \o (<<d>> \o <<e>>) = Append(Append(three, d), e)
  <2> DEFINE S == {a, b, c, d, e}
  <2>1. three \in Seq(S) /\ <<d>> \in Seq(S) /\ <<e>> \in Seq(S) /\ d \in S /\ e \in S
    BY <1>1
  <2> HIDE DEF S
  <2>2. three \o << >> = three /\ <<d>> \o << >> = <<d>>
    BY <2>1, ConcatEmptySeq
  <2>3. Append(three, d) = three \o <<d>> /\ Append(three, d) \in Seq(S)
    BY <2>1, AppendIsConcat, AppendProperties
  <2>4. Append(Append(three, d), e) = Append(three, d) \o <<e>>
    BY <2>1, <2>3, AppendIsConcat
  <2>5. (three \o <<d>>) \o <<e>> = three \o (<<d>> \o <<e>>)
    BY <2>1, ConcatAssociative
  <2> QED
    BY <2>2, <2>3, <2>4, <2>5, Zenon
<1> QED
  BY <1>1, <1>2, Zenon DEF Extends

(* The attributes meant, of each message.                                  *)
LEMMA IntendedIs ==
  /\ call.what \in {"keepalive", "response"} => Intended = CommonAttrs
  /\ call.what \in {"store", "status"} =>
       Intended = Append(CommonAttrs, Attr(ATTR_ARGUMENTS,
                                           BuildArguments(device.status.items, call.garbage)))
  /\ call.what = "event" =>
       /\ EventPayload = << >> => Intended = Append(CommonAttrs, Attr(ATTR_NAME, call.name))
       /\ \A a : EventPayload = <<a>> =>
            Intended = Append(Append(CommonAttrs, Attr(ATTR_NAME, call.name)), a)
<1> DEFINE common == <<UsernameAttr, TimestampAttr, UuidAttr>>
           status == Attr(ATTR_ARGUMENTS, BuildArguments(device.status.items, call.garbage))
           name == Attr(ATTR_NAME, call.name)
<1>1. Intended =
        common \o CASE call.what = "event" -> <<name>> \o EventPayload
                    [] call.what \in {"store", "status"} -> <<status>>
                    [] OTHER -> << >>
  BY DEF Intended, UsernameAttr, TimestampAttr, UuidAttr, MeantUuid
<1>2. CommonAttrs = Append(Append(Append(<< >>, UsernameAttr), TimestampAttr), UuidAttr)
  BY DEF CommonAttrs
<1> HIDE DEF status, name
<1>8. Extends(common, CommonAttrs)
  BY <1>2, MoreAttributes, Zenon
<1> HIDE DEF common
<1>3. ASSUME call.what \in {"keepalive", "response"} PROVE Intended = CommonAttrs
  <2>1. Intended = common \o << >>
    BY <1>1, <1>3
  <2> QED
    BY <1>8, <2>1, Zenon DEF Extends
<1>4. ASSUME call.what \in {"store", "status"} PROVE Intended = Append(CommonAttrs, status)
  <2>1. Intended = common \o <<status>>
    BY <1>1, <1>4
  <2> QED
    BY <1>8, <2>1, Zenon DEF Extends
<1>5. ASSUME call.what = "event" PROVE Intended = common \o (<<name>> \o EventPayload)
  BY <1>1, <1>5
<1>6. ASSUME call.what = "event", EventPayload = << >>
      PROVE  Intended = Append(CommonAttrs, name)
  BY <1>5, <1>6, <1>8, Zenon DEF Extends
<1>7. ASSUME call.what = "event", NEW a, EventPayload = <<a>>
      PROVE  Intended = Append(Append(CommonAttrs, name), a)
  BY <1>5, <1>7, <1>8, Zenon DEF Extends
<1> QED
  BY <1>3, <1>4, <1>6, <1>7, Zenon DEF status, name

(* setup() may end with no status at all, but what there is are components.*)
LEMMA StatusIsComponents == ModelInv => AreComponents(device.status.items)
<1> SUFFICES ASSUME ModelInv PROVE AreComponents(device.status.items)
  OBVIOUS
<1>1. device.status \in ListsOf(StatusOptions)
  BY DEF ModelInv, Devices
<1>2. device.status.items \in Seq(StatusOptions)
  BY <1>1 DEF ListsOf
<1>3. \A c \in StatusOptions : IsComponent(c)
  BY ModelAssumption, Zenon
<1> DEFINE cs == device.status.items
<1> HIDE DEF cs
<1>4. cs \in Seq(StatusOptions)
  BY <1>2 DEF cs
<1>5. IsSeq(cs)
  BY <1>4, SeqIs, Zenon
<1>6. \A i \in 1..Len(cs) : cs[i] \in StatusOptions
  BY <1>4
<1> QED
  BY <1>3, <1>5, <1>6, Zenon DEF cs, IsSeq, AreComponents

(* The last message is sound, as what it is meant to be.                   *)
WireIsSound ==
  IsSent => Sound(wire, IntendedType.method, IntendedType.class,
                  IF IsResponse THEN call.to.trId ELSE OwnTrId, Intended)

(* ... when it is one of these.                                            *)
SoundWhen ==
  LET status == Attr(ATTR_ARGUMENTS, BuildArguments(device.status.items, call.garbage))
      name == Attr(ATTR_NAME, call.name) IN
  /\ call.what = "none" => WireIsSound
  /\ call.what = "keepalive" /\ Sound(wire, M_KEEP_ALIVE, CL_REQUEST, OwnTrId, CommonAttrs)
       => WireIsSound
  /\ call.what = "store"
       /\ Sound(wire, M_STORE_STATUS, CL_REQUEST, OwnTrId, Append(CommonAttrs, status))
       => WireIsSound
  /\ call.what = "response"
       /\ Sound(wire, call.to.method, CL_SUCCESS, call.to.trId, CommonAttrs) => WireIsSound
  /\ call.what = "status"
       /\ Sound(wire, call.to.method, CL_SUCCESS, call.to.trId, Append(CommonAttrs, status))
       => WireIsSound
  /\ call.what = "event" /\ EventPayload = << >>
       /\ Sound(wire, M_EVENT, CL_REQUEST, OwnTrId, Append(CommonAttrs, name)) => WireIsSound
  /\ \A a : call.what = "event" /\ EventPayload = <<a>>
       /\ Sound(wire, M_EVENT, CL_REQUEST, OwnTrId, Append(Append(CommonAttrs, name), a))
       => WireIsSound

(* These are all there are.                                                *)
LEMMA SoundCases == SoundWhen
<1> DEFINE status == Attr(ATTR_ARGUMENTS, BuildArguments(device.status.items, call.garbage))
           name == Attr(ATTR_NAME, call.name)
<1>1. ASSUME call.what = "none" PROVE WireIsSound
  BY <1>1 DEF WireIsSound, IsSent
<1>2. call.what = "keepalive" =>
        ~IsResponse /\ IntendedType.method = M_KEEP_ALIVE /\ IntendedType.class = CL_REQUEST
  BY DEF IsResponse, IntendedType
<1>3. call.what = "store" =>
        ~IsResponse /\ IntendedType.method = M_STORE_STATUS /\ IntendedType.class = CL_REQUEST
  BY DEF IsResponse, IntendedType
<1>4. call.what \in {"response", "status"} =>
        IsResponse /\ IntendedType.method = call.to.method /\ IntendedType.class = CL_SUCCESS
  BY DEF IsResponse, IntendedType
<1>5. call.what = "event" =>
        ~IsResponse /\ IntendedType.method = M_EVENT /\ IntendedType.class = CL_REQUEST
  BY DEF IsResponse, IntendedType
<1>6. /\ call.what = "keepalive" => Intended = CommonAttrs
      /\ call.what = "response" => Intended = CommonAttrs
      /\ call.what = "store" => Intended = Append(CommonAttrs, status)
      /\ call.what = "status" => Intended = Append(CommonAttrs, status)
  BY IntendedIs
<1>7. /\ call.what = "event" /\ EventPayload = << >> => Intended = Append(CommonAttrs, name)
      /\ \A a : call.what = "event" /\ EventPayload = <<a>> =>
           Intended = Append(Append(CommonAttrs, name), a)
  BY IntendedIs
<1>8. call.what \in {"response", "status"} <=> call.what = "response" \/ call.what = "status"
  OBVIOUS
<1> HIDE DEF status, name
<1> QED
  BY <1>1, <1>2, <1>3, <1>4, <1>5, <1>6, <1>7, <1>8, Zenon DEF SoundWhen, WireIsSound, status, name

-----------------------------------------------------------------------------
(* The lists, and the descriptor                                           *)

(* Only setup() changes the model of the device.                           *)
LEMMA StepCases ==
  ASSUME [Next]_vars
  PROVE  (Setup /\ UNCHANGED <<call, wire, learnt>>) \/ UNCHANGED <<device, added, descriptor>>
BY DEF Next, vars, modelVars, Release, SendKeepalive, StoreStatus, SendEvent, ProcessMessage

(* The inductive invariant of the lists.                                   *)
LEMMA ModelInvariant == Spec => []ModelInv
<1>1. Init => ModelInv
  BY ModelInvInit DEF Init
<1>2. ModelInv /\ [Next]_vars => ModelInv'
  <2> SUFFICES ASSUME ModelInv, [Next]_vars PROVE ModelInv'
    OBVIOUS
  <2>1. CASE Setup
    BY <2>1, ModelInvNext
  <2>2. CASE UNCHANGED <<device, added, descriptor>>
    BY <2>2 DEF ModelInv
  <2> QED
    BY <2>1, <2>2, StepCases
<1> QED
  BY <1>1, <1>2, PTL DEF Spec

(* A list of any width and first capacity holds what setup() added to it,  *)
(* in order, unless its capacity wrapped around, which takes half of what  *)
(* its counter can count (lh_list_add).                                    *)
THEOREM ListsAlwaysGrow == Spec => []ListsGrow
<1>1. ModelInv => ListsGrow
  BY ModelInvLists
<1> QED
  BY <1>1, ModelInvariant, PTL

(* The descriptor fits in the memory allocated for it, for any model whose *)
(* strings are counted, or are no longer than 1089 characters              *)
(* (get_descriptor_len, generate_descriptor).                              *)
THEOREM DescriptorAlwaysFits ==
  ASSUME UnnamedAreShort
  PROVE  Spec => []DescriptorFits
<1>1. Init => DescriptorFits
  BY ModelInvInit DEF Init
<1>2. ModelInv /\ DescriptorFits /\ [Next]_vars => DescriptorFits'
  <2> SUFFICES ASSUME ModelInv, DescriptorFits, [Next]_vars PROVE DescriptorFits'
    OBVIOUS
  <2>1. CASE Setup
    BY <2>1, DescriptorNext
  <2>2. CASE UNCHANGED <<device, added, descriptor>>
    BY <2>2 DEF DescriptorFits
  <2> QED
    BY <2>1, <2>2, StepCases
<1> QED
  BY <1>1, <1>2, ModelInvariant, PTL DEF Spec


-----------------------------------------------------------------------------
(* The steps                                                               *)

(* The message is sound; nothing was sent while setup() ran; the           *)
(* components of an event are some that the user's code gave.              *)
WireInv ==
  /\ WireIsSound
  /\ phase = "setup" => call = NoCall
  /\ call.what = "event" => call.components = NoComponents \/ AreComponents(call.components)

(* NoCall is none of the calls.                                            *)
LEMMA NoCallIs == call = NoCall => call.what = "none"
BY DEF NoCall

(* Nothing has been sent at first.                                         *)
LEMMA WireInvInit == Init => WireInv
<1> SUFFICES ASSUME Init PROVE WireInv
  OBVIOUS
<1>1. call = NoCall /\ call.what = "none"
  BY NoCallIs DEF Init
<1>2. WireIsSound
  BY <1>1, SoundCases, Zenon DEF SoundWhen
<1> QED
  BY <1>1, <1>2 DEF WireInv

(* A step after which there is no message, or the one there was.           *)
LEMMA NothingSent ==
  ASSUME call' = NoCall
  PROVE  WireInv'
<1>1. call'.what = "none"
  BY DEF NoCall
<1>2. SoundWhen'
  BY SoundCases, PTL
<1>3. WireIsSound'
  BY <1>1, <1>2, Zenon DEF SoundWhen
<1> QED
  BY <1>1, <1>3 DEF WireInv

(* A step that changes nothing.                                            *)
LEMMA NothingChanged ==
  ASSUME WireInv, UNCHANGED vars
  PROVE  WireInv'
<1>1. UNCHANGED <<call, wire, device, phase>>
  BY DEF vars, modelVars
<1> QED
  BY <1>1 DEF WireInv, WireIsSound, IsSent, IsResponse, IntendedType, Intended, EventPayload

(* The steps that send.                                                    *)
LEMMA KeepaliveSent ==
  ASSUME NEW g, SendKeepalive(g)
  PROVE  WireInv'
<1>1. /\ phase' = "running" /\ wire' = KeepaliveMessage(g)
      /\ call' = [what |-> "keepalive", garbage |-> g]
  BY DEF SendKeepalive, Idle, Sends, modelVars
<1>2. call'.what = "keepalive" /\ call'.what # "event"
  BY <1>1
<1>3. SoundWhen'
  BY SoundCases, PTL
<1>4. Sound(wire', M_KEEP_ALIVE, CL_REQUEST, OwnTrId, CommonAttrs)
  BY <1>1, KeepaliveIs, Zenon
<1>5. WireIsSound'
  BY <1>2, <1>3, <1>4, Zenon DEF SoundWhen
<1> QED
  BY <1>1, <1>2, <1>5 DEF WireInv

(* lh_store_status: with a list of status components, or without one.      *)
LEMMA StatusStored ==
  ASSUME ModelInv, NEW g, StoreStatus(g)
  PROVE  WireInv'
<1>1. CASE device.status = NoList
  BY <1>1, NothingSent DEF StoreStatus, SendsNothing
<1>2. CASE device.status # NoList
  <2>1. /\ phase' = "running" /\ device' = device /\ wire' = StatusStoreMessage(g)
        /\ call' = [what |-> "store", garbage |-> g]
    BY <1>2 DEF StoreStatus, Idle, Sends
  <2>2. call'.what = "store" /\ call'.what # "event" /\ call'.garbage = g
    BY <2>1
  <2>3. SoundWhen'
    BY SoundCases, PTL
  <2> DEFINE status == Attr(ATTR_ARGUMENTS, BuildArguments(device.status.items, g))
  <2>4. Sound(wire', M_STORE_STATUS, CL_REQUEST, OwnTrId, Append(CommonAttrs, status))
    BY <2>1, StatusIsComponents, StatusStoreIs, Zenon
  <2>5. WireIsSound'
    BY <2>1, <2>2, <2>3, <2>4, Zenon DEF SoundWhen
  <2> QED
    BY <2>1, <2>2, <2>5 DEF WireInv
<1> QED
  BY <1>1, <1>2

(* lh_send_event: with a text, with components or without a payload.       *)
LEMMA EventSent ==
  ASSUME NEW name \in EventNames, NEW text \in Texts, NEW cs \in Payloads, NEW g,
         SendEvent(name, text, cs, g)
  PROVE  WireInv'
<1> DEFINE payload == IF text # NoText THEN text
                      ELSE IF cs = NoComponents THEN NoText ELSE StructuredPayload(cs)
           some == Append(CommonAttrs, Attr(ATTR_NAME, name))
<1>1. /\ phase' = "running" /\ wire' = EventMessage(name, payload, g)
      /\ call' = [what |-> "event", name |-> name, text |-> text, components |-> cs,
                  garbage |-> g]
  BY DEF SendEvent, Idle, Sends, modelVars
<1>2. /\ call'.what = "event" /\ call'.name = name /\ call'.text = text
      /\ call'.components = cs
  BY <1>1
<1>3. SoundWhen'
  BY SoundCases, PTL
<1>4. IsSeq(name) /\ (text # NoText => IsSeq(text))
  BY ValuesAre, Zenon
<1>5. cs = NoComponents \/ AreComponents(cs)
  BY MessagesAssumption, Zenon
<1>6. ASSUME cs # NoComponents
      PROVE  IsSeq(StructuredPayload(cs)) /\ StructuredPayload(cs) # NoText
  <2>1. IsSeq(StructuredPayload(cs))
    BY <1>5, <1>6, ValuesAre, Zenon
  <2>2. ASSUME StructuredPayload(cs) = NoText PROVE FALSE
    <3>1. NoText[1] = -1 /\ 1 \in DOMAIN NoText
      BY DEF NoText
    <3>2. 1 \in DOMAIN StructuredPayload(cs) /\ StructuredPayload(cs)[1] = -1
      BY <2>2, <3>1, Zenon
    <3>3. StructuredPayload(cs)[1] = 91
      BY <3>2 DEF StructuredPayload
    <3> QED
      BY <3>2, <3>3
  <2> QED
    BY <2>1, <2>2
<1>7. payload # NoText => IsSeq(payload)
  BY <1>4, <1>6
<1>8. EventPayload' = IF payload = NoText THEN << >> ELSE <<Attr(ATTR_PAYLOAD, payload)>>
  <2>1. EventPayload' =
          IF text # NoText THEN <<Attr(ATTR_PAYLOAD, text)>>
          ELSE IF cs = NoComponents THEN << >>
          ELSE <<Attr(ATTR_PAYLOAD, StructuredPayload(cs))>>
    BY <1>2 DEF EventPayload
  <2> QED
    BY <1>6, <2>1, Zenon
<1> HIDE DEF payload
<1>9. Sound(wire', M_EVENT, CL_REQUEST, OwnTrId,
            IF payload = NoText THEN some ELSE Append(some, Attr(ATTR_PAYLOAD, payload)))
  BY <1>1, <1>4, <1>7, EventIs, Zenon
<1>10. WireIsSound'
  BY <1>2, <1>3, <1>8, <1>9, Zenon DEF SoundWhen
<1> QED
  BY <1>1, <1>2, <1>5, <1>10 DEF WireInv

(* process_messages: a response, a status or nothing is sent.              *)
LEMMA MessageProcessed ==
  ASSUME ModelInv, NEW r \in Requests, NEW g, ProcessMessage(r, g)
  PROVE  WireInv'
<1>1. phase = "running" /\ device' = device
  BY DEF ProcessMessage, Idle
<1>2. SoundWhen'
  BY SoundCases, PTL
<1>3. CASE call' = NoCall
  BY <1>3, NothingSent
<1>4. CASE /\ phase' = phase /\ call' = [what |-> "response", to |-> r, garbage |-> g]
           /\ wire' = SuccessResponse(Received(r), << >>, g)
  <2>1. call'.what = "response" /\ call'.what # "event" /\ call'.to = r
    BY <1>4
  <2>2. Sound(wire', r.method, CL_SUCCESS, r.trId, CommonAttrs)
    BY <1>4, ResponseIs, Zenon
  <2>3. WireIsSound'
    BY <1>2, <2>1, <2>2, Zenon DEF SoundWhen
  <2> QED
    BY <1>1, <1>4, <2>1, <2>3 DEF WireInv
<1> DEFINE value == BuildArguments(device.status.items, g)
           attr == Attr(ATTR_ARGUMENTS, value)
<1>5. CASE /\ phase' = phase /\ call' = [what |-> "status", to |-> r, garbage |-> g]
           /\ wire' = SuccessResponse(Received(r), <<attr>>, g)
  <2>1. call'.what = "status" /\ call'.what # "event" /\ call'.to = r /\ call'.garbage = g
    BY <1>5
  <2>2. IsSeq(value)
    BY StatusIsComponents, ValuesAre, Zenon
  <2> HIDE DEF value
  <2>3. IsSeq(attr.value) /\ attr = Attr(attr.type, attr.value)
    BY <2>2 DEF Attr
  <2> HIDE DEF attr
  <2>4. Sound(wire', r.method, CL_SUCCESS, r.trId, Append(CommonAttrs, attr))
    BY <1>5, <2>3, ResponseIs, Zenon
  <2>5. WireIsSound'
    BY <1>1, <1>2, <2>1, <2>4, Zenon DEF SoundWhen, attr, value
  <2> QED
    BY <1>1, <1>5, <2>1, <2>5 DEF WireInv
<1> HIDE DEF attr
<1>6. \/ HandleError(r) \/ HandleAction(r, g) \/ HandleStatusRequest(r, g)
      \/ SendsNothing
  BY DEF ProcessMessage
<1>7. CASE HandleError(r) \/ SendsNothing
  BY <1>3, <1>7 DEF HandleError, SendsNothing
<1>8. CASE HandleAction(r, g)
  BY <1>3, <1>4, <1>8 DEF HandleAction, SendsNothing, Sends
<1>9. CASE HandleStatusRequest(r, g)
  BY <1>3, <1>5, <1>9 DEF HandleStatusRequest, SendsNothing, Sends, attr
<1> QED
  BY <1>6, <1>7, <1>8, <1>9

(* Every step keeps the invariant.                                         *)
LEMMA WireInvNext ==
  ASSUME ModelInv, WireInv, [Next]_vars
  PROVE  WireInv'
<1>1. CASE Setup /\ UNCHANGED <<call, wire, learnt>>
  <2>1. phase = "setup"
    BY <1>1 DEF Setup, AddStatusComponent, AddAction, AddEvent, GenerateDescriptor
  <2> QED
    BY <1>1, <2>1, NothingSent DEF WireInv
<1>2. CASE Release
  BY <1>2, NothingSent DEF Release
<1>3. ASSUME NEW g \in Garbage, SendKeepalive(g) PROVE WireInv'
  BY <1>3, KeepaliveSent, Zenon
<1>4. ASSUME NEW g \in Garbage, StoreStatus(g) PROVE WireInv'
  BY <1>4, StatusStored, Zenon
<1>5. ASSUME NEW g \in Garbage, NEW name \in EventNames, NEW text \in Texts,
             NEW cs \in Payloads, SendEvent(name, text, cs, g)
      PROVE  WireInv'
  BY <1>5, EventSent, Zenon
<1>6. ASSUME NEW g \in Garbage, NEW r \in Requests, ProcessMessage(r, g) PROVE WireInv'
  BY <1>6, MessageProcessed, Zenon
<1>7. CASE UNCHANGED vars
  BY <1>7, NothingChanged
<1> QED
  BY <1>1, <1>2, <1>3, <1>4, <1>5, <1>6, <1>7 DEF Next

(* The inductive invariant of the messages.                                *)
LEMMA WireInvariant == Spec => []WireInv
<1>1. Init => WireInv
  BY WireInvInit
<1>2. ModelInv /\ WireInv /\ [Next]_vars => WireInv'
  BY WireInvNext
<1> QED
  BY <1>1, <1>2, ModelInvariant, PTL DEF Spec

-----------------------------------------------------------------------------
(* What is sent                                                            *)

(* Every message that fits is laid out as it is meant to be, for any       *)
(* account, device and status, and whatever malloc and realloc leave in    *)
(* memory (stun_message.c).                                                *)
THEOREM WireAlwaysAsLaidOut == Spec => []WireAsLaidOut
<1>1. WireInv => WireAsLaidOut
  BY Zenon DEF WireInv, WireIsSound, Sound, WireAsLaidOut, Fits, Meant
<1> QED
  BY <1>1, WireInvariant, PTL

(* The device itself would accept every message that fits: nothing is      *)
(* written after signing, and the length that is signed is the one that the*)
(* message has in the end (stun_set_message_integrity,                     *)
(* stun_check_integrity).                                                  *)
THEOREM IntegrityAlwaysVerifies == Spec => []IntegrityVerifies
<1>1. WireInv => IntegrityVerifies
  BY Zenon DEF WireInv, WireIsSound, Sound, IntegrityVerifies, Fits, Meant
<1> QED
  BY <1>1, WireInvariant, PTL

(* The text of the payload of an event fits in the memory allocated for it,*)
(* for any components (build_structured_payload).                          *)
THEOREM PayloadAlwaysFits == Spec => []PayloadFits
<1>1. WireInv => PayloadFits
  BY SizesAre, Zenon DEF WireInv, PayloadFits
<1> QED
  BY <1>1, WireInvariant, PTL

-----------------------------------------------------------------------------
(* Finding an attribute                                                    *)

(* Where the loop of stun_get_attribute goes on after an attribute.        *)
After(bytes, l, p) == LET len == WordAt(bytes, l, p + 2) IN p + len + Padding(len) + 4

(* One round of it, if the rest of it is given by f.                       *)
Round(f, bytes, l, code, p) ==
  IF p >= l THEN 0
  ELSE IF WordAt(bytes, l, p) = code THEN p ELSE f[After(bytes, l, p)]

(* It gets on by at least four bytes.                                      *)
LEMMA AfterIs ==
  ASSUME NEW l \in Nat, NEW bytes, \A i \in 0..(l - 1) : bytes[i] \in Nat, NEW p \in Nat
  PROVE  After(bytes, l, p) \in Nat /\ After(bytes, l, p) >= p + 4
<1>1. PICK len \in Nat : len = WordAt(bytes, l, p + 2)
  <2>1. CASE (p + 2) + 2 <= l
    <3>1. p + 2 \in 0..(l - 1) /\ p + 3 \in 0..(l - 1)
      BY <2>1
    <3>2. PICK a \in Nat, b \in Nat : a = bytes[p + 2] /\ b = bytes[p + 3]
      BY <3>1
    <3>3. (p + 2) + 1 = p + 3
      OBVIOUS
    <3>4. PICK len \in Nat : len = 256 * a + b
      OBVIOUS
    <3>5. ReadU16(bytes, p + 2) = len
      BY <3>2, <3>3, <3>4 DEF ReadU16
    <3> QED
      BY <2>1, <3>5 DEF WordAt
  <2>2. CASE ~((p + 2) + 2 <= l)
    BY <2>2 DEF WordAt
  <2> QED
    BY <2>1, <2>2
<1>2. PICK pad \in 0..3 : pad = Padding(len)
  BY PaddingIs
<1>3. After(bytes, l, p) = p + len + pad + 4
  BY <1>1, <1>2 DEF After
<1> QED
  BY <1>3

(* What the loop finds, from any place on.                                 *)
Loops(f, bytes, l, code) ==
  f = [p \in Nat |-> f[p]] /\ \A p \in Nat : f[p] = Round(f, bytes, l, code, p)

(* The loop of stun_get_attribute ends.                                    *)
LEMMA RoundsExist ==
  ASSUME NEW l \in Nat, NEW bytes, NEW code, \A i \in 0..(l - 1) : bytes[i] \in Nat
  PROVE  \E f : Loops(f, bytes, l, code)
<1> DEFINE Solves(f, k) == /\ f = [p \in Nat |-> f[p]]
                           /\ \A p \in Nat : p + k >= l => f[p] = Round(f, bytes, l, code, p)
           P == {k \in Nat : \E f : Solves(f, k)}
<1>1. \E f : Solves(f, 0)
  <2> DEFINE f == [p \in Nat |-> 0]
  <2>1. f = [p \in Nat |-> f[p]] /\ \A p \in Nat : f[p] = 0
    OBVIOUS
  <2> HIDE DEF f
  <2>2. ASSUME NEW p \in Nat, p + 0 >= l PROVE f[p] = Round(f, bytes, l, code, p)
    <3>1. p >= l
      BY <2>2
    <3> QED
      BY <2>1, <3>1 DEF Round
  <2>3. Solves(f, 0)
    BY <2>1, <2>2
  <2> HIDE DEF Solves
  <2> QED
    BY <2>3
<1>2. ASSUME NEW k \in Nat, NEW f, Solves(f, k) PROVE \E g : Solves(g, k + 1)
  <2> DEFINE g == [p \in Nat |-> IF p + (k + 1) = l THEN Round(f, bytes, l, code, p) ELSE f[p]]
  <2>1. /\ g = [p \in Nat |-> g[p]]
        /\ \A p \in Nat : p + (k + 1) = l => g[p] = Round(f, bytes, l, code, p)
        /\ \A p \in Nat : p + (k + 1) # l => g[p] = f[p]
    OBVIOUS
  <2> HIDE DEF g
  <2>2. ASSUME NEW p \in Nat, p + (k + 1) >= l
        PROVE  Round(g, bytes, l, code, p) = Round(f, bytes, l, code, p)
    <3>1. CASE p >= l
      BY <3>1 DEF Round
    <3>2. CASE ~(p >= l)
      <4>1. PICK r \in Nat : r = After(bytes, l, p) /\ r >= p + 4
        BY AfterIs
      <4>2. r + (k + 1) # l
        BY <2>2, <4>1
      <4>3. g[r] = f[r]
        BY <2>1, <4>2
      <4> QED
        BY <4>1, <4>3 DEF Round
    <3> QED
      BY <3>1, <3>2
  <2>3. ASSUME NEW p \in Nat, p + (k + 1) >= l PROVE g[p] = Round(g, bytes, l, code, p)
    <3>1. CASE p + (k + 1) = l
      BY <2>1, <2>2, <2>3, <3>1
    <3>2. CASE p + (k + 1) # l
      <4>1. p + k >= l
        BY <2>3, <3>2
      <4>2. f[p] = Round(f, bytes, l, code, p)
        BY <1>2, <4>1
      <4> QED
        BY <2>1, <2>2, <2>3, <3>2, <4>2
    <3> QED
      BY <3>1, <3>2
  <2>4. Solves(g, k + 1)
    BY <2>1, <2>3
  <2> HIDE DEF Solves
  <2> QED
    BY <2>4
<1>3. PICK f : Solves(f, l)
  <2>1. P \in SUBSET Nat /\ 0 \in P
    BY <1>1
  <2> HIDE DEF Solves
  <2>2. ASSUME NEW k \in P PROVE k + 1 \in P
    <3>1. PICK f : Solves(f, k) /\ k \in Nat
      OBVIOUS
    <3> QED
      BY <1>2, <3>1
  <2> HIDE DEF P
  <2>3. l \in P
    BY <2>1, <2>2, NaturalInduction
  <2> QED
    BY <2>3 DEF P
<1>4. \A p \in Nat : p + l >= l
  OBVIOUS
<1>5. Loops(f, bytes, l, code)
  BY <1>3, <1>4 DEF Loops
<1> QED
  BY <1>5

(* The loop, from the first attribute on.                                  *)
LEMMA GetAttributeLoops ==
  ASSUME NEW m, NEW l \in Nat, l = m.length, \A i \in 0..(l - 1) : m.bytes[i] \in Nat, NEW code
  PROVE  \E f : GetAttribute(m, code) = f[HeaderLen] /\ Loops(f, m.bytes, l, code)
<1> DEFINE Solves(f) ==
             f = [p \in Nat |->
                    IF p >= m.length THEN 0
                    ELSE IF WordAt(m.bytes, m.length, p) = code THEN p
                    ELSE LET len == WordAt(m.bytes, m.length, p + 2)
                         IN  f[p + len + Padding(len) + 4]]
           from == CHOOSE f : Solves(f)
<1>1. GetAttribute(m, code) = from[HeaderLen]
  BY DEF GetAttribute
<1>2. ASSUME NEW f
      PROVE  Solves(f) <=> f = [p \in Nat |-> Round(f, m.bytes, l, code, p)]
  BY Zenon DEF Round, After
<1> HIDE DEF Solves, from
<1>3. PICK f : Loops(f, m.bytes, l, code)
  BY RoundsExist
<1>4. f = [p \in Nat |-> Round(f, m.bytes, l, code, p)]
  BY <1>3, Zenon DEF Loops
<1>5. Solves(f)
  BY <1>2, <1>4, Zenon
<1>6. Solves(from)
  BY <1>5 DEF from
<1>7. from = [p \in Nat |-> Round(from, m.bytes, l, code, p)]
  BY <1>2, <1>6, Zenon
<1>8. Loops(from, m.bytes, l, code)
  BY <1>7, Zenon DEF Loops
<1> QED
  BY <1>1, <1>8

(* The attributes of all, one after another from the end of the header to  *)
(* the end of the bytes: the one that comes after j others starts at q[j]. *)
Spread(bytes, l, all, q) ==
  /\ Len(all) \in Nat /\ l \in Nat
  /\ \A i \in 0..(l - 1) : bytes[i] \in Nat
  /\ q[0] = HeaderLen /\ q[Len(all)] = l
  /\ \A j \in 1..Len(all) :
       /\ q[j - 1] \in Nat /\ q[j - 1] >= HeaderLen /\ q[j] <= l
       /\ all[j].type \in Word /\ Len(all[j].value) \in Word /\ IsSeq(all[j].value)
       /\ q[j] = q[j - 1] + (4 + Len(all[j].value) + Padding(Len(all[j].value)))
  /\ \A j \in 1..Len(all) :
       /\ At(bytes, q[j - 1] - 1, U16(all[j].type), 2)
       /\ At(bytes, q[j - 1] + 1, U16(Len(all[j].value)), 2)
       /\ At(bytes, q[j - 1] + 3, all[j].value, Len(all[j].value))

(* A 16-bit number at a place is read there.                               *)
LEMMA WordIsRead ==
  ASSUME NEW w \in Word, NEW bytes, NEW p \in Int, At(bytes, p - 1, U16(w), 2)
  PROVE  ReadU16(bytes, p) = w
<1>1. 1 \in 1..2 /\ 2 \in 1..2 /\ (p - 1) + 1 = p /\ (p - 1) + 2 = p + 1
  OBVIOUS
<1>2. bytes[p] = U16(w)[1] /\ bytes[p + 1] = U16(w)[2]
  BY <1>1 DEF At
<1> QED
  BY <1>2, ReadU16Is

(* What is read of one of the attributes, where it is.                     *)
LEMMA AttributeAt ==
  ASSUME NEW bytes, NEW l, NEW all, NEW q, Spread(bytes, l, all, q), NEW j \in 1..Len(all),
         NEW p, p = q[j - 1]
  PROVE  /\ p \in Nat /\ p >= HeaderLen /\ p + 4 <= l
         /\ WordAt(bytes, l, p) = all[j].type
         /\ After(bytes, l, p) = q[j]
         /\ Read(bytes, p + 4, ReadU16(bytes, p + 2)) = all[j].value
<1>20. PICK v \in Nat : v = Len(all[j].value) /\ v \in Word
  BY WordIs DEF Spread
<1>1. PICK type, value :
        v = Len(all[j].value) /\ v \in Word /\ type = all[j].type /\ value = all[j].value
  BY <1>20
<1>2. PICK pad \in 0..3 : pad = Padding(v)
  BY PaddingIs
<1>3. p \in Nat /\ p >= HeaderLen /\ q[j] <= l /\ q[j] = p + (4 + v + pad) /\ l \in Nat
  BY <1>1, <1>2 DEF Spread
<1>4. type \in Word /\ HasLen(value, v)
  BY <1>1 DEF Spread, HasLen
<1>5. At(bytes, p - 1, U16(type), 2) /\ At(bytes, p + 1, U16(v), 2) /\ At(bytes, p + 3, value, v)
  BY <1>1 DEF Spread
<1>6. ReadU16(bytes, p) = type
  BY <1>3, <1>4, <1>5, WordIsRead
<1>7. ReadU16(bytes, p + 2) = v
  <2>1. PICK s \in Int : s = p + 2 /\ s - 1 = p + 1
    BY <1>3
  <2>2. At(bytes, s - 1, U16(v), 2)
    BY <1>5, <2>1
  <2>3. ReadU16(bytes, s) = v
    BY <1>1, <2>2, WordIsRead
  <2> QED
    BY <2>1, <2>3
<1>8. Read(bytes, p + 4, v) = value
  <2>1. PICK s \in Int : s = p + 4 /\ s - 1 = p + 3
    BY <1>3
  <2>2. At(bytes, s - 1, value, v)
    BY <1>5, <2>1
  <2>3. Read(bytes, s, v) = value
    BY <1>4, <2>2, ReadIs
  <2> QED
    BY <2>1, <2>3
<1>10. p + 4 <= l /\ p + v + pad + 4 = q[j]
  BY <1>3, SMTT(30)
<1>11. WordAt(bytes, l, p) = type /\ WordAt(bytes, l, p + 2) = v
  <2>0. p \in Int /\ l \in Int /\ p + 4 <= l
    BY <1>3, <1>10
  <2>1. p + 2 <= l /\ (p + 2) + 2 <= l
    BY <2>0, SMTT(30)
  <2> QED
    BY <1>6, <1>7, <2>1 DEF WordAt
<1>9. After(bytes, l, p) = p + v + pad + 4
  BY <1>11, <1>2 DEF After
<1> QED
  BY <1>1, <1>3, <1>7, <1>8, <1>9, <1>10, <1>11

(* The loop goes past attributes of other types.                           *)
LEMMA SkippedAttributes ==
  ASSUME NEW bytes, NEW l, NEW all, NEW q, Spread(bytes, l, all, q),
         NEW code, NEW f, Loops(f, bytes, l, code), NEW i \in 0..Len(all),
         \A k \in 1..i : all[k].type # code
  PROVE  f[HeaderLen] = f[q[i]]
<1> DEFINE P == {j \in Nat : j <= i => f[HeaderLen] = f[q[j]]}
<1>1. 0 \in P
  BY DEF Spread
<1>2. ASSUME NEW j \in P PROVE j + 1 \in P
  <2> SUFFICES ASSUME j + 1 <= i PROVE f[HeaderLen] = f[q[j + 1]]
    OBVIOUS
  <2>1. j + 1 \in 1..i /\ j + 1 \in 1..Len(all) /\ (j + 1) - 1 = j
    BY DEF Spread
  <2>2. PICK k \in 1..Len(all) : k = j + 1 /\ k \in 1..i /\ k - 1 = j
    BY <2>1
  <2>3. PICK p : p = q[j]
    OBVIOUS
  <2>4. /\ p \in Nat /\ p + 4 <= l /\ WordAt(bytes, l, p) = all[k].type
        /\ After(bytes, l, p) = q[k]
    BY <2>2, <2>3, AttributeAt
  <2>5. all[k].type # code
    BY <2>2
  <2>6. ~(p >= l)
    BY <2>4 DEF Spread
  <2>7. f[p] = Round(f, bytes, l, code, p)
    BY <2>4 DEF Loops
  <2>8. f[p] = f[q[k]]
    BY <2>4, <2>5, <2>6, <2>7 DEF Round
  <2>9. f[HeaderLen] = f[q[j]]
    BY <2>1
  <2> QED
    BY <2>2, <2>3, <2>8, <2>9
<1>3. i \in Nat /\ P \in SUBSET Nat
  BY DEF Spread
<1> HIDE DEF P
<1>4. i \in P
  BY <1>1, <1>2, <1>3, NaturalInduction
<1> QED
  BY <1>4, <1>3 DEF P

(* stun_get_attribute finds the first attribute of a type, and only such.  *)
LEMMA FirstIsFound ==
  ASSUME NEW m, NEW all, NEW q, Spread(m.bytes, m.length, all, q), NEW code,
         NEW i \in 1..Len(all), all[i].type = code, \A k \in 1..(i - 1) : all[k].type # code
  PROVE  /\ GetAttribute(m, code) = q[i - 1] /\ q[i - 1] \in Nat /\ Found(m, code)
         /\ AttributeValue(m, code) = all[i].value
<1>20. PICK l \in Nat : l = m.length
  BY DEF Spread
<1>1. PICK bytes : l = m.length /\ bytes = m.bytes
  BY <1>20
<1>2. Spread(bytes, l, all, q) /\ \A j \in 0..(l - 1) : bytes[j] \in Nat
  BY <1>1 DEF Spread
<1>3. PICK f : GetAttribute(m, code) = f[HeaderLen] /\ Loops(f, bytes, l, code)
  BY <1>1, <1>2, GetAttributeLoops
<1>4. PICK j \in 0..Len(all) : j = i - 1
  BY <1>2 DEF Spread
<1>5. f[HeaderLen] = f[q[j]]
  BY <1>2, <1>3, <1>4, SkippedAttributes
<1>6. PICK p : p = q[j]
  OBVIOUS
<1>7. /\ p \in Nat /\ p >= HeaderLen /\ p + 4 <= l /\ WordAt(bytes, l, p) = code
      /\ Read(bytes, p + 4, ReadU16(bytes, p + 2)) = all[i].value
  BY <1>2, <1>4, <1>6, AttributeAt
<1>8. f[p] = p
  <2>1. f[p] = Round(f, bytes, l, code, p)
    BY <1>3, <1>7 DEF Loops
  <2>2. ~(p >= l)
    BY <1>7
  <2> QED
    BY <1>7, <2>1, <2>2 DEF Round
<1>9. GetAttribute(m, code) = p
  BY <1>3, <1>5, <1>6, <1>8
<1>10. p # 0
  BY <1>7 DEF HeaderLen
<1>11. AttributeValue(m, code) = all[i].value
  BY <1>1, <1>7, <1>9 DEF AttributeValue
<1> QED
  BY <1>4, <1>6, <1>7, <1>9, <1>10, <1>11 DEF Found

(* It finds none of a type that none of them has.                          *)
LEMMA NoneIsFound ==
  ASSUME NEW m, NEW all, NEW q, Spread(m.bytes, m.length, all, q), NEW code,
         \A k \in 1..Len(all) : all[k].type # code
  PROVE  ~Found(m, code)
<1>20. PICK l \in Nat : l = m.length
  BY DEF Spread
<1>1. PICK bytes : l = m.length /\ bytes = m.bytes
  BY <1>20
<1>2. Spread(bytes, l, all, q) /\ \A j \in 0..(l - 1) : bytes[j] \in Nat
  BY <1>1 DEF Spread
<1>3. PICK f : GetAttribute(m, code) = f[HeaderLen] /\ Loops(f, bytes, l, code)
  BY <1>1, <1>2, GetAttributeLoops
<1>4. PICK n \in 0..Len(all) : n = Len(all)
  BY <1>2 DEF Spread
<1>5. f[HeaderLen] = f[q[n]]
  BY <1>2, <1>3, <1>4, SkippedAttributes
<1>6. q[n] = l
  BY <1>2, <1>4 DEF Spread
<1>7. f[l] = Round(f, bytes, l, code, l)
  BY <1>3 DEF Loops
<1>8. Round(f, bytes, l, code, l) = 0
  BY DEF Round
<1> QED
  BY <1>3, <1>5, <1>6, <1>7, <1>8 DEF Found

(* The length of what fits in a message is a 16-bit number.                *)
LEMMA SmallWord == MaxReceived \in Nat /\ \A n \in 0..MaxReceived : n \in Word
<1>1. MaxReceived \in Nat /\ WordSize \in Nat /\ MaxReceived < WordSize
  BY SMT DEF MaxReceived, WordSize
<1> QED
  BY <1>1, SMT DEF Word

(* The parts of the layout of an attribute, and that they are numbers.     *)
LEMMA AttrParts ==
  ASSUME NEW type, NEW value, NEW v \in Nat, HasLen(value, v),
         NEW k \in Nat, k = 4 + v + Padding(v), NEW item, item = AttrLayout(Attr(type, value))
  PROVE  /\ HasLen(item, k) /\ v + 4 <= k
         /\ At(item, 0, U16(type), 2) /\ At(item, 2, U16(v), 2) /\ At(item, 4, value, v)
         /\ type \in Nat /\ value \in Seq(Nat) => item \in Seq(Nat)
<1> DEFINE a == U16(type)
           b == U16(v)
<1>20. PICK p \in 0..3 : p = Padding(v)
  BY PaddingIs
<1>1. PICK z : p = Padding(v) /\ z = Zeros(p) /\ HasLen(z, p)
  BY <1>20, PaddingIs
<1> DEFINE s == a \o b \o value
<1>2. HasLen(item, k) /\ item = s \o z
  BY <1>1, AttrLayoutIs
<1>3. /\ HasLen(s, v + 4) /\ At(s, 0, a, 2) /\ At(s, 2, b, 2) /\ At(s, 4, value, v)
  BY U16Is, PartsAre
<1>4. type \in Nat /\ value \in Seq(Nat) => item \in Seq(Nat)
  <2> SUFFICES ASSUME type \in Nat, value \in Seq(Nat) PROVE item \in Seq(Nat)
    OBVIOUS
  <2>1. a \in Seq(Nat) /\ b \in Seq(Nat)
    BY U16Nat
  <2>2. z \in Seq(Nat)
    <3>1. z \in [1..p -> Nat]
      BY <1>1 DEF Zeros
    <3> QED
      BY <3>1, LenIs
  <2>3. a \o b \in Seq(Nat)
    BY <2>1, ConcatProperties
  <2>4. s \in Seq(Nat)
    BY <2>3, ConcatProperties
  <2> QED
    BY <1>2, <2>2, <2>4, ConcatProperties
<1> HIDE DEF s
<1>5. PICK w \in Nat : w = v + 4
  OBVIOUS
<1>6. At(item, 0, s, w)
  <2>1. HasLen(s, w) /\ p \in Nat /\ HasLen(z, p)
    BY <1>1, <1>3, <1>5
  <2>2. At(s \o z, 0, s, w)
    BY <2>1, ConcatIs
  <2> QED
    BY <1>2, <2>2
<1> HIDE DEF a, b
<1>7. At(item, 0, a, 2)
  <2>1. At(item, 0 + 0, a, 2)
    BY <1>3, <1>5, <1>6, AtNested
  <2> QED
    BY <2>1
<1>8. At(item, 2, b, 2)
  <2>1. At(item, 0 + 2, b, 2)
    BY <1>3, <1>5, <1>6, AtNested
  <2> QED
    BY <2>1
<1>9. At(item, 4, value, v)
  <2>1. At(item, 0 + 4, value, v)
    BY <1>3, <1>5, <1>6, AtNested
  <2> QED
    BY <2>1
<1>10. v + 4 <= k
  BY <1>1
<1> QED
  BY <1>2, <1>4, <1>7, <1>8, <1>9, <1>10 DEF a, b

-----------------------------------------------------------------------------
(* Attributes of bytes.                                                    *)
NatAttrs(attrs) ==
  /\ AreAttrs(attrs)
  /\ \A i \in 1..Len(attrs) : attrs[i].type \in Word /\ attrs[i].value \in Seq(Nat)

(* One more of them, and the integrity.                                    *)
LEMMA NatAttrsAppend ==
  ASSUME NEW attrs, NatAttrs(attrs), NEW type \in Word, NEW value \in Seq(Nat)
  PROVE  NatAttrs(Append(attrs, Attr(type, value)))
<1>1. IsSeq(value)
  BY SeqIs
<1>2. AreAttrs(Append(attrs, Attr(type, value)))
  BY <1>1, AttrsLayoutIs DEF NatAttrs
<1>3. PICK S : attrs \in Seq(S)
  BY DEF NatAttrs, AreAttrs, IsSeq
<1> DEFINE all == Append(attrs, Attr(type, value))
<1>4. /\ Len(all) = Len(attrs) + 1 /\ Len(attrs) \in Nat
      /\ \A i \in 1..Len(attrs) : all[i] = attrs[i]
      /\ all[Len(attrs) + 1] = Attr(type, value)
  BY <1>3, LenProperties, AppendProperties
<1> HIDE DEF all
<1>5. ASSUME NEW i \in 1..Len(all) PROVE all[i].type \in Word /\ all[i].value \in Seq(Nat)
  <2>1. CASE i \in 1..Len(attrs)
    BY <1>4, <2>1 DEF NatAttrs
  <2>2. CASE i = Len(attrs) + 1
    BY <1>4, <2>2 DEF Attr
  <2> QED
    BY <1>4, <2>1, <2>2
<1> QED
  BY <1>2, <1>5 DEF NatAttrs, all

(* The integrity is made of bytes.                                         *)
LEMMA MacIsNat == Mac \in Seq(Nat) /\ ATTR_MESSAGE_INTEGRITY \in Word
<1>1. 20 \in Nat /\ Mac \in [1..20 -> Nat]
  BY DEF Mac, MacLen
<1>2. Mac \in Seq(Nat)
  BY <1>1, LenIs
<1> QED
  BY <1>2, SmallWord, SMT DEF MaxReceived, ATTR_MESSAGE_INTEGRITY

-----------------------------------------------------------------------------
(* The size of an attribute in a message.                                  *)
AttrSize(a) == 4 + Len(a.value) + Padding(Len(a.value))

IsAttr(a) == a = Attr(a.type, a.value) /\ a.type \in Word /\ a.value \in Seq(Nat)

(* What is at what place of an attribute.                                  *)
LEMMA AttrPlaces ==
  ASSUME NEW a, IsAttr(a)
  PROVE  /\ AttrLayout(a) \in Seq(Nat) /\ HasLen(AttrLayout(a), AttrSize(a))
         /\ Len(a.value) \in Nat /\ Len(a.value) + 4 <= AttrSize(a) /\ IsSeq(a.value)
         /\ At(AttrLayout(a), 0, U16(a.type), 2)
         /\ At(AttrLayout(a), 2, U16(Len(a.value)), 2)
         /\ At(AttrLayout(a), 4, a.value, Len(a.value))
<1>1. PICK type : type = a.type /\ type \in Word /\ type \in Nat
  BY WordIs DEF IsAttr
<1>2. PICK value : value = a.value /\ value \in Seq(Nat) /\ IsSeq(value)
  BY SeqIs DEF IsAttr
<1>3. PICK v \in Nat : v = Len(value) /\ HasLen(value, v)
  BY <1>2, HasLenIs, SeqIs
<1>4. PICK k \in Nat : k = 4 + v + Padding(v)
  BY PaddingIs
<1>5. PICK item : item = AttrLayout(Attr(type, value))
  OBVIOUS
<1>6. /\ HasLen(item, k) /\ v + 4 <= k
      /\ At(item, 0, U16(type), 2) /\ At(item, 2, U16(v), 2) /\ At(item, 4, value, v)
      /\ type \in Nat /\ value \in Seq(Nat) => item \in Seq(Nat)
  BY <1>3, <1>4, <1>5, AttrParts
<1>7. AttrLayout(a) = item /\ AttrSize(a) = k
  BY <1>1, <1>2, <1>3, <1>4, <1>5 DEF IsAttr, AttrSize
<1> QED
  BY <1>1, <1>2, <1>3, <1>6, <1>7

(* The attributes follow one another.                                      *)
Follow(all, q) ==
  /\ AttrsLayout(all) \in Seq(Nat) /\ Len(all) \in Nat
  /\ q[0] = 0 /\ q[Len(all)] \in Nat /\ HasLen(AttrsLayout(all), q[Len(all)])
  /\ \A i \in 1..Len(all) :
       /\ IsAttr(all[i]) /\ q[i - 1] \in Nat /\ AttrSize(all[i]) \in Nat
       /\ q[i] = q[i - 1] + AttrSize(all[i]) /\ q[i] <= q[Len(all)]
       /\ At(AttrsLayout(all), q[i - 1], AttrLayout(all[i]), AttrSize(all[i]))

(* AttrsLayout lays them out like that.                                    *)
LEMMA AttrsFollow ==
  ASSUME NEW all, NatAttrs(all)
  PROVE  \E q : Follow(all, q)
<1>1. IsSeq(all) /\ Len(all) \in Nat
  <2>1. IsSeq(all)
    BY DEF NatAttrs, AreAttrs
  <2> QED
    BY <2>1, HasLenIs
<1>2. PICK c \in Nat : c = Len(all)
  BY <1>1
<1>3. PICK f : /\ f[0] = << >> /\ \A i \in 1..Len(all) : f[i] = f[i - 1] \o AttrLayout(all[i])
               /\ AttrsLayout(all) = f[Len(all)]
  BY <1>1, AttrsLayoutRecursion
<1>4. ASSUME NEW i \in 1..c
      PROVE  /\ IsAttr(all[i]) /\ AttrLayout(all[i]) \in Seq(Nat)
             /\ IsSeq(AttrLayout(all[i])) /\ Len(AttrLayout(all[i])) = AttrSize(all[i])
  <2>1. IsAttr(all[i])
    BY <1>2 DEF NatAttrs, AreAttrs, IsAttr
  <2>2. PICK a : a = all[i]
    OBVIOUS
  <2>3. AttrLayout(a) \in Seq(Nat) /\ HasLen(AttrLayout(a), AttrSize(a))
    BY <2>1, <2>2, AttrPlaces
  <2> QED
    BY <2>1, <2>2, <2>3, HasLenIs
<1> DEFINE b == [i \in 1..c |-> AttrLayout(all[i])]
<1>5. \A i \in 1..c : b[i] = AttrLayout(all[i])
  OBVIOUS
<1> HIDE DEF b
<1>6. f[0] = << >> /\ \A i \in 1..c : f[i] = f[i - 1] \o b[i] /\ IsSeq(b[i])
  BY <1>2, <1>3, <1>4, <1>5
<1>7. \A i \in 1..c : f[i] = f[i - 1] \o b[i] /\ b[i] \in Seq(Nat)
  BY <1>4, <1>5, <1>6
<1>8. f[c] \in Seq(Nat)
  BY <1>6, <1>7, PartsNat
<1>9. PICK q : /\ q[0] = 0 /\ q[c] \in Nat /\ HasLen(f[c], q[c])
               /\ \A i \in 1..c :
                    /\ q[i - 1] \in Nat /\ Len(b[i]) \in Nat
                    /\ q[i] = q[i - 1] + Len(b[i]) /\ q[i] <= q[c]
                    /\ At(f[c], q[i - 1], b[i], Len(b[i]))
  BY <1>6, PartsAt
<1>10. ASSUME NEW i \in 1..c
       PROVE  /\ q[i - 1] \in Nat /\ AttrSize(all[i]) \in Nat
              /\ q[i] = q[i - 1] + AttrSize(all[i]) /\ q[i] <= q[c]
              /\ At(AttrsLayout(all), q[i - 1], AttrLayout(all[i]), AttrSize(all[i]))
  <2>1. Len(b[i]) = AttrSize(all[i]) /\ b[i] = AttrLayout(all[i]) /\ f[c] = AttrsLayout(all)
    BY <1>2, <1>3, <1>4, <1>5
  <2> QED
    BY <1>9, <2>1
<1>11. AttrsLayout(all) = f[c]
  BY <1>2, <1>3
<1> QED
  BY <1>2, <1>4, <1>8, <1>9, <1>10, <1>11, Zenon DEF Follow

(* Bytes that hold a sequence of numbers.                                  *)
Copies(bytes, x, l) ==
  l \in Nat /\ \A i \in 0..(l - 1) : bytes[i] = x[i + 1] /\ bytes[i] \in Nat

(* What is in a sequence is in the bytes that start with its first one.    *)
LEMMA BytesAt ==
  ASSUME NEW l \in Nat, NEW bytes, NEW x, Copies(bytes, x, l),
         NEW p \in Nat, NEW s, NEW k \in Nat, At(x, p, s, k), p + k <= l
  PROVE  At(bytes, p - 1, s, k)
<1>1. ASSUME NEW i \in 1..k PROVE bytes[(p - 1) + i] = s[i]
  <2>1. (p - 1) + i \in 0..(l - 1) /\ ((p - 1) + i) + 1 = p + i
    OBVIOUS
  <2>2. bytes[(p - 1) + i] = x[p + i]
    BY <2>1 DEF Copies
  <2>3. x[p + i] = s[i]
    BY DEF At
  <2> QED
    BY <2>2, <2>3
<1> QED
  BY <1>1 DEF At

(* The attributes of a body that follows a header in a message.            *)
LEMMA BodySpread ==
  ASSUME NEW all, NatAttrs(all), NEW n \in 0..MaxReceived, HasLen(AttrsLayout(all), n),
         NEW l, l = n + HeaderLen, NEW bytes, NEW x, At(x, 20, AttrsLayout(all), n),
         Copies(bytes, x, l)
  PROVE  \E q : Spread(bytes, l, all, q)
<1>1. PICK q : Follow(all, q)
  BY AttrsFollow
<1>2. Len(all) \in Nat
  BY <1>1 DEF Follow
<1>7. q[Len(all)] = n /\ q[0] = 0
  BY <1>1, <1>2, HasLenIs DEF Follow
<1>0. l \in Nat
  BY DEF Copies
<1> DEFINE place == [i \in 0..Len(all) |-> q[i] + HeaderLen]
<1>8. \A i \in 0..Len(all) : place[i] = q[i] + 20
  BY DEF HeaderLen
<1> HIDE DEF place
<1>9. ASSUME NEW j \in 1..Len(all)
      PROVE  /\ place[j - 1] \in Nat /\ place[j - 1] >= HeaderLen /\ place[j] <= l
             /\ IsAttr(all[j]) /\ IsSeq(all[j].value) /\ Len(all[j].value) \in Word
             /\ place[j] = place[j - 1] + AttrSize(all[j])
             /\ At(bytes, place[j - 1] - 1, U16(all[j].type), 2)
             /\ At(bytes, place[j - 1] + 1, U16(Len(all[j].value)), 2)
             /\ At(bytes, place[j - 1] + 3, all[j].value, Len(all[j].value))
  <2>0. IsAttr(all[j])
    BY <1>1, <1>2 DEF Follow
  <2>1. PICK a, item : a = all[j] /\ item = AttrLayout(a)
    OBVIOUS
  <2>2. PICK i \in 0..Len(all) : i = j - 1
    OBVIOUS
  <2>19. /\ q[j - 1] \in Nat /\ AttrSize(all[j]) \in Nat
         /\ q[j] = q[j - 1] + AttrSize(all[j]) /\ q[j] <= q[Len(all)]
         /\ At(AttrsLayout(all), q[j - 1], AttrLayout(all[j]), AttrSize(all[j]))
    BY <1>1, Zenon DEF Follow
  <2>3. PICK p \in Nat, k \in Nat : p = q[i] /\ k = AttrSize(a)
    BY <2>1, <2>2, <2>19
  <2>4. q[j] = p + k /\ p + k <= n /\ At(AttrsLayout(all), p, item, k)
    BY <1>7, <2>1, <2>2, <2>3, <2>19
  <2>5. place[i] = p + 20 /\ place[j] = p + k + 20
    BY <1>8, <2>2, <2>3, <2>4, SMTT(30)
  <2>10. /\ Len(a.value) \in Nat /\ Len(a.value) + 4 <= AttrSize(a) /\ IsSeq(a.value)
         /\ At(item, 0, U16(a.type), 2) /\ At(item, 2, U16(Len(a.value)), 2)
         /\ At(item, 4, a.value, Len(a.value))
    BY <2>0, <2>1, AttrPlaces
  <2>16. PICK v \in Nat : v = Len(a.value)
    BY <2>10
  <2>17. PICK t, u, value : t = U16(a.type) /\ u = U16(v) /\ value = a.value
    OBVIOUS
  <2>6. v + 4 <= k
    BY <2>3, <2>10, <2>16
  <2>18. At(item, 0, t, 2) /\ At(item, 2, u, 2) /\ At(item, 4, value, v)
    BY <2>10, <2>16, <2>17
  <2>7. v \in Word
    <3>1. v \in 0..MaxReceived
      BY <2>4, <2>6, SmallWord
    <3> QED
      BY <3>1, SmallWord
  <2>8. PICK o \in Nat : o = p + 20
    OBVIOUS
  <2>9. At(x, o, item, k)
    <3>1. At(x, 20 + p, item, k)
      BY <1>2, <2>4, AtNested
    <3> QED
      BY <2>8, <3>1
  <2>11. o + k <= l
    BY <2>4, <2>8 DEF HeaderLen
  <2>12. At(bytes, o - 1, t, 2)
    <3>1. At(x, o + 0, t, 2)
      BY <2>6, <2>9, <2>18, AtNested
    <3>2. PICK r \in Nat : r = o + 0
      OBVIOUS
    <3>3. At(x, r, t, 2) /\ r + 2 <= l /\ r - 1 = o - 1
      BY <2>6, <2>11, <3>1, <3>2
    <3>4. At(bytes, r - 1, t, 2)
      BY <1>0, <3>3, BytesAt
    <3> QED
      BY <3>3, <3>4
  <2>13. At(bytes, o + 1, u, 2)
    <3>1. At(x, o + 2, u, 2)
      BY <2>6, <2>9, <2>18, AtNested
    <3>2. PICK r \in Nat : r = o + 2
      OBVIOUS
    <3>3. At(x, r, u, 2) /\ r + 2 <= l /\ r - 1 = o + 1
      BY <2>6, <2>11, <3>1, <3>2
    <3>4. At(bytes, r - 1, u, 2)
      BY <1>0, <3>3, BytesAt
    <3> QED
      BY <3>3, <3>4
  <2>14. At(bytes, o + 3, value, v)
    <3>1. At(x, o + 4, value, v)
      BY <2>6, <2>9, <2>18, AtNested
    <3>2. PICK r \in Nat : r = o + 4
      OBVIOUS
    <3>3. At(x, r, value, v) /\ r + v <= l /\ r - 1 = o + 3
      BY <2>6, <2>11, <3>1, <3>2
    <3>4. At(bytes, r - 1, value, v)
      BY <1>0, <3>3, BytesAt
    <3> QED
      BY <3>3, <3>4
  <2>15. place[j - 1] = o /\ o >= HeaderLen /\ place[j] <= l /\ place[j] = o + k
    BY <2>2, <2>4, <2>5, <2>8, <2>11 DEF HeaderLen
  <2> QED
    BY <2>0, <2>1, <2>3, <2>7, <2>10, <2>12, <2>13, <2>14, <2>15, <2>16, <2>17
<1>10. place[0] = HeaderLen /\ place[Len(all)] = l
  BY <1>7, <1>8 DEF HeaderLen
<1>11. \A i \in 0..(l - 1) : bytes[i] \in Nat
  BY DEF Copies
<1>12. \A j \in 1..Len(all) : all[j].type \in Word
  BY <1>9 DEF IsAttr
<1>13. \A j \in 1..Len(all) :
         /\ place[j - 1] \in Nat /\ place[j - 1] >= HeaderLen /\ place[j] <= l
         /\ all[j].type \in Word /\ Len(all[j].value) \in Word /\ IsSeq(all[j].value)
         /\ place[j] = place[j - 1] + (4 + Len(all[j].value) + Padding(Len(all[j].value)))
  BY <1>9, <1>12, Zenon DEF AttrSize
<1>14. \A j \in 1..Len(all) :
         /\ At(bytes, place[j - 1] - 1, U16(all[j].type), 2)
         /\ At(bytes, place[j - 1] + 1, U16(Len(all[j].value)), 2)
         /\ At(bytes, place[j - 1] + 3, all[j].value, Len(all[j].value))
  BY <1>9, Zenon
<1>15. Len(all) \in Nat /\ place[Len(all)] = l
  BY <1>2, <1>10
<1>16. Spread(bytes, l, all, place)
  BY <1>0, <1>10, <1>11, <1>13, <1>14, <1>15, Zenon DEF Spread
<1> QED
  BY <1>16

(* The attributes of a message are found one after another in its bytes.   *)
LEMMA MessageSpread ==
  ASSUME NEW method \in Methods, NEW class \in Classes, NEW id, HasLen(id, 12), id \in Seq(Nat),
         NEW attrs, NatAttrs(attrs), NEW bytes, NEW l \in Nat,
         Read(bytes, 0, l) = MessageLayout(method, class, id, attrs), l <= MaxReceived
  PROVE  \E q : Spread(bytes, l, Append(attrs, MacAttr), q)
<1> DEFINE all == Append(attrs, MacAttr)
           type == TypeLayout(method, class)
           body == AttrsLayout(all)
<1>1. NatAttrs(all)
  BY MacIsNat, NatAttrsAppend DEF MacAttr
<1>2. PICK n \in Nat : HasLen(body, n) /\ body \in Seq(Nat)
  <2> HIDE DEF all
  <2>1. PICK q : Follow(all, q)
    BY <1>1, AttrsFollow
  <2>2. body \in Seq(Nat) /\ Len(all) \in Nat /\ q[Len(all)] \in Nat /\ HasLen(body, q[Len(all)])
    BY <2>1, Zenon DEF Follow
  <2> HIDE DEF body
  <2> QED
    BY <2>2
<1>3. HasLen(type, 2) /\ type \in Seq(Nat)
  <2>1. PICK t, u : IsType(method, class, t, u)
    BY TypeIs
  <2>2. t \in Nat /\ u \in Nat /\ type = <<t, u>>
    BY <2>1 DEF IsType
  <2> HIDE DEF type
  <2>3. type \in Seq(Nat) /\ Len(type) = 2
    BY <2>2
  <2> QED
    BY <2>3, HasLenIs, SeqIs, ZenonT(40)
<1> HIDE DEF type
<1> DEFINE a == type \o U16(n)
           b == a \o MagicCookie
           c == b \o id
           x == c \o body
<1>4. Read(bytes, 0, l) = x
  <2>1. AreAttrs(attrs)
    BY DEF NatAttrs
  <2>2. Len(body) = n
    BY <1>2, HasLenIs
  <2>3. MessageLayout(method, class, id, attrs) = type \o U16(Len(body)) \o MagicCookie \o id \o body
    BY <2>1, MessageLayoutIs DEF type
  <2> QED
    BY <2>2, <2>3
<1> HIDE DEF body
<1>5. x \in Seq(Nat)
  <2>1. U16(n) \in Seq(Nat) /\ MagicCookie \in Seq(Nat)
    BY U16Nat DEF MagicCookie
  <2>2. a \in Seq(Nat)
    BY <1>3, <2>1, ConcatProperties
  <2>3. b \in Seq(Nat)
    BY <2>1, <2>2, ConcatProperties
  <2>4. c \in Seq(Nat)
    BY <2>3, ConcatProperties
  <2> QED
    BY <1>2, <2>4, ConcatProperties
<1>6. HasLen(x, n + 20) /\ At(x, 20, body, n)
  <2>1. Lays(type \o U16(n) \o MagicCookie \o id \o body, type, id, body, n)
    BY <1>2, <1>3, LayoutIs
  <2> QED
    BY <2>1 DEF Lays
<1> HIDE DEF x
<1>7. /\ HasLen(x, l) /\ \A i \in 1..l : x[i] = bytes[0 + i - 1]
  <2> DEFINE r == Read(bytes, 0, l)
  <2>1. DOMAIN r = 1..l /\ r = [i \in 1..l |-> r[i]] /\ \A i \in 1..l : r[i] = bytes[0 + i - 1]
    BY DEF Read
  <2>2. r = x
    BY <1>4
  <2> HIDE DEF r
  <2>3. HasLen(r, l)
    BY <2>1, HasLenIs
  <2> QED
    BY <2>1, <2>2, <2>3
<1>8. l = n + 20 /\ l = Len(x)
  BY <1>6, <1>7, HasLenIs
<1>9. Copies(bytes, x, l)
  <2>1. ASSUME NEW i \in 0..(l - 1) PROVE bytes[i] = x[i + 1] /\ bytes[i] \in Nat
    <3>1. i + 1 \in 1..l /\ 0 + (i + 1) - 1 = i
      OBVIOUS
    <3>2. x[i + 1] = bytes[i]
      BY <1>7, <3>1
    <3>3. x[i + 1] \in Nat
      BY <1>5, <1>8, <3>1
    <3> QED
      BY <3>2, <3>3
  <2> QED
    BY <2>1 DEF Copies
<1>10. n \in 0..MaxReceived
  BY <1>8, SmallWord
<1>11. l = n + HeaderLen
  BY <1>8 DEF HeaderLen
<1> HIDE DEF all
<1>12. At(x, 20, AttrsLayout(all), n) /\ HasLen(AttrsLayout(all), n)
  BY <1>2, <1>6 DEF body
<1>13. \E q : Spread(bytes, l, all, q)
  BY <1>1, <1>9, <1>10, <1>11, <1>12, BodySpread
<1> QED
  BY <1>13 DEF all

(* A message that has a value for a type of attributes.                    *)
Reads(m, code, value) ==
  /\ Found(m, code) /\ GetAttribute(m, code) \in Nat
  /\ AttributeValue(m, code) = value
  /\ At(m.bytes, GetAttribute(m, code) + 3, value, Len(value))

(* It has that of the first attribute of the type.                         *)
LEMMA FirstIsRead ==
  ASSUME NEW m, NEW all, NEW q, Spread(m.bytes, m.length, all, q), NEW code,
         NEW i \in 1..Len(all), all[i].type = code, \A k \in 1..(i - 1) : all[k].type # code
  PROVE  Reads(m, code, all[i].value)
<1>1. /\ GetAttribute(m, code) = q[i - 1] /\ q[i - 1] \in Nat /\ Found(m, code)
      /\ AttributeValue(m, code) = all[i].value
  BY FirstIsFound, SMTT(30)
<1>2. At(m.bytes, q[i - 1] + 3, all[i].value, Len(all[i].value))
  BY Zenon DEF Spread
<1> QED
  BY <1>1, <1>2 DEF Reads

-----------------------------------------------------------------------------
(* Attributes that the server sends.                                       *)
LEMMA RequestAttrs ==
  ASSUME NEW r \in Requests
  PROVE  /\ NatAttrs(r.attrs) /\ HasLen(r.trId, 12) /\ r.trId \in Seq(Nat)
         /\ r.method \in Methods /\ r.class \in Classes
         /\ \E n \in Nat : DOMAIN r.attrs = 1..n /\ Len(r.attrs) = n
<1>1. /\ HasLen(r.trId, 12) /\ AreAttrs(r.attrs) /\ r.trId \in [1..12 -> Byte]
      /\ r.attrs \in Seq([type : Word, value : Seq(Nat)])
      /\ r.method \in Methods /\ r.class \in Classes
  BY MessagesAssumption, ValuesAre
<1>2. PICK attrs : attrs = r.attrs
  OBVIOUS
<1>3. PICK n \in Nat : n = Len(attrs) /\ DOMAIN attrs = 1..n
  BY <1>1, <1>2, LenProperties
<1>4. ASSUME NEW i \in 1..n PROVE attrs[i].type \in Word /\ attrs[i].value \in Seq(Nat)
  <2>1. attrs[i] \in [type : Word, value : Seq(Nat)]
    BY <1>1, <1>2, <1>3, LenProperties
  <2> QED
    BY <2>1
<1>5. NatAttrs(attrs)
  BY <1>1, <1>2, <1>3, <1>4 DEF NatAttrs
<1>6. r.trId \in Seq(Nat)
  <2>1. PICK id \in [1..12 -> Byte] : id = r.trId
    BY <1>1
  <2>2. id \in [1..12 -> Nat] /\ 12 \in Nat
    <3>1. \A x \in Byte : x \in Nat
      BY SMT DEF Byte
    <3> QED
      BY <3>1
  <2> QED
    BY <2>1, <2>2, LenIs
<1> QED
  BY <1>1, <1>2, <1>3, <1>5, <1>6

(* A message of the server has its attributes and its integrity one after  *)
(* another.                                                                *)
LEMMA RequestSpread ==
  ASSUME NEW r \in Requests
  PROVE  \E q : Spread(Received(r).bytes, Received(r).length, Append(r.attrs, MacAttr), q)
<1>20. PICK method \in Methods, class \in Classes : method = r.method /\ class = r.class
  BY RequestAttrs
<1>1. PICK id, attrs :
        /\ method = r.method /\ class = r.class /\ id = r.trId /\ attrs = r.attrs
  BY <1>20
<1>2. NatAttrs(attrs) /\ HasLen(id, 12) /\ id \in Seq(Nat)
  BY <1>1, RequestAttrs
<1>3. PICK x : x = MessageLayout(method, class, id, attrs)
  OBVIOUS
<1>4. Len(x) <= MaxReceived
  BY <1>1, <1>3, ServerAssumption
<1>5. PICK l \in Nat : HasLen(x, l)
  <2>1. AreAttrs(attrs)
    BY <1>2 DEF NatAttrs
  <2>2. PICK n \in Nat : HasLen(AttrsLayout(attrs), n)
    BY <2>1, AttrsLayoutIs, HasLenIs
  <2>9. PICK k \in Nat : HasLen(AttrsLayout(Append(attrs, MacAttr)), k)
    <3>1. HasLen(AttrsLayout(Append(attrs, MacAttr)), n + 24)
      BY <2>1, <2>2, WithMacIs
    <3> QED
      BY <3>1
  <2>3. PICK body : body = AttrsLayout(Append(attrs, MacAttr)) /\ HasLen(body, k)
    BY <2>9
  <2>4. HasLen(TypeLayout(method, class), 2)
    <3>1. PICK t, u : IsType(method, class, t, u)
      BY TypeIs
    <3>2. TypeLayout(method, class) = TypeBytes(method, class)
      BY <3>1 DEF IsType
    <3> QED
      BY <3>2, TypeBytesIs
  <2>5. PICK type : type = TypeLayout(method, class) /\ HasLen(type, 2)
    BY <2>4
  <2>6. Lays(type \o U16(k) \o MagicCookie \o id \o body, type, id, body, k)
    BY <1>2, <2>3, <2>5, LayoutIs
  <2>7. Len(body) = k
    BY <2>3, HasLenIs
  <2>8. x = type \o U16(k) \o MagicCookie \o id \o body
    <3>1. MessageLayout(method, class, id, attrs)
            = TypeLayout(method, class) \o U16(Len(AttrsLayout(Append(attrs, MacAttr))))
                \o MagicCookie \o id \o AttrsLayout(Append(attrs, MacAttr))
      BY <2>1, MessageLayoutIs
    <3> QED
      BY <1>3, <2>3, <2>5, <2>7, <3>1, Zenon
  <2> QED
    BY <2>6, <2>8 DEF Lays
<1>6. l = Len(x) /\ l <= MaxReceived
  BY <1>4, <1>5, HasLenIs
<1> DEFINE bytes == Received(r).bytes
<1>7. bytes = [i \in 0..(l - 1) |-> x[i + 1]] /\ Received(r).length = l
  BY <1>1, <1>3, <1>6 DEF Received
<1> HIDE DEF bytes
<1>8. Read(bytes, 0, l) = x
  <2>1. ASSUME NEW i \in 1..l PROVE bytes[-1 + i] = x[i]
    BY <1>7
  <2>2. At(bytes, 0 - 1, x, l)
    BY <2>1 DEF At
  <2> QED
    BY <1>5, <2>2, ReadIs
<1>9. \E q : Spread(bytes, l, Append(attrs, MacAttr), q)
  BY <1>2, <1>3, <1>6, <1>8, MessageSpread
<1> QED
  BY <1>1, <1>7, <1>9 DEF bytes

(* stun_get_attribute finds an attribute of the server's messages if there *)
(* is one, and what it reads is what the server put into one of that type. *)
THEOREM AttributesAreRead ==
  ASSUME NEW r \in Requests, NEW code, code # ATTR_MESSAGE_INTEGRITY
  PROVE  /\ ~Has(r, code) => ~Found(Received(r), code)
         /\ Has(r, code) => \E i \in DOMAIN r.attrs :
                              r.attrs[i].type = code /\ Reads(Received(r), code, r.attrs[i].value)
<1>1. PICK m, attrs : m = Received(r) /\ attrs = r.attrs
  OBVIOUS
<1>2. PICK n \in Nat : DOMAIN attrs = 1..n /\ Len(attrs) = n
  BY <1>1, RequestAttrs
<1>3. PICK all : all = Append(attrs, MacAttr)
  OBVIOUS
<1>4. PICK q : Spread(m.bytes, m.length, all, q)
  BY <1>1, <1>3, RequestSpread
<1>5. /\ Len(all) = n + 1 /\ all[n + 1].type # code
      /\ \A i \in 1..n : all[i] = attrs[i]
  <2>1. NatAttrs(attrs)
    BY <1>1, RequestAttrs
  <2>2. PICK S : attrs \in Seq(S)
    BY <2>1 DEF NatAttrs, AreAttrs, IsSeq
  <2>3. /\ Len(all) = n + 1 /\ all[n + 1] = MacAttr
        /\ \A i \in 1..n : all[i] = attrs[i]
    BY <1>2, <1>3, <2>2, AppendProperties
  <2>4. MacAttr.type = ATTR_MESSAGE_INTEGRITY
    BY DEF MacAttr, Attr
  <2> QED
    BY <2>3, <2>4
<1>6. CASE ~Has(r, code)
  <2>1. \A k \in 1..Len(all) : all[k].type # code
    BY <1>1, <1>2, <1>5, <1>6 DEF Has
  <2>2. ~Found(m, code)
    BY <1>4, <2>1, NoneIsFound
  <2> QED
    BY <1>1, <1>6, <2>2
<1>7. CASE Has(r, code)
  <2> DEFINE T == {i \in 1..n : attrs[i].type = code}
  <2>1. T \in SUBSET Nat /\ T # {}
    BY <1>1, <1>2, <1>7 DEF Has
  <2>2. PICK i \in T : \A k \in T : i <= k
    BY <2>1, LeastNatural
  <2>3. i \in 1..n /\ i \in 1..Len(all) /\ all[i] = attrs[i] /\ all[i].type = code
    BY <1>5, <2>2
  <2>4. ASSUME NEW k \in 1..(i - 1) PROVE all[k].type # code
    <3>1. k \in 1..n /\ ~(i <= k)
      BY <2>3
    <3>2. k \notin T
      BY <2>2, <3>1
    <3> QED
      BY <1>5, <3>1, <3>2
  <2>5. Reads(m, code, all[i].value)
    BY <1>4, <2>3, <2>4, FirstIsRead
  <2> QED
    BY <1>1, <1>2, <1>7, <2>3, <2>5
<1> QED
  BY <1>6, <1>7

-----------------------------------------------------------------------------
(* A message that tells the status                                         *)

(* A component takes no more than the block that is allocated for all.     *)
LEMMA ItemsFit ==
  ASSUME NEW cs, AreComponents(cs), \A j \in 1..Len(cs) : cs[j].type # "none",
         NEW size \in Nat, size = AllocatedSize(cs)
  PROVE  \A j \in 1..Len(cs) : ItemLen(cs[j]) \in Nat /\ ItemLen(cs[j]) <= size
<1>1. PICK n \in Nat : n = Len(cs)
  BY LenProperties DEF AreComponents
<1>2. PICK q : Tight(cs, q, size)
  BY <1>1, PlacesAre
<1>3. ASSUME NEW j \in 1..n PROVE ItemLen(cs[j]) \in Nat /\ ItemLen(cs[j]) <= size
  <2>1. PICK p \in Nat, k \in Nat : p = q[j - 1] /\ k = ItemLen(cs[j]) /\ q[j] = p + k
    BY <1>1, <1>2 DEF Tight
  <2>2. q[j] <= size
    BY <1>1, <1>2 DEF Tight
  <2> QED
    BY <2>1, <2>2
<1> QED
  BY <1>1, <1>3

(* A component of a few bytes is told.                                     *)
LEMMA IsToldWhen ==
  ASSUME NEW c, IsComponent(c), c.type # "none", ItemLen(c) \in Nat, ItemLen(c) - 4 <= 255
  PROVE  IsTold(c)
<1>1. \A n \in Nat : n <= 255 => n \in Word
  <2>1. \A n \in Nat : n <= 255 => n \in 0..MaxReceived
    BY SMT DEF MaxReceived
  <2> QED
    BY <2>1, SmallWord
<1>2. CASE IsString(c)
  <2>1. PICK v \in Nat, n \in Nat : v = Len(c.value) /\ n = Len(c.name)
    BY <1>2, StringItemIs
  <2>2. ItemLen(c) = v + n + 4
    <3>1. HasLen(ItemLayout(c), Len(c.value) + Len(c.name) + 4)
      BY <1>2, StringItemIs DEF StringItem
    <3> QED
      BY <2>1, <3>1 DEF HasLen, ItemLen
  <2>3. v <= 255 /\ n <= 255
    BY <2>2
  <2> QED
    BY <1>1, <2>1, <2>3 DEF IsTold
<1>3. CASE ~IsString(c)
  <2>1. PICK n \in Nat : n = Len(c.name)
    BY <1>3, NumberItemIs
  <2>2. ItemLen(c) = n + 4
    <3>1. HasLen(ItemLayout(c), Len(c.name) + 4)
      BY <1>3, NumberItemIs DEF NumberItem
    <3> QED
      BY <2>1, <3>1 DEF HasLen, ItemLen
  <2>3. n <= 255
    BY <2>2
  <2> QED
    BY <1>1, <1>3, <2>1, <2>3 DEF IsTold
<1> QED
  BY <1>2, <1>3

(* All of them, if all are of a few bytes.                                 *)
LEMMA AreTold ==
  ASSUME NEW cs, AreComponents(cs),
         \A j \in 1..Len(cs) : /\ cs[j].type # "none" /\ ItemLen(cs[j]) \in Nat
                               /\ ItemLen(cs[j]) - 4 <= 255
  PROVE  \A j \in 1..Len(cs) : IsTold(cs[j])
<1>1. ASSUME NEW j \in 1..Len(cs) PROVE IsTold(cs[j])
  <2>1. PICK c : c = cs[j]
    OBVIOUS
  <2>2. IsComponent(c)
    BY <2>1, LenProperties DEF AreComponents
  <2>3. c.type # "none" /\ ItemLen(c) \in Nat /\ ItemLen(c) - 4 <= 255
    BY <2>1
  <2> QED
    BY <2>1, <2>2, <2>3, IsToldWhen
<1> QED
  BY <1>1

(* What is built has the size that was allocated.                          *)
LEMMA BuiltLen ==
  ASSUME NEW cs, AreComponents(cs), NEW g, NEW size \in Nat, size = AllocatedSize(cs)
  PROVE  HasLen(BuildArguments(cs, g), size)
<1>1. PICK mem : mem = Filled(cs, g)
  OBVIOUS
<1>2. BuildArguments(cs, g) = Read(mem, 0, size)
  BY <1>1, Zenon DEF BuildArguments
<1> DEFINE s == Read(mem, 0, size)
<1>3. DOMAIN s = 1..size /\ s = [i \in 1..size |-> s[i]]
  BY DEF Read
<1> HIDE DEF s
<1>4. HasLen(s, size)
  BY <1>3, HasLenIs
<1> QED
  BY <1>2, <1>4 DEF s

(* In a message that fits every attribute does.                            *)
LEMMA ValueFits ==
  ASSUME NEW attrs, AreAttrs(attrs), NEW type, NEW value, NEW v \in Nat, HasLen(value, v),
         Small(Append(attrs, Attr(type, value)))
  PROVE  v + 4 <= 235
<1>1. AttrsLayout(Append(attrs, Attr(type, value))) = AttrsLayout(attrs) \o AttrLayout(Attr(type, value))
  BY AttrsLayoutIs, HasLenIs
<1>20. PICK a \in Nat : HasLen(AttrsLayout(attrs), a)
  BY AttrsLayoutIs, HasLenIs
<1>2. PICK s : s = AttrsLayout(attrs) /\ HasLen(s, a)
  BY <1>20
<1>3. PICK b \in Nat : b = 4 + v + Padding(v) /\ b >= v + 4
  BY PaddingIs
<1>4. PICK t : t = AttrLayout(Attr(type, value)) /\ HasLen(t, b)
  BY <1>3, AttrLayoutIs
<1>5. HasLen(s \o t, a + b)
  BY <1>2, <1>4, ConcatIs
<1>6. PICK n \in 0..235 : HasLen(s \o t, n)
  BY <1>1, <1>2, <1>4 DEF Small
<1>7. n = a + b
  BY <1>5, <1>6, HasLenIs
<1> QED
  BY <1>3, <1>7

(* A sequence with one more entry.                                         *)
Appended(all, s, x, n) ==
  HasLen(all, n + 1) /\ all[n + 1] = x /\ \A i \in 1..n : all[i] = s[i]

(* Append does that.                                                       *)
LEMMA AppendedIs ==
  \A s, n, x : HasLen(s, n) => Appended(Append(s, x), s, x, n)
<1> SUFFICES ASSUME NEW s, NEW n, HasLen(s, n), NEW x
             PROVE  Appended(Append(s, x), s, x, n)
  OBVIOUS
<1>0. n \in Nat
  BY DEF HasLen
<1>1. PICK S : S = {s[i] : i \in DOMAIN s} \cup {x}
  OBVIOUS
<1>2. s \in Seq(S) /\ x \in S /\ Len(s) = n
  <2>1. s \in Seq({s[i] : i \in DOMAIN s}) /\ Len(s) = n
    BY DEF HasLen, IsSeq
  <2>2. /\ s \in [1..n -> {s[i] : i \in DOMAIN s}] /\ DOMAIN s = 1..n
    BY <2>1, LenProperties
  <2>3. s \in [1..n -> S]
    BY <1>1, <2>2
  <2> QED
    BY <1>0, <1>1, <2>1, <2>3, LenIs
<1> DEFINE all == Append(s, x)
<1>3. /\ all \in Seq(S) /\ Len(all) = n + 1 /\ all[n + 1] = x
      /\ \A i \in 1..n : all[i] = s[i]
  BY <1>2, AppendProperties
<1> HIDE DEF all
<1>4. HasLen(all, n + 1)
  <2>1. IsSeq(all)
    BY <1>3, SeqIs
  <2> QED
    BY <1>0, <1>3, <2>1 DEF HasLen
<1> QED
  BY <1>3, <1>4 DEF all, Appended

-----------------------------------------------------------------------------
(* The attributes that every message of the device has                     *)

(* Their types are of two bytes.                                           *)
LEMMA CommonTypes ==
  /\ ATTR_USERNAME \in Word /\ ATTR_TIMESTAMP \in Word /\ ATTR_LYNCPORT_ID \in Word
  /\ ATTR_ARGUMENTS \in Word
  /\ ATTR_ARGUMENTS \notin {ATTR_USERNAME, ATTR_TIMESTAMP, ATTR_LYNCPORT_ID}
BY SMT DEF ATTR_USERNAME, ATTR_TIMESTAMP, ATTR_LYNCPORT_ID, ATTR_ARGUMENTS, Word,
           WordSize

(* Their values are bytes.                                                 *)
LEMMA CommonValues ==
  Username \in Seq(Nat) /\ U32(Now) \in Seq(Nat) /\ MeantUuid \in Seq(Nat)
<1>1. Username \in Seq(Nat)
  BY MessagesAssumption
<1>2. U32(Now) \in Seq(Nat)
  <2>1. Now[1] \in Nat /\ Now[2] \in Nat
    <3>1. Now \in Uint32
      BY MessagesAssumption
    <3>2. Now[1] \in Word /\ Now[2] \in Word
      BY <3>1 DEF Uint32
    <3> QED
      BY <3>2, WordIs
  <2>2. PICK x \in Nat, y \in Nat : x = Now[1] /\ y = Now[2]
    BY <2>1
  <2>3. U16(x) \in Seq(Nat) /\ U16(y) \in Seq(Nat)
    BY U16Nat
  <2>4. U16(x) \o U16(y) \in Seq(Nat)
    BY <2>3, ConcatProperties
  <2> QED
    BY <2>2, <2>4 DEF U32
<1>3. ASSUME NEW i \in 1..32 PROVE UuidDigit(i) \in Nat
  <2>1. PICK j \in 1..8, k \in 1..4 : i = 4 * (j - 1) + k
    <3>1. ((i - 1) \div 4) + 1 \in 1..8 /\ ((i - 1) % 4) + 1 \in 1..4
          /\ i = 4 * ((((i - 1) \div 4) + 1) - 1) + (((i - 1) % 4) + 1)
      OBVIOUS
    <3> QED
      BY <3>1
  <2>2. /\ Uuid[Groups[j] + k] = UuidDigit(4 * (j - 1) + k)
        /\ Uuid[Groups[j] + k] \in 0..15
    BY UuidDigits
  <2> QED
    BY <2>1, <2>2
<1>4. MeantUuid \in [1..16 -> Nat]
  <2>1. ASSUME NEW i \in 1..16 PROVE 16 * UuidDigit(2 * i - 1) + UuidDigit(2 * i) \in Nat
    <3>1. 2 * i - 1 \in 1..32 /\ 2 * i \in 1..32
      OBVIOUS
    <3>2. PICK x \in Nat, y \in Nat : x = UuidDigit(2 * i - 1) /\ y = UuidDigit(2 * i)
      BY <1>3, <3>1
    <3> QED
      BY <3>2
  <2> QED
    BY <2>1 DEF MeantUuid
<1> QED
  BY <1>1, <1>2, <1>4, LenIs

(* There are three of them, and none has the type of the arguments.        *)
LEMMA CommonIsNat ==
  /\ NatAttrs(CommonAttrs) /\ HasLen(CommonAttrs, 3)
  /\ \A k \in 1..3 : CommonAttrs[k].type # ATTR_ARGUMENTS
<1> DEFINE a == Append(<< >>, UsernameAttr)
           b == Append(a, TimestampAttr)
<1>1. NatAttrs(<< >>)
  BY DEF NatAttrs, AreAttrs, IsSeq
<1>2. NatAttrs(a)
  BY <1>1, CommonTypes, CommonValues, NatAttrsAppend DEF UsernameAttr
<1>3. NatAttrs(b)
  <2> HIDE DEF a
  <2> QED
    BY <1>2, CommonTypes, CommonValues, NatAttrsAppend DEF TimestampAttr
<1>4. NatAttrs(CommonAttrs)
  <2> HIDE DEF b
  <2>1. NatAttrs(Append(b, UuidAttr))
    BY <1>3, CommonTypes, CommonValues, NatAttrsAppend DEF UuidAttr
  <2> QED
    BY <2>1 DEF b, CommonAttrs
<1>5. /\ HasLen(CommonAttrs, 3) /\ CommonAttrs[1] = UsernameAttr
      /\ CommonAttrs[2] = TimestampAttr /\ CommonAttrs[3] = UuidAttr
  <2>1. HasLen(<< >>, 0)
    BY DEF HasLen, IsSeq
  <2>2. HasLen(a, 1) /\ a[1] = UsernameAttr
    <3>1. Appended(a, << >>, UsernameAttr, 0)
      BY <2>1, AppendedIs, Zenon
    <3> HIDE DEF a
    <3> QED
      BY <3>1 DEF Appended
  <2> HIDE DEF a
  <2>3. HasLen(b, 2) /\ b[1] = UsernameAttr /\ b[2] = TimestampAttr
    <3>1. Appended(b, a, TimestampAttr, 1)
      BY <2>2, AppendedIs, Zenon
    <3> HIDE DEF b
    <3> QED
      BY <2>2, <3>1 DEF Appended
  <2> HIDE DEF b
  <2>4. PICK c : c = Append(b, UuidAttr)
    OBVIOUS
  <2>5. Appended(c, b, UuidAttr, 2)
    BY <2>3, <2>4, AppendedIs, Zenon
  <2>6. HasLen(c, 3) /\ c[3] = UuidAttr /\ c[1] = UsernameAttr /\ c[2] = TimestampAttr
    BY <2>3, <2>5 DEF Appended
  <2>7. c = CommonAttrs
    BY <2>4, Zenon DEF a, b, CommonAttrs
  <2> QED
    BY <2>6, <2>7
<1>6. /\ UsernameAttr.type = ATTR_USERNAME /\ TimestampAttr.type = ATTR_TIMESTAMP
      /\ UuidAttr.type = ATTR_LYNCPORT_ID
  BY Zenon DEF UsernameAttr, TimestampAttr, UuidAttr, Attr
<1>7. Len(CommonAttrs) = 3 /\ HasLen(CommonAttrs, 3)
  BY <1>5 DEF HasLen
<1>8. \A k \in 1..3 : CommonAttrs[k].type # ATTR_ARGUMENTS
  BY <1>5, <1>6, CommonTypes
<1> QED
  BY <1>4, <1>7, <1>8
-----------------------------------------------------------------------------
(* The status                                                              *)

(* An orderly status is laid out as the reader expects it, and every one   *)
(* of its components is known to the device.                               *)
LEMMA OrderlyIs ==
  ASSUME NEW cs, AreComponents(cs), Len(cs) <= MaxComponents, NEW g \in Byte, Orderly(cs, g),
         \A j \in 1..Len(cs) : ItemLen(cs[j]) \in Nat /\ ItemLen(cs[j]) <= 255
  PROVE  Regular(cs, g) /\ Known(cs, cs)
<1>1. PICK n \in Nat : n = Len(cs) /\ DOMAIN cs = 1..n
  BY LenProperties DEF AreComponents
<1>2. ASSUME NEW j \in 1..n
      PROVE  /\ cs[j].type # "none" /\ ItemLen(cs[j]) - 4 <= 255
             /\ ~IsString(cs[j]) => Bit(g, j - 1) # 1
             /\ IsString(cs[j]) \/ TypeNamed(cs[j].name, cs) \in FourBytes
  <2>1. /\ cs[j].type # "none" /\ (IsString(cs[j]) \/ Bit(g, j - 1) = 0)
        /\ IsString(cs[j]) \/ TypeNamed(cs[j].name, cs) = cs[j].type
    BY <1>1 DEF Orderly, Declared
  <2>2. PICK k \in Nat : k = ItemLen(cs[j]) /\ k <= 255
    BY <1>1
  <2>3. k - 4 <= 255
    BY <2>2
  <2>4. cs[j].type \in {"boolean", "integer", "timestamp", "float", "string", "none"}
    BY <1>1 DEF AreComponents, IsComponent
  <2>5. IsString(cs[j]) \/ TypeNamed(cs[j].name, cs) \in FourBytes
    <3>1. CASE IsString(cs[j])
      BY <3>1
    <3>2. CASE ~IsString(cs[j])
      <4>1. cs[j].type # "string"
        BY <3>2, Zenon DEF IsString
      <4>2. PICK type : type = cs[j].type
        OBVIOUS
      <4>3. type # "string" /\ type # "none"
            /\ type \in {"boolean", "integer", "timestamp", "float", "string", "none"}
        BY <2>1, <2>4, <4>1, <4>2
      <4>4. type \in FourBytes
        BY <4>3 DEF FourBytes, Types
      <4> QED
        BY <2>1, <3>2, <4>2, <4>4, Zenon
    <3> QED
      BY <3>1, <3>2
  <2>6. ~IsString(cs[j]) => Bit(g, j - 1) # 1
    BY <2>1
  <2>7. ItemLen(cs[j]) - 4 <= 255
    BY <2>2, <2>3
  <2> QED
    BY <2>1, <2>5, <2>6, <2>7, Zenon
<1>3. \A j \in 1..(n - 1) : IsString(cs[j]) => Len(cs[j].value) = Len(cs[j].name)
  BY <1>1 DEF Orderly
<1>4. Regular(cs, g)
  BY <1>1, <1>2, <1>3 DEF Regular
<1>5. Known(cs, cs)
  BY <1>1, <1>2 DEF Known
<1> QED
  BY <1>4, <1>5

(* The arguments are the fourth attribute.                                 *)
Fourth(all, value) ==
  /\ 4 \in 1..Len(all) /\ all[4].type = ATTR_ARGUMENTS /\ all[4].value = value
  /\ \A k \in 1..3 : all[k].type # ATTR_ARGUMENTS

(* In a message that tells the status they are.                            *)
LEMMA FourthIs ==
  \A value : Fourth(Append(Append(CommonAttrs, Attr(ATTR_ARGUMENTS, value)), MacAttr), value)
<1> SUFFICES ASSUME NEW value
             PROVE  Fourth(Append(Append(CommonAttrs, Attr(ATTR_ARGUMENTS, value)), MacAttr), value)
  OBVIOUS
<1>0. PICK a : a = Attr(ATTR_ARGUMENTS, value)
  OBVIOUS
<1>1. a.type = ATTR_ARGUMENTS /\ a.value = value
  BY <1>0, Zenon DEF Attr
<1>2. PICK attrs : attrs = Append(CommonAttrs, a)
  OBVIOUS
<1>8. PICK all : all = Append(attrs, MacAttr)
  OBVIOUS
<1>3. Appended(attrs, CommonAttrs, a, 3)
  BY <1>2, CommonIsNat, AppendedIs, Zenon
<1>4. HasLen(attrs, 4) /\ attrs[4] = a /\ \A k \in 1..3 : attrs[k] = CommonAttrs[k]
  <2>1. 3 + 1 = 4
    OBVIOUS
  <2> QED
    BY <1>3, <2>1, Zenon DEF Appended
<1>5. Appended(all, attrs, MacAttr, 4)
  BY <1>4, <1>8, AppendedIs, Zenon
<1>6. HasLen(all, 5) /\ \A k \in 1..4 : all[k] = attrs[k]
  <2>1. 4 + 1 = 5
    OBVIOUS
  <2> QED
    BY <1>5, <2>1, Zenon DEF Appended
<1>7. Len(all) = 5
  BY <1>6, Zenon DEF HasLen
<1>9. Fourth(all, value)
  BY <1>1, <1>4, <1>6, <1>7, CommonIsNat DEF Fourth
<1> QED
  BY <1>0, <1>2, <1>8, <1>9, Zenon

(* A message that tells the components of the status is read.              *)
LEMMA ToldIsRead ==
  ASSUME NEW m, NEW method \in Methods, NEW class \in Classes, NEW id, HasLen(id, 12),
         id \in Seq(Nat), NEW cs, AreComponents(cs), Len(cs) <= MaxComponents,
         NEW g \in Byte, Orderly(cs, g), NEW value, value = BuildArguments(cs, g),
         NEW attrs, attrs = Append(CommonAttrs, Attr(ATTR_ARGUMENTS, value)),
         Sound(m, method, class, id, attrs),
         Len(MessageLayout(method, class, id, attrs)) - MacAttrLen <= 255
  PROVE  ProcessArguments(AttributeValue(m, ATTR_ARGUMENTS), cs)
           = [ok |-> TRUE, dict |-> Meaning(cs)]
<1>1. PICK size \in Nat : size = AllocatedSize(cs) /\ HasLen(value, size)
  BY SizesAre, BuiltLen
<1>2. NatAttrs(CommonAttrs) /\ AreAttrs(CommonAttrs)
  BY CommonIsNat DEF NatAttrs
<1>3. AreAttrs(attrs)
  <2>1. IsSeq(value)
    BY <1>1, HasLenIs
  <2> QED
    BY <1>2, <2>1, AttrsLayoutIs
<1>4. HasLen(TypeLayout(method, class), 2)
  <2>1. PICK t, u : IsType(method, class, t, u)
    BY TypeIs
  <2>2. TypeLayout(method, class) = TypeBytes(method, class)
    BY <2>1 DEF IsType
  <2> QED
    BY <2>2, TypeBytesIs
<1>5. Small(attrs)
  BY <1>3, <1>4, FitsIs
<1>6. size <= 255
  <2>1. size + 4 <= 235
    BY <1>1, <1>2, <1>5, ValueFits
  <2> QED
    BY <2>1
<1>7. \A j \in 1..Len(cs) : ItemLen(cs[j]) \in Nat /\ ItemLen(cs[j]) <= 255
  <2>1. \A j \in 1..Len(cs) : cs[j].type # "none"
    <3>1. DOMAIN cs = 1..Len(cs)
      BY LenProperties DEF AreComponents
    <3> QED
      BY <3>1 DEF Orderly
  <2>2. \A j \in 1..Len(cs) : ItemLen(cs[j]) \in Nat /\ ItemLen(cs[j]) <= size
    BY <1>1, <2>1, ItemsFit
  <2> QED
    BY <1>6, <2>2
<1>8. Regular(cs, g) /\ Known(cs, cs)
  BY <1>7, OrderlyIs
<1>9. value \in Seq(Nat) /\ \E q : Encodes(value, cs, q)
  BY <1>8, BuildEncodes
<1>10. PICK q : Encodes(value, cs, q)
  BY <1>9
<1>11. NatAttrs(attrs)
  BY <1>2, <1>9, CommonTypes, NatAttrsAppend
<1>12. PICK l \in Nat : l = m.length /\ Read(m.bytes, 0, l) = MessageLayout(method, class, id, attrs)
  BY DEF Sound
<1>13. l <= MaxReceived
  <2> DEFINE x == MessageLayout(method, class, id, attrs)
             r == Read(m.bytes, 0, l)
  <2>1. DOMAIN r = 1..l /\ r = [i \in 1..l |-> r[i]]
    BY DEF Read
  <2>2. r = x
    BY <1>12
  <2> HIDE DEF r
  <2>3. Len(x) = l
    BY <2>1, <2>2, SeqIs
  <2> HIDE DEF x
  <2>4. Len(x) - MacAttrLen <= 255
    BY DEF x
  <2> QED
    BY <2>3, <2>4 DEF MacAttrLen, MaxReceived
<1>14. PICK all, p : all = Append(attrs, MacAttr) /\ Spread(m.bytes, l, all, p)
  BY <1>11, <1>12, <1>13, MessageSpread
<1>15. /\ 4 \in 1..Len(all) /\ all[4].type = ATTR_ARGUMENTS /\ all[4].value = value
       /\ \A k \in 1..3 : all[k].type # ATTR_ARGUMENTS
  <2>1. all = Append(Append(CommonAttrs, Attr(ATTR_ARGUMENTS, value)), MacAttr)
    BY <1>14, Zenon
  <2>2. Fourth(all, value)
    BY <2>1, FourthIs, Zenon
  <2> QED
    BY <2>2, Zenon DEF Fourth
<1>16. Reads(m, ATTR_ARGUMENTS, value)
  <2>1. PICK i \in 1..Len(all) : i = 4
    BY <1>15
  <2>2. \A k \in 1..(i - 1) : all[k].type # ATTR_ARGUMENTS
    BY <1>15, <2>1, SMTT(30)
  <2>3. Reads(m, ATTR_ARGUMENTS, all[i].value)
    BY <1>12, <1>14, <1>15, <2>1, <2>2, FirstIsRead
  <2> QED
    BY <1>15, <2>1, <2>3
<1>17. ProcessArguments(value, cs) = [ok |-> TRUE, dict |-> Meaning(cs)]
  <2>1. \A j \in 1..Len(cs) : IsTold(cs[j])
    BY <1>7, <1>8, AreTold DEF Regular
  <2>2. ProcessArguments(value, cs)
          = IF Known(cs, cs) THEN [ok |-> TRUE, dict |-> Meaning(cs)] ELSE NoArguments
    BY <1>10, <2>1, EncodedIsRead
  <2> QED
    BY <1>8, <2>2
<1> QED
  BY <1>16, <1>17 DEF Reads

-----------------------------------------------------------------------------
(* How many status components there are                                    *)

(* lh_list_add adds one item, or none.                                     *)
LEMMA AddedLen ==
  ASSUME NEW S, NEW e \in S, NEW list \in ListsOf(S)
  PROVE  Len(Add(list, e).items) \in Nat /\ Len(Add(list, e).items) <= Len(list.items) + 1
<1>1. PICK n \in Nat : n = Len(list.items)
  BY LenProperties DEF ListsOf
<1>2. PICK more : more = Append(list.items, e) /\ Len(more) = n + 1
  <2>1. PICK items : items = list.items /\ items \in Seq(S)
    BY DEF ListsOf
  <2>2. Len(Append(items, e)) = n + 1
    BY <1>1, <2>1, AppendProperties
  <2> QED
    BY <2>1, <2>2
<1>3. Add(list, e).items = list.items \/ Add(list, e).items = more
  <2> DEFINE appended == [list EXCEPT !.items = Append(@, e)]
  <2>1. /\ appended.items = more /\ [list EXCEPT !.stuck = TRUE].items = list.items
        /\ \A m, c : [appended EXCEPT !.max = m, !.cut = c].items = more
    BY <1>2 DEF ListsOf
  <2>2. \/ Add(list, e) = appended
        \/ Add(list, e) = [list EXCEPT !.stuck = TRUE]
        \/ \E m, c : Add(list, e) = [appended EXCEPT !.max = m, !.cut = c]
    BY Zenon DEF Add
  <2> HIDE DEF appended
  <2> QED
    BY <2>1, <2>2
<1> QED
  BY <1>1, <1>2, <1>3

(* So does lh_model_add_status_component, whether or not there was a list. *)
LEMMA ExtendedLen ==
  ASSUME NEW S, NEW e \in S, NEW list \in ListsOf(S)
  PROVE  /\ Len(Extended(list, e).items) \in Nat
         /\ Len(Extended(list, e).items) <= Len(list.items) + 1
<1>1. CASE list = NoList
  <2>1. PICK new : new = NewList /\ new \in ListsOf(S) /\ Len(new.items) = Len(list.items)
    <3>1. NewList \in ListsOf(S)
      BY CapacityModIs, ListAssumption DEF NewList, NewListOf, ListsOf
    <3>2. Len(NewList.items) = Len(list.items)
      BY <1>1 DEF NewList, NewListOf, NoList
    <3> QED
      BY <3>1, <3>2
  <2>2. Extended(list, e) = Add(new, e)
    BY <1>1, <2>1 DEF Extended
  <2> QED
    BY <2>1, <2>2, AddedLen
<1>2. CASE list # NoList
  <2>1. Extended(list, e) = Add(list, e)
    BY <1>2 DEF Extended
  <2> QED
    BY <2>1, AddedLen
<1> QED
  BY <1>1, <1>2

(* There are no more of them than the mask has bits; and a message that    *)
(* tells them was made in memory with what malloc left there.              *)
StatusInv ==
  /\ Len(device.status.items) <= MaxStatus
  /\ call.what \in {"store", "status"} => call.garbage \in Garbage
  /\ call.what = "status" => call.to \in Requests

(* At first there is none.                                                 *)
LEMMA StatusInvInit == Init => StatusInv
<1> SUFFICES ASSUME Init PROVE StatusInv
  OBVIOUS
<1>1. device.status.items = << >>
  BY DEF Init, ModelInit, NoList
<1>2. Len(device.status.items) = 0
  BY <1>1
<1> QED
  BY <1>2, MessagesAssumption DEF StatusInv, Init, NoCall

(* setup() stops adding in time.                                           *)
LEMMA StatusAdded ==
  ASSUME ModelInv, Setup, Len(device.status.items) <= MaxStatus
  PROVE  Len(device'.status.items) <= MaxStatus
<1>1. device \in Devices /\ device.status \in ListsOf(StatusOptions)
  BY DEF ModelInv, Devices
<1>2. ASSUME NEW c \in StatusOptions, AddStatusComponent(c)
      PROVE  Len(device'.status.items) <= MaxStatus
  <2>1. Len(device.status.items) < MaxStatus /\ AddTo("status", c)
    BY <1>2 DEF AddStatusComponent
  <2>2. device'.status = Extended(device.status, c)
    BY <1>1, <2>1 DEF AddTo, Devices
  <2>3. PICK n \in Nat, k \in Nat :
          /\ n = Len(device.status.items) /\ k = Len(Extended(device.status, c).items)
          /\ k <= n + 1
    <3>1. Len(device.status.items) \in Nat
      BY <1>1, LenProperties DEF ListsOf
    <3>2. /\ Len(Extended(device.status, c).items) \in Nat
          /\ Len(Extended(device.status, c).items) <= Len(device.status.items) + 1
      BY <1>1, ExtendedLen
    <3> QED
      BY <3>1, <3>2
  <2>4. MaxStatus \in Int
    BY MessagesAssumption
  <2> QED
    BY <2>1, <2>2, <2>3, <2>4
<1>3. ASSUME NEW a \in ActionOptions, AddAction(a) PROVE device'.status = device.status
  BY <1>1, <1>3 DEF AddAction, AddTo, Devices
<1>4. ASSUME NEW e \in EventOptions, AddEvent(e) PROVE device'.status = device.status
  BY <1>1, <1>4 DEF AddEvent, AddTo, Devices
<1>5. CASE GenerateDescriptor
  BY <1>5 DEF GenerateDescriptor
<1> QED
  BY <1>2, <1>3, <1>4, <1>5 DEF Setup

(* Every step keeps the invariant.                                         *)
LEMMA StatusInvNext ==
  ASSUME ModelInv, StatusInv, [Next]_vars
  PROVE  StatusInv'
<1>1. Len(device.status.items) <= MaxStatus
  BY DEF StatusInv
<1>2. Len(device'.status.items) <= MaxStatus
  <2>1. CASE Setup
    BY <1>1, <2>1, StatusAdded
  <2>2. CASE UNCHANGED <<device, added, descriptor>>
    BY <1>1, <2>2
  <2> QED
    BY <2>1, <2>2, StepCases
<1> DEFINE Told == /\ call.what \in {"store", "status"} => call.garbage \in Garbage
                   /\ call.what = "status" => call.to \in Requests
<1>3. Told
  BY DEF StatusInv
<1>4. ASSUME call' = NoCall PROVE Told'
  BY <1>4 DEF NoCall
<1>5. ASSUME UNCHANGED call PROVE Told'
  BY <1>3, <1>5
<1>6. ASSUME NEW g \in Garbage, SendKeepalive(g) PROVE Told'
  <2>1. call'.what = "keepalive"
    BY <1>6 DEF SendKeepalive, Sends
  <2> QED
    BY <2>1
<1>7. ASSUME NEW g \in Garbage, StoreStatus(g) PROVE Told'
  <2>1. \/ call' = NoCall
        \/ call'.what = "store" /\ call'.garbage = g
    BY <1>7 DEF StoreStatus, Sends, SendsNothing
  <2> QED
    BY <1>4, <2>1
<1>8. ASSUME NEW g \in Garbage, NEW name \in EventNames, NEW text \in Texts,
             NEW cs \in Payloads, SendEvent(name, text, cs, g)
      PROVE  Told'
  <2>1. call'.what = "event"
    BY <1>8 DEF SendEvent, Sends
  <2> QED
    BY <2>1
<1>9. ASSUME NEW g \in Garbage, NEW r \in Requests, ProcessMessage(r, g) PROVE Told'
  <2>1. \/ HandleError(r) \/ HandleAction(r, g) \/ HandleStatusRequest(r, g)
        \/ SendsNothing
    BY <1>9 DEF ProcessMessage
  <2>2. \/ call' = NoCall
        \/ call'.what = "response"
        \/ call'.what = "status" /\ call'.to = r /\ call'.garbage = g
    BY <2>1 DEF HandleError, HandleAction, HandleStatusRequest, SendsNothing, Sends
  <2>3. CASE call'.what = "response"
    BY <2>3
  <2> QED
    BY <1>4, <2>2, <2>3
<1>10. Told'
  <2>1. CASE Next
    BY <1>4, <1>5, <1>6, <1>7, <1>8, <1>9, <2>1, Zenon DEF Next, Release
  <2>2. CASE UNCHANGED vars
    BY <1>5, <2>2 DEF vars
  <2> QED
    BY <2>1, <2>2
<1> QED
  BY <1>2, <1>10 DEF StatusInv

(* The invariant of the status.                                            *)
LEMMA StatusInvariant == Spec => []StatusInv
<1>1. Init => StatusInv
  BY StatusInvInit
<1>2. ModelInv /\ StatusInv /\ [Next]_vars => StatusInv'
  BY StatusInvNext
<1> QED
  BY <1>1, <1>2, ModelInvariant, PTL DEF Spec

(* The id of a message of the device is numbers.                           *)
LEMMA OwnIdIsNat == OwnTrId \in Seq(Nat)
<1>1. OwnTrId \in [1..12 -> Byte]
  BY MessagesAssumption
<1>2. \A x \in Byte : x \in Nat
  BY SMT DEF Byte
<1>3. OwnTrId \in [1..12 -> Nat] /\ 12 \in Nat
  BY <1>1, <1>2
<1> QED
  BY <1>3, LenIs

(* What the message is that tells the status.                              *)
LEMMA StatusMeant ==
  ASSUME WireInv, StatusInv, call.what \in {"store", "status"}, Fits
  PROVE  \E method \in Methods, class \in Classes : \E id :
           /\ HasLen(id, 12) /\ id \in Seq(Nat)
           /\ Sound(wire, method, class, id,
                    Append(CommonAttrs,
                           Attr(ATTR_ARGUMENTS, BuildArguments(device.status.items, call.garbage))))
           /\ Len(MessageLayout(method, class, id,
                    Append(CommonAttrs,
                           Attr(ATTR_ARGUMENTS, BuildArguments(device.status.items, call.garbage)))))
                - MacAttrLen <= 255
<1> DEFINE attrs == Append(CommonAttrs,
                           Attr(ATTR_ARGUMENTS, BuildArguments(device.status.items, call.garbage)))
           method == IntendedType.method
           class == IntendedType.class
           id == IF IsResponse THEN call.to.trId ELSE OwnTrId
<1>1. Intended = attrs
  BY IntendedIs
<1>2. IsSent
  BY DEF IsSent
<1>3. Sound(wire, method, class, id, attrs)
  BY <1>1, <1>2, Zenon DEF WireInv, WireIsSound
<1>4. Len(MessageLayout(method, class, id, attrs)) - MacAttrLen <= 255
  BY <1>1, Zenon DEF Fits, Meant
<1>5. CASE call.what = "store"
  <2>1. method = M_STORE_STATUS /\ class = CL_REQUEST /\ id = OwnTrId
    BY <1>5 DEF IntendedType, IsResponse
  <2>2. M_STORE_STATUS \in Methods /\ CL_REQUEST \in Classes
    BY TypesAre
  <2>3. HasLen(OwnTrId, 12) /\ OwnTrId \in Seq(Nat)
    BY ValuesAre, OwnIdIsNat
  <2> HIDE DEF attrs, method, class, id
  <2> QED
    BY <1>3, <1>4, <2>1, <2>2, <2>3, Zenon DEF attrs
<1>6. CASE call.what = "status"
  <2>1. PICK r \in Requests : r = call.to
    BY <1>6 DEF StatusInv
  <2>2. method = r.method /\ class = CL_SUCCESS /\ id = r.trId
    BY <1>6, <2>1 DEF IntendedType, IsResponse
  <2>3. r.method \in Methods /\ CL_SUCCESS \in Classes
    BY RequestAttrs, TypesAre
  <2>4. HasLen(r.trId, 12) /\ r.trId \in Seq(Nat)
    BY RequestAttrs
  <2> HIDE DEF attrs, method, class, id
  <2> QED
    BY <1>3, <1>4, <2>2, <2>3, <2>4, Zenon DEF attrs
<1> QED
  BY <1>5, <1>6

(* Whoever reads a message that tells the status, as the device itself     *)
(* reads arguments, gets the name and the value of every component.        *)
THEOREM StatusAlwaysReadable == Spec => []StatusReadable
<1>1. ModelInv /\ WireInv /\ StatusInv => StatusReadable
  <2> SUFFICES ASSUME ModelInv, WireInv, StatusInv, call.what \in {"store", "status"}, Fits,
                      Orderly(device.status.items, call.garbage)
               PROVE  ProcessArguments(AttributeValue(wire, ATTR_ARGUMENTS), device.status.items)
                        = [ok |-> TRUE, dict |-> Meaning(device.status.items)]
    BY DEF StatusReadable
  <2>1. PICK cs, g, m : cs = device.status.items /\ g = call.garbage /\ m = wire
    OBVIOUS
  <2>2. AreComponents(cs) /\ Orderly(cs, g)
    BY <2>1, StatusIsComponents
  <2>3. Len(cs) <= MaxComponents
    <3>1. Len(cs) <= MaxStatus
      BY <2>1 DEF StatusInv
    <3>2. Len(cs) \in Nat
      BY <2>2, LenProperties DEF AreComponents
    <3>3. MaxStatus \in 0..MaxComponents
      BY MessagesAssumption
    <3> QED
      BY <3>1, <3>2, <3>3 DEF MaxComponents
  <2>4. g \in Byte
    <3>1. g \in Garbage /\ Garbage \subseteq Byte
      BY <2>1, MessagesAssumption DEF StatusInv
    <3> QED
      BY <3>1
  <2>5. PICK value : value = BuildArguments(cs, g)
    OBVIOUS
  <2>6. PICK attrs : attrs = Append(CommonAttrs, Attr(ATTR_ARGUMENTS, value))
    OBVIOUS
  <2>7. PICK method \in Methods, class \in Classes :
          \E id : /\ HasLen(id, 12) /\ id \in Seq(Nat) /\ Sound(m, method, class, id, attrs)
                 /\ Len(MessageLayout(method, class, id, attrs)) - MacAttrLen <= 255
    BY <2>1, <2>5, <2>6, StatusMeant, Zenon
  <2>8. PICK id : /\ HasLen(id, 12) /\ id \in Seq(Nat) /\ Sound(m, method, class, id, attrs)
                  /\ Len(MessageLayout(method, class, id, attrs)) - MacAttrLen <= 255
    BY <2>7
  <2>9. ProcessArguments(AttributeValue(m, ATTR_ARGUMENTS), cs)
          = [ok |-> TRUE, dict |-> Meaning(cs)]
    BY <2>2, <2>3, <2>4, <2>5, <2>6, <2>8, ToldIsRead
  <2> QED
    BY <2>1, <2>9
<1> QED
  BY <1>1, ModelInvariant, WireInvariant, StatusInvariant, PTL

-----------------------------------------------------------------------------
(* What is learnt of an error                                              *)

(* The code is the third byte, in hundreds, and the fourth.                *)
LEMMA ErrorCodeIs ==
  ASSUME NEW m, NEW value, Reads(m, ATTR_ERROR_CODE, value), NEW n \in Nat, n = Len(value),
         n >= 4
  PROVE  ErrorCode(m) = 100 * value[3] + value[4]
<1>1. PICK p \in Nat : p = GetAttribute(m, ATTR_ERROR_CODE)
  BY DEF Reads
<1>2. At(m.bytes, p + 3, value, n)
  BY <1>1 DEF Reads
<1>3. m.bytes[p + 3 + 3] = value[3] /\ m.bytes[p + 3 + 4] = value[4]
  <2>1. 3 \in 1..n /\ 4 \in 1..n
    OBVIOUS
  <2> QED
    BY <1>2, <2>1, Zenon DEF At
<1>4. p + 3 + 3 = p + 4 + 2 /\ p + 3 + 4 = p + 4 + 3
  OBVIOUS
<1> QED
  BY <1>1, <1>3, <1>4, Zenon DEF ErrorCode

(* The time is the four bytes of the attribute.                            *)
LEMMA TimeIs ==
  ASSUME NEW m, NEW time \in Uint32, Reads(m, ATTR_SERVER_TIME, U32(time))
  PROVE  ReadU32(m.bytes, GetAttribute(m, ATTR_SERVER_TIME) + 4) = time
<1>1. PICK p \in Nat : p = GetAttribute(m, ATTR_SERVER_TIME)
  BY DEF Reads
<1>2. PICK x \in Word, y \in Word : time = <<x, y>>
  BY DEF Uint32
<1>3. x \in Nat /\ y \in Nat
  BY WordIs
<1>4. HasLen(U16(x), 2) /\ HasLen(U16(y), 2)
  BY <1>3, U16Is
<1>5. U32(time) = U16(x) \o U16(y)
  BY <1>2 DEF U32
<1> DEFINE a == U16(x)
           b == U16(y)
           s == a \o b
<1>6. HasLen(s, 2 + 2) /\ At(s, 0, a, 2) /\ At(s, 2, b, 2)
  <2> HIDE DEF a, b
  <2>1. HasLen(a, 2) /\ HasLen(b, 2)
    BY <1>4 DEF a, b
  <2> QED
    BY <2>1, ConcatIs
<1> HIDE DEF a, b, s
<1>7. HasLen(s, 4)
  BY <1>6
<1>8. At(m.bytes, p + 3, s, 4)
  <2>1. At(m.bytes, p + 3, s, Len(s))
    BY <1>1, <1>5, Zenon DEF Reads, a, b, s
  <2> QED
    BY <1>7, <2>1 DEF HasLen
<1>9. /\ m.bytes[p + 4] = a[1] /\ m.bytes[p + 4 + 1] = a[2]
      /\ m.bytes[p + 4 + 2] = b[1] /\ m.bytes[p + 4 + 2 + 1] = b[2]
  <2>1. /\ s[1] = a[1] /\ s[2] = a[2] /\ s[3] = b[1] /\ s[4] = b[2]
    BY <1>6 DEF At
  <2>2. /\ m.bytes[p + 3 + 1] = s[1] /\ m.bytes[p + 3 + 2] = s[2]
        /\ m.bytes[p + 3 + 3] = s[3] /\ m.bytes[p + 3 + 4] = s[4]
    BY <1>8 DEF At
  <2>3. /\ p + 3 + 1 = p + 4 /\ p + 3 + 2 = p + 4 + 1
        /\ p + 3 + 3 = p + 4 + 2 /\ p + 3 + 4 = p + 4 + 2 + 1
    OBVIOUS
  <2> QED
    BY <2>1, <2>2, <2>3, Zenon
<1>10. PICK mem : mem = m.bytes
  OBVIOUS
<1>20. PICK k \in Int : k = p + 4
  OBVIOUS
<1>11. ReadU16(mem, k) = x
  BY <1>9, <1>10, <1>20, ReadU16Is DEF a
<1>12. ReadU16(mem, k + 2) = y
  <2>1. PICK h \in Int : h = k + 2
    OBVIOUS
  <2>2. mem[h] = U16(y)[1] /\ mem[h + 1] = U16(y)[2]
    BY <1>9, <1>10, <1>20, <2>1 DEF b
  <2> QED
    BY <2>1, <2>2, ReadU16Is
<1>13. ReadU32(mem, k) = time
  BY <1>2, <1>11, <1>12 DEF ReadU32
<1> QED
  BY <1>1, <1>10, <1>13, <1>20

(* An error is read as it is meant.                                        *)
ErrorRead(m) ==
  [what |-> "error",
   code |-> IF Found(m, ATTR_ERROR_CODE) THEN ErrorCode(m) ELSE NotThere,
   time |-> IF Found(m, ATTR_SERVER_TIME)
            THEN ReadU32(m.bytes, GetAttribute(m, ATTR_SERVER_TIME) + 4) ELSE NotThere]

(* An attribute of the server has a length.                                *)
LEMMA AttrLenIs ==
  ASSUME NEW r \in Requests, NEW i \in DOMAIN r.attrs
  PROVE  Len(r.attrs[i].value) \in Nat
<1>1. PICK attrs : attrs = r.attrs
  OBVIOUS
<1>2. PICK n \in Nat : DOMAIN attrs = 1..n /\ Len(attrs) = n
  BY <1>1, RequestAttrs
<1>3. NatAttrs(attrs)
  BY <1>1, RequestAttrs
<1>4. attrs[i].value \in Seq(Nat)
  BY <1>1, <1>2, <1>3 DEF NatAttrs
<1> QED
  BY <1>1, <1>4, LenProperties

(* It says what the server put into its attributes.                        *)
LEMMA ErrorIsMeant ==
  ASSUME NEW r \in Requests, r.class = CL_ERROR
  PROVE  /\ ErrorRead(Received(r)).what = "error"
         /\ ErrorRead(Received(r)).code = r.code /\ ErrorRead(Received(r)).time = r.time
<1>1. MeansError(r)
  BY ServerAssumption
<1>2. ATTR_ERROR_CODE # ATTR_MESSAGE_INTEGRITY /\ ATTR_SERVER_TIME # ATTR_MESSAGE_INTEGRITY
  BY DEF ATTR_ERROR_CODE, ATTR_SERVER_TIME, ATTR_MESSAGE_INTEGRITY
<1>3. PICK m : m = Received(r)
  OBVIOUS
<1>4. (IF Found(m, ATTR_ERROR_CODE) THEN ErrorCode(m) ELSE NotThere) = r.code
  <2>1. CASE Has(r, ATTR_ERROR_CODE)
    <3>1. PICK i \in DOMAIN r.attrs :
            r.attrs[i].type = ATTR_ERROR_CODE /\ Reads(m, ATTR_ERROR_CODE, r.attrs[i].value)
      BY <1>2, <1>3, <2>1, AttributesAreRead
    <3>2. PICK value : value = r.attrs[i].value
      OBVIOUS
    <3>3. Len(value) >= 4 /\ 100 * value[3] + value[4] = r.code
      BY <1>1, <3>1, <3>2, Zenon DEF MeansError
    <3>4. PICK n \in Nat : n = Len(value)
      BY <3>1, <3>2, AttrLenIs
    <3>5. ErrorCode(m) = r.code
      BY <3>1, <3>2, <3>3, <3>4, ErrorCodeIs
    <3> QED
      BY <3>1, <3>5 DEF Reads
  <2>2. CASE ~Has(r, ATTR_ERROR_CODE)
    <3>1. ~Found(m, ATTR_ERROR_CODE)
      BY <1>2, <1>3, <2>2, AttributesAreRead
    <3>2. r.code = NotThere
      BY <1>1, <2>2, Zenon DEF MeansError
    <3> QED
      BY <3>1, <3>2
  <2> QED
    BY <2>1, <2>2
<1>5. (IF Found(m, ATTR_SERVER_TIME)
       THEN ReadU32(m.bytes, GetAttribute(m, ATTR_SERVER_TIME) + 4) ELSE NotThere) = r.time
  <2>1. CASE Has(r, ATTR_SERVER_TIME)
    <3>1. PICK i \in DOMAIN r.attrs :
            r.attrs[i].type = ATTR_SERVER_TIME /\ Reads(m, ATTR_SERVER_TIME, r.attrs[i].value)
      BY <1>2, <1>3, <2>1, AttributesAreRead
    <3>2. PICK time \in Uint32 : time = r.time /\ r.attrs[i].value = U32(time)
      <4>1. r.time \in Uint32 /\ Says(r, ATTR_SERVER_TIME, U32(r.time))
        BY <1>1, <2>1, Zenon DEF MeansError
      <4> QED
        BY <3>1, <4>1, Zenon DEF Says
    <3>3. Reads(m, ATTR_SERVER_TIME, U32(time))
      BY <3>1, <3>2, Zenon
    <3>4. ReadU32(m.bytes, GetAttribute(m, ATTR_SERVER_TIME) + 4) = time
      BY <3>3, TimeIs
    <3> QED
      BY <3>1, <3>2, <3>4 DEF Reads
  <2>2. CASE ~Has(r, ATTR_SERVER_TIME)
    <3>1. ~Found(m, ATTR_SERVER_TIME)
      BY <1>2, <1>3, <2>2, AttributesAreRead
    <3>2. r.time = NotThere
      BY <1>1, <2>2, Zenon DEF MeansError
    <3> QED
      BY <3>1, <3>2
  <2> QED
    BY <2>1, <2>2
<1> QED
  BY <1>3, <1>4, <1>5 DEF ErrorRead

-----------------------------------------------------------------------------
(* What is learnt of the request of an action                              *)

(* The first of those that have a property.                                *)
First(named) == CHOOSE i \in named : \A k \in named : i <= k

(* There is one if there are any, and it is the only one.                  *)
LEMMA FirstIs ==
  ASSUME NEW named \in SUBSET Nat, named # {}
  PROVE  /\ First(named) \in named /\ \A k \in named : First(named) <= k
         /\ {i \in named : \A k \in named : i <= k} = {First(named)}
<1>1. First(named) \in named /\ \A k \in named : First(named) <= k
  BY LeastNatural, Zenon DEF First
<1>2. ASSUME NEW i \in named, \A k \in named : i <= k PROVE i = First(named)
  <2>1. PICK x \in Nat, y \in Nat : x = i /\ y = First(named)
    BY <1>1
  <2>2. x <= y /\ y <= x
    BY <1>1, <1>2, <2>1
  <2> QED
    BY <2>1, <2>2
<1> QED
  BY <1>1, <1>2

(* Arguments are laid out as the reader expects them.                      *)
LEMMA ArgumentsAreRead ==
  ASSUME NEW cs, AreArguments(cs), NEW declared
  PROVE  /\ Layout(cs)[1] = Len(cs)
         /\ \A j \in 1..Len(cs) :
              Bit(Layout(cs)[Len(cs) + 2], j - 1) = 1 <=> IsString(cs[j])
         /\ ProcessArguments(Layout(cs), declared)
              = IF Known(cs, declared) THEN [ok |-> TRUE, dict |-> Meaning(cs)] ELSE NoArguments
<1>1. AreComponents(cs) /\ Len(cs) <= MaxComponents
  BY DEF AreArguments
<1>2. \A j \in 1..Len(cs) : cs[j].type # "none" /\ ItemLen(cs[j]) - 4 <= 255
  BY Zenon DEF AreArguments, ItemLen
<1>3. PICK attr : attr = Layout(cs)
  OBVIOUS
<1>4. PICK q : Encodes(attr, cs, q)
  BY <1>1, <1>2, <1>3, LayoutEncodes
<1>5. \A j \in 1..Len(cs) : IsTold(cs[j])
  <2>1. \A j \in 1..Len(cs) : ItemLen(cs[j]) \in Nat
    BY <1>4 DEF Encodes
  <2> QED
    BY <1>1, <1>2, <2>1, AreTold
<1>6. ProcessArguments(attr, declared)
        = IF Known(cs, declared) THEN [ok |-> TRUE, dict |-> Meaning(cs)] ELSE NoArguments
  BY <1>1, <1>4, <1>5, EncodedIsRead
<1>7. attr[1] = Len(cs) /\ \A j \in 1..Len(cs) : Bit(attr[Len(cs) + 2], j - 1) = 1 <=> IsString(cs[j])
  BY <1>4, Zenon DEF Encodes
<1> QED
  BY <1>3, <1>6, <1>7, Zenon

(* An action that knows the types of the numbers can read them, and one    *)
(* that was declared without arguments knows none.                         *)
LEMMA DeclaredIsKnown ==
  ASSUME NEW cs, AreArguments(cs), NEW declared, Declared(cs, declared)
  PROVE  /\ Known(cs, declared)
         /\ declared = << >> => \A j \in 1..Len(cs) : IsString(cs[j])
<1>1. AreComponents(cs) /\ DOMAIN cs = 1..Len(cs)
  BY LenProperties DEF AreArguments, AreComponents
<1>2. ASSUME NEW j \in 1..Len(cs), ~IsString(cs[j])
      PROVE  TypeNamed(cs[j].name, declared) \in FourBytes /\ declared # << >>
  <2>1. PICK type : type = cs[j].type
    OBVIOUS
  <2>2. TypeNamed(cs[j].name, declared) = type
    BY <1>1, <1>2, <2>1, Zenon DEF Declared
  <2>3. type # "none"
    BY <2>1, Zenon DEF AreArguments
  <2>4. type # "string"
    BY <1>2, <2>1, Zenon DEF IsString
  <2>5. type \in {"boolean", "integer", "timestamp", "float", "string", "none"}
    BY <1>1, <2>1 DEF AreComponents, IsComponent
  <2>6. type \in FourBytes
    BY <2>3, <2>4, <2>5 DEF FourBytes, Types
  <2>7. ASSUME declared = << >> PROVE FALSE
    <3>1. {i \in DOMAIN declared : declared[i].name = cs[j].name} = {}
      BY <2>7
    <3>2. TypeNamed(cs[j].name, declared) = "none"
      BY <3>1, Zenon DEF TypeNamed
    <3> QED
      BY <2>2, <2>3, <3>2
  <2> QED
    BY <2>2, <2>6, <2>7
<1> QED
  BY <1>2 DEF Known

(* What perform_action understands of a message that has a name and        *)
(* arguments.                                                              *)
Tells(m, name, cs) ==
  /\ Found(m, ATTR_NAME) /\ AttributeValue(m, ATTR_NAME) = name
  /\ Found(m, ATTR_ARGUMENTS) /\ AttributeValue(m, ATTR_ARGUMENTS) = Layout(cs)

(* It understands the name and the arguments, and all of the message if    *)
(* the first action of that name knows the types of the numbers.           *)
LEMMA ToldIsUnderstood ==
  ASSUME ModelInv, NEW m, NEW r, Tells(m, r.name, r.args), AreArguments(r.args)
  PROVE  /\ Understood(m).what = "action" =>
              Understood(m).name = r.name /\ Understood(m).args = Meaning(r.args)
         /\ \A action \in Asked(r) :
              Declared(r.args, action.args.items) => Understood(m).what = "action"
<1>1. PICK items, cs, name : items = device.actions.items /\ cs = r.args /\ name = r.name
  OBVIOUS
<1>2. PICK named : named = {i \in DOMAIN items : items[i].name = name}
  OBVIOUS
<1>3. named \in SUBSET Nat
  <2>1. items \in Seq(ActionOptions)
    BY <1>1 DEF ModelInv, Devices, ListsOf
  <2> QED
    BY <1>2, <2>1, LenProperties
<1>4. PICK attr : attr = Layout(cs)
  OBVIOUS
<1>5. PICK action : action = items[First(named)]
  OBVIOUS
<1>6. PICK args : args = ProcessArguments(attr, action.args.items)
  OBVIOUS
<1>7. Understood(m) =
        IF named = {} THEN Nothing
        ELSE IF action.args = NoList /\ \E j \in 1..attr[1] : Bit(attr[attr[1] + 2], j - 1) = 0
          THEN [what |-> "crash"]
        ELSE IF args.ok THEN [what |-> "action", name |-> action.name, args |-> args.dict]
        ELSE Nothing
  <2>1. {i \in DOMAIN device.actions.items :
           Found(m, ATTR_NAME) /\ device.actions.items[i].name = AttributeValue(m, ATTR_NAME)}
          = named
    BY <1>1, <1>2 DEF Tells
  <2>2. Found(m, ATTR_ARGUMENTS) /\ AttributeValue(m, ATTR_ARGUMENTS) = attr
    BY <1>1, <1>4 DEF Tells
  <2> QED
    BY <1>1, <1>5, <1>6, <2>1, <2>2, Zenon DEF Understood, First
<1>8. args = IF Known(cs, action.args.items) THEN [ok |-> TRUE, dict |-> Meaning(cs)]
             ELSE NoArguments
  BY <1>1, <1>4, <1>6, ArgumentsAreRead
<1>9. Asked(r) = {items[i] : i \in {k \in named : \A l \in named : k <= l}}
  BY <1>1, <1>2, Zenon DEF Asked
<1>10. CASE named = {}
  <2>1. Understood(m).what # "action"
    BY <1>7, <1>10 DEF Nothing
  <2>2. Asked(r) = {}
    BY <1>9, <1>10
  <2> QED
    BY <2>1, <2>2
<1>11. CASE named # {}
  <2>1. Asked(r) = {action} /\ action.name = name
    <3>1. {k \in named : \A l \in named : k <= l} = {First(named)} /\ First(named) \in named
      BY <1>3, <1>11, FirstIs
    <3> QED
      BY <1>2, <1>5, <1>9, <3>1
  <2>2. ASSUME Understood(m).what = "action"
        PROVE  Understood(m).name = name /\ Understood(m).args = Meaning(cs)
    <3>1. ASSUME ~args.ok PROVE FALSE
      BY <1>7, <2>2, <3>1 DEF Nothing
    <3>2. Understood(m) = [what |-> "action", name |-> action.name, args |-> args.dict]
      BY <1>7, <2>2 DEF Nothing
    <3>3. args.dict = Meaning(cs)
      BY <1>8, <3>1 DEF NoArguments
    <3> QED
      BY <2>1, <3>2, <3>3
  <2>3. ASSUME Declared(cs, action.args.items) PROVE Understood(m).what = "action"
    <3>1. Known(cs, action.args.items)
      BY <1>1, <2>3, DeclaredIsKnown
    <3>2. args.ok
      BY <1>8, <3>1
    <3>3. ~(action.args = NoList /\ \E j \in 1..attr[1] : Bit(attr[attr[1] + 2], j - 1) = 0)
      <4> SUFFICES ASSUME action.args = NoList, NEW j \in 1..attr[1],
                          Bit(attr[attr[1] + 2], j - 1) = 0
                   PROVE  FALSE
        BY Zenon
      <4>1. action.args.items = << >>
        BY DEF NoList
      <4>2. \A k \in 1..Len(cs) : IsString(cs[k])
        BY <1>1, <2>3, <4>1, DeclaredIsKnown
      <4>3. attr[1] = Len(cs)
        BY <1>1, <1>4, ArgumentsAreRead, Zenon
      <4>4. \A k \in 1..Len(cs) : Bit(attr[Len(cs) + 2], k - 1) = 1 <=> IsString(cs[k])
        BY <1>1, <1>4, ArgumentsAreRead, Zenon
      <4>5. j \in 1..Len(cs) /\ Bit(attr[Len(cs) + 2], j - 1) = 0
        BY <4>3, Zenon
      <4>6. Bit(attr[Len(cs) + 2], j - 1) = 1
        BY <4>2, <4>4, <4>5, Zenon
      <4> QED
        BY <4>5, <4>6
    <3>4. Understood(m) = [what |-> "action", name |-> action.name, args |-> args.dict]
      BY <1>7, <1>11, <3>2, <3>3, Zenon
    <3> QED
      BY <3>4
  <2> QED
    BY <1>1, <2>1, <2>2, <2>3
<1> QED
  BY <1>10, <1>11

(* A request of the server has them, or it is not complete.                *)
LEMMA ActionIsMeant ==
  ASSUME ModelInv, NEW r \in Requests, r.method = M_ACTION, r.class = CL_REQUEST
  PROVE  /\ Understood(Received(r)).what = "action" =>
              /\ Understood(Received(r)).name = r.name
              /\ Understood(Received(r)).args = Meaning(r.args)
         /\ r.complete => \A action \in Asked(r) :
              Declared(r.args, action.args.items) => Understood(Received(r)).what = "action"
<1>1. MeansAction(r)
  BY ServerAssumption
<1>2. ATTR_NAME # ATTR_MESSAGE_INTEGRITY /\ ATTR_ARGUMENTS # ATTR_MESSAGE_INTEGRITY
  BY DEF ATTR_NAME, ATTR_ARGUMENTS, ATTR_MESSAGE_INTEGRITY
<1>3. PICK m : m = Received(r)
  OBVIOUS
<1>4. CASE Has(r, ATTR_NAME) /\ Has(r, ATTR_ARGUMENTS)
  <2>1. Found(m, ATTR_NAME) /\ AttributeValue(m, ATTR_NAME) = r.name
    <3>1. PICK i \in DOMAIN r.attrs :
            r.attrs[i].type = ATTR_NAME /\ Reads(m, ATTR_NAME, r.attrs[i].value)
      BY <1>2, <1>3, <1>4, AttributesAreRead
    <3>2. r.attrs[i].value = r.name
      BY <1>1, <3>1, Zenon DEF MeansAction, Says
    <3> QED
      BY <3>1, <3>2, Zenon DEF Reads
  <2>2. Found(m, ATTR_ARGUMENTS) /\ AttributeValue(m, ATTR_ARGUMENTS) = Layout(r.args)
    <3>1. PICK i \in DOMAIN r.attrs :
            r.attrs[i].type = ATTR_ARGUMENTS /\ Reads(m, ATTR_ARGUMENTS, r.attrs[i].value)
      BY <1>2, <1>3, <1>4, AttributesAreRead
    <3>2. r.attrs[i].value = Layout(r.args)
      BY <1>1, <3>1, Zenon DEF MeansAction, Says
    <3> QED
      BY <3>1, <3>2, Zenon DEF Reads
  <2>3. Tells(m, r.name, r.args) /\ AreArguments(r.args)
    BY <1>1, <2>1, <2>2, Zenon DEF Tells, MeansAction
  <2> QED
    BY <1>3, <2>3, ToldIsUnderstood, Zenon
<1>5. CASE ~Has(r, ATTR_NAME) \/ ~Has(r, ATTR_ARGUMENTS)
  <2>1. ~r.complete
    BY <1>1, <1>5, Zenon DEF MeansAction
  <2>2. ~Found(m, ATTR_NAME) \/ ~Found(m, ATTR_ARGUMENTS)
    <3>1. CASE ~Has(r, ATTR_NAME)
      BY <1>2, <1>3, <3>1, AttributesAreRead, ZenonT(40)
    <3>2. CASE ~Has(r, ATTR_ARGUMENTS)
      BY <1>2, <1>3, <3>2, AttributesAreRead, ZenonT(40)
    <3> QED
      BY <1>5, <3>1, <3>2, Zenon
  <2>3. Understood(m) = Nothing
    BY <2>2 DEF Understood
  <2>4. Nothing.what # "action"
    BY DEF Nothing
  <2> QED
    BY <1>3, <2>1, <2>3, <2>4, Zenon
<1> QED
  BY <1>4, <1>5

-----------------------------------------------------------------------------
(* What is learnt of any message                                           *)

(* What a message says, as the device has it.                              *)
IsMeant(r, got) ==
  /\ got.what = "action" => got.name = r.name /\ got.args = Meaning(r.args)
  /\ r.method = M_ACTION /\ r.class = CL_REQUEST /\ r.complete =>
       \A action \in Asked(r) : Declared(r.args, action.args.items) => got.what = "action"
  /\ got.what = "error" => got.code = r.code /\ got.time = r.time

(* perform_action learns of no error.                                      *)
LEMMA UnderstoodIs == \A m : Understood(m).what # "error"
<1> SUFFICES ASSUME NEW m PROVE Understood(m).what # "error"
  OBVIOUS
<1>1. \/ Understood(m) = Nothing
      \/ Understood(m) = [what |-> "crash"]
      \/ \E name, args : Understood(m) = [what |-> "action", name |-> name, args |-> args]
  BY Zenon DEF Understood
<1> QED
  BY <1>1 DEF Nothing

(* A message changes nothing of the device, nor does setup() go on.        *)
LEMMA RunsOn ==
  ASSUME NEW r, NEW g, ProcessMessage(r, g)
  PROVE  phase' # "setup" /\ device' = device
<1>1. phase = "running" /\ device' = device
  BY DEF ProcessMessage, Idle
<1>2. \/ HandleError(r) \/ HandleAction(r, g) \/ HandleStatusRequest(r, g)
      \/ UNCHANGED phase
  BY Zenon DEF ProcessMessage
<1>3. UNCHANGED phase \/ phase' = "dead"
  BY <1>2 DEF HandleError, HandleAction, HandleStatusRequest
<1> QED
  BY <1>1, <1>3

(* Whatever process_messages does with a message.                          *)
LEMMA ProcessedIsMeant ==
  ASSUME ModelInv, NEW r \in Requests, NEW g, ProcessMessage(r, g)
  PROVE  \E got : learnt' = [from |-> r, got |-> got] /\ IsMeant(r, got)
<1> DEFINE type == GetMethodAndClass(Received(r).bytes)
<1>1. type = [method |-> r.method, class |-> r.class]
  BY HeadersAreRead, Zenon
<1>2. type.class = r.class /\ (type = [method |-> M_ACTION, class |-> CL_REQUEST] <=>
                                r.method = M_ACTION /\ r.class = CL_REQUEST)
      /\ (type = [method |-> M_STATUS_REQUEST, class |-> CL_REQUEST] <=>
          r.method = M_STATUS_REQUEST /\ r.class = CL_REQUEST)
  BY <1>1
<1>3. CL_ERROR # CL_REQUEST /\ M_ACTION # M_STATUS_REQUEST
  BY DEF CL_ERROR, CL_REQUEST, M_ACTION, M_STATUS_REQUEST
<1>4. \/ type.class = CL_ERROR /\ HandleError(r)
      \/ type = [method |-> M_ACTION, class |-> CL_REQUEST] /\ HandleAction(r, g)
      \/ /\ type = [method |-> M_STATUS_REQUEST, class |-> CL_REQUEST]
         /\ HandleStatusRequest(r, g)
      \/ /\ type # [method |-> M_ACTION, class |-> CL_REQUEST]
         /\ learnt' = [from |-> r, got |-> Nothing]
  BY Zenon DEF ProcessMessage
<1> HIDE DEF type
<1>5. CASE type.class = CL_ERROR /\ HandleError(r)
  <2>1. learnt' = [from |-> r, got |-> ErrorRead(Received(r))]
    BY <1>5, Zenon DEF HandleError, ErrorRead
  <2>2. r.class = CL_ERROR /\ ~(r.method = M_ACTION /\ r.class = CL_REQUEST)
    BY <1>2, <1>3, <1>5
  <2>3. PICK got : got = ErrorRead(Received(r))
    OBVIOUS
  <2>4. got.what = "error" /\ got.code = r.code /\ got.time = r.time
    BY <2>2, <2>3, ErrorIsMeant
  <2>5. IsMeant(r, got)
    BY <2>2, <2>4 DEF IsMeant
  <2> QED
    BY <2>1, <2>3, <2>5
<1>6. CASE type = [method |-> M_ACTION, class |-> CL_REQUEST] /\ HandleAction(r, g)
  <2>1. learnt' = [from |-> r, got |-> Understood(Received(r))]
    BY <1>6, Zenon DEF HandleAction
  <2>2. r.method = M_ACTION /\ r.class = CL_REQUEST
    BY <1>2, <1>6
  <2>3. PICK got : got = Understood(Received(r))
    OBVIOUS
  <2>4. got.what # "error"
    BY <2>3, UnderstoodIs
  <2>5. IsMeant(r, got)
    BY <2>2, <2>3, <2>4, ActionIsMeant DEF IsMeant
  <2> QED
    BY <2>1, <2>3, <2>5
<1>7. ASSUME ~(r.method = M_ACTION /\ r.class = CL_REQUEST) PROVE IsMeant(r, Nothing)
  <2>1. Nothing.what # "action" /\ Nothing.what # "error"
    BY DEF Nothing
  <2> QED
    BY <1>7, <2>1 DEF IsMeant
<1>8. CASE /\ type = [method |-> M_STATUS_REQUEST, class |-> CL_REQUEST]
           /\ HandleStatusRequest(r, g)
  <2>1. learnt' = [from |-> r, got |-> Nothing]
    BY <1>8, Zenon DEF HandleStatusRequest
  <2>2. ~(r.method = M_ACTION /\ r.class = CL_REQUEST)
    BY <1>2, <1>3, <1>8
  <2> QED
    BY <1>7, <2>1, <2>2
<1>9. CASE /\ type # [method |-> M_ACTION, class |-> CL_REQUEST]
           /\ learnt' = [from |-> r, got |-> Nothing]
  BY <1>2, <1>7, <1>9
<1> QED
  BY <1>4, <1>5, <1>6, <1>8, <1>9

-----------------------------------------------------------------------------
(* Nothing is learnt while setup() runs, and what is learnt is meant by a  *)
(* message of the server.                                                  *)
LearntInv ==
  /\ phase = "setup" => learnt = NothingLearnt
  /\ learnt = NothingLearnt
       \/ \E r \in Requests : \E got : learnt = [from |-> r, got |-> got] /\ IsMeant(r, got)

(* Every step keeps that.                                                  *)
LEMMA LearntInvNext ==
  ASSUME ModelInv, LearntInv, [Next]_vars
  PROVE  LearntInv'
<1>1. ASSUME learnt' = NothingLearnt PROVE LearntInv'
  BY <1>1 DEF LearntInv
<1>2. CASE Setup /\ UNCHANGED <<call, wire, learnt>>
  <2>1. phase = "setup"
    BY <1>2 DEF Setup, AddStatusComponent, AddAction, AddEvent, GenerateDescriptor
  <2> QED
    BY <1>1, <1>2, <2>1 DEF LearntInv
<1>3. CASE Release
  BY <1>1, <1>3 DEF Release
<1>4. ASSUME NEW g \in Garbage, SendKeepalive(g) PROVE LearntInv'
  BY <1>1, <1>4 DEF SendKeepalive, LearnsNothing
<1>5. ASSUME NEW g \in Garbage, StoreStatus(g) PROVE LearntInv'
  BY <1>1, <1>5 DEF StoreStatus, LearnsNothing
<1>6. ASSUME NEW g \in Garbage, NEW name \in EventNames, NEW text \in Texts,
             NEW cs \in Payloads, SendEvent(name, text, cs, g)
      PROVE  LearntInv'
  BY <1>1, <1>6 DEF SendEvent, LearnsNothing
<1>7. ASSUME NEW g \in Garbage, NEW r \in Requests, ProcessMessage(r, g) PROVE LearntInv'
  <2>1. PICK got : learnt' = [from |-> r, got |-> got] /\ IsMeant(r, got)
    BY <1>7, ProcessedIsMeant
  <2>2. phase' # "setup" /\ device' = device
    BY <1>7, RunsOn
  <2>3. IsMeant(r, got)'
    BY <2>1, <2>2 DEF IsMeant, Asked
  <2> QED
    BY <2>1, <2>2, <2>3 DEF LearntInv
<1>8. CASE UNCHANGED vars
  BY <1>8 DEF vars, modelVars, LearntInv, IsMeant, Asked
<1> QED
  BY <1>2, <1>3, <1>4, <1>5, <1>6, <1>7, <1>8, Zenon DEF Next

(* The inductive invariant of what is learnt.                              *)
LEMMA LearntInvariant == Spec => []LearntInv
<1>1. Init => LearntInv
  BY DEF Init, LearntInv
<1>2. ModelInv /\ LearntInv /\ [Next]_vars => LearntInv'
  BY LearntInvNext
<1> QED
  BY <1>1, <1>2, ModelInvariant, PTL DEF Spec

(* An action function gets the name and the arguments the server sent, and *)
(* every good request of an action is understood; an error tells the code  *)
(* and the time that are in it (perform_action,                            *)
(* process_arguments_attribute, process_messages).                         *)
THEOREM LearntAlwaysMeant == Spec => []LearntIsMeant
<1>1. LearntInv => LearntIsMeant
  <2> SUFFICES ASSUME LearntInv, learnt.from # NoCall
               PROVE  LET r == learnt.from IN
                      /\ GetMethodAndClass(Received(r).bytes) = [method |-> r.method, class |-> r.class]
                      /\ ProcessMethodAndClass(Received(r).bytes)
                           = GetMethodAndClass(Received(r).bytes)
                      /\ IsMeant(r, learnt.got)
    BY Zenon DEF LearntIsMeant, IsMeant
  <2>1. learnt # NothingLearnt
    BY DEF NothingLearnt
  <2>2. PICK r \in Requests :
          \E got : learnt = [from |-> r, got |-> got] /\ IsMeant(r, got)
    BY <2>1 DEF LearntInv
  <2>3. learnt.from = r /\ IsMeant(r, learnt.got)
    BY <2>2
  <2> QED
    BY <2>3, HeadersAreRead, Zenon
<1> QED
  BY <1>1, LearntInvariant, PTL
=============================================================================
