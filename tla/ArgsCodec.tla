------------------------------ MODULE ArgsCodec ------------------------------
(***************************************************************************)
(* The attribute ATTR_ARGUMENTS (core/lhings.c): the status of the device  *)
(* on its way to the server, build_arguments_attribute, and the arguments  *)
(* of an action on their way to the device, process_arguments_attribute.   *)
(* Its value is the number n of components, a byte for the length of each  *)
(* but for 4, a mask that tells strings from values of four bytes, then    *)
(* the components one after another.                                       *)
(***************************************************************************)
EXTENDS Bytes

Types == {"integer", "float", "string", "timestamp", "boolean", "none"}
FourBytes == Types \ {"string", "none"}

MaxComponents == 8

(* A component is a name, a type and a value: a string or a uint32, which  *)
(* for a float holds its bits.                                             *)
IsString(c) == c.type = "string"
Zero == <<0, 0>>
One == <<0, 1>>

Bit(byte, j) == (byte \div 2^j) % 2
SetBit(byte, j) == byte + (1 - Bit(byte, j)) * 2^j

(* The value of a component of four bytes, as it goes into the attribute.  *)
FourByteValue(c) ==
  IF c.type = "boolean" THEN IF c.value = Zero THEN Zero ELSE One ELSE c.value

-----------------------------------------------------------------------------
(* build_arguments_attribute                                               *)

(* The size that is allocated.                                             *)
AllocatedSize(cs) ==
  2 + Len(cs)
    + SumOf(LAMBDA c : Len(c.name) + (IF IsString(c) THEN Len(c.value) ELSE 0) + 4, cs)

(* One round of the loop, for the component with index j; a string moves   *)
(* the place of the next component on by the length of its value twice.    *)
(* If that is more than its name and value take, the bytes of a later      *)
(* component that go beyond the memory allocated are left out: where they  *)
(* are written to is not modelled.  As if the mask was indexed from 1, and *)
(* as it is.                                                               *)
PutComponentShifted(st, c, n, j) ==
  LET item == U16(Len(c.value)) \o U16(Len(c.name)) \o c.value \o c.name
      mask == Write(st.mem, n + 1, <<SetBit(st.mem[n + 1], (j + 1) % 8)>>)
  IN  IF IsString(c) THEN
        [mem |-> Write(Write(mask, st.pos, item), j + 1,
                       <<(Len(c.value) + Len(c.name)) % 256>>),
         pos |-> st.pos + 4 + 2 * Len(c.value)]
      ELSE [mem |-> Write(Write(st.mem, st.pos, U32(FourByteValue(c)) \o c.name), j + 1,
                          <<Len(c.name) % 256>>),
            pos |-> st.pos + 4 + Len(c.name)]

PutComponent(st, c, n, j) ==
  IF IsString(c) THEN
    LET item == U16(Len(c.value)) \o U16(Len(c.name)) \o c.value \o c.name
        mask == Write(st.mem, n + 1, <<SetBit(st.mem[n + 1], j)>>)
    IN  [mem |-> Write(Write(mask, st.pos, item), j + 1,
                       <<(Len(c.value) + Len(c.name)) % 256>>),
         pos |-> st.pos + 4 + 2 * Len(c.value)]
  ELSE IF c.type \in FourBytes THEN
    [mem |-> Write(Write(st.mem, st.pos, U32(FourByteValue(c)) \o c.name), j + 1,
                   <<Len(c.name) % 256>>),
     pos |-> st.pos + 4 + Len(c.name)]
  ELSE st

(* The memory after the loop.  The memset before it sets no byte: g is     *)
(* what malloc returned.                                                   *)
Filled(cs, g) ==
  LET n == Len(cs)
      put[j \in 0..n] ==
        IF j = 0
        THEN [mem |-> Write(Block(AllocatedSize(cs), g), 0, <<n>>), pos |-> 2 + n]
        ELSE PutComponent(put[j - 1], cs[j], n, j - 1)
  IN  put[n].mem

BuildArguments(cs, g) == Read(Filled(cs, g), 0, AllocatedSize(cs))

-----------------------------------------------------------------------------
(* process_arguments_attribute                                             *)

NoArguments == [ok |-> FALSE, dict |-> << >>]

(* action_get_component_type: of the first argument with that name.        *)
TypeNamed(name, declared) ==
  LET named == {i \in DOMAIN declared : declared[i].name = name}
  IN  IF named = {} THEN "none"
      ELSE declared[CHOOSE i \in named : \A k \in named : i <= k].type

(* One round of the loop: the name and the value of the argument at pos;   *)
(* it is an error if the mask does not say string and the action does not  *)
(* know it as a value of four bytes.                                       *)
FourByteArgument(mem, j, pos, declared) ==
  LET name == Read(mem, pos + 4, mem[j + 1])
  IN  [name |-> name, value |-> ReadU32(mem, pos),
       ok |-> TypeNamed(name, declared) \in FourBytes]

(* As if the name of a string came before its value, and as it is.         *)
ArgumentSwapped(mem, n, j, pos, declared) ==
  IF Bit(mem[n + 1], j) = 1
  THEN LET valueLen == ReadU16(mem, pos)
           nameLen == ReadU16(mem, pos + 2)
       IN  [name |-> Read(mem, pos + 4, nameLen),
            value |-> Read(mem, pos + 4 + nameLen, valueLen), ok |-> TRUE]
  ELSE FourByteArgument(mem, j, pos, declared)

Argument(mem, n, j, pos, declared) ==
  IF Bit(mem[n + 1], j) = 1
  THEN LET valueLen == ReadU16(mem, pos)
           nameLen == ReadU16(mem, pos + 2)
       IN  [name |-> Read(mem, pos + 4 + valueLen, nameLen),
            value |-> Read(mem, pos + 4, valueLen), ok |-> TRUE]
  ELSE FourByteArgument(mem, j, pos, declared)

(* The place of the argument with index j.                                 *)
ArgumentPlace(mem, n, j) ==
  LET place[k \in 0..j] == IF k = 0 THEN n + 2 ELSE place[k - 1] + mem[k] + 4
  IN  place[j]

(* The dictionary: of two arguments of the same name the last one stays.   *)
Dictionary(args) ==
  [name \in {args[j].name : j \in DOMAIN args} |->
     args[CHOOSE j \in DOMAIN args :
            args[j].name = name /\ \A k \in DOMAIN args : args[k].name = name => k <= j].value]

ProcessArguments(attr, declared) ==
  LET mem == [i \in 0..(Len(attr) - 1) |-> attr[i + 1]]
      n == mem[0]
      args == [j \in 1..n |->
                 Argument(mem, n, j - 1, ArgumentPlace(mem, n, j - 1), declared)]
  IN  IF n <= MaxComponents /\ \A j \in 1..n : args[j].ok
      THEN [ok |-> TRUE, dict |-> Dictionary(args)]
      ELSE NoArguments

-----------------------------------------------------------------------------
(* What the layout is meant to be, and what it stands for.                 *)

ItemLayout(c) ==
  IF IsString(c) THEN U16(Len(c.value)) \o U16(Len(c.name)) \o c.value \o c.name
  ELSE U32(FourByteValue(c)) \o c.name

MaskOf(cs) ==
  CHOOSE mask \in Byte :
    \A j \in 1..MaxComponents :
      Bit(mask, j - 1) = 1 <=> j \in DOMAIN cs /\ IsString(cs[j])

Layout(cs) ==
  LET n == Len(cs)
      items[j \in 0..n] == IF j = 0 THEN << >> ELSE items[j - 1] \o ItemLayout(cs[j])
  IN  <<n>> \o [j \in 1..n |-> Len(ItemLayout(cs[j])) - 4] \o <<MaskOf(cs)>> \o items[n]

Meaning(cs) ==
  Dictionary([j \in 1..Len(cs) |->
                [name |-> cs[j].name,
                 value |-> IF IsString(cs[j]) THEN cs[j].value ELSE FourByteValue(cs[j])]])
=============================================================================
