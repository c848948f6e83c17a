----------------------------- MODULE StunMessage -----------------------------
(***************************************************************************)
(* The layout of STUN messages (core/stun-messaging/stun_message.c), byte  *)
(* by byte: a header of 20 bytes with the type, the length of what follows,*)
(* the magic cookie and a transaction id; then attributes, each a type, a  *)
(* length and a value padded to a multiple of four.  A message of the      *)
(* device is a record of its bytes, its length in memory and what its      *)
(* integrity attribute signs: HMAC-SHA1 (core/crypto) is symbolic, a       *)
(* signature is the key and the bytes that went into it.                   *)
(***************************************************************************)
EXTENDS Bytes

HeaderLen == 20    \* STUN_MIN_MESS_LEN
MacLen == 20       \* STUN_ATTR_MESS_INTEGR_VALUE_LEN
MacAttrLen == 24   \* STUN_ATTR_MESS_INTEGR_LEN
MagicCookie == <<33, 18, 164, 66>>

CL_REQUEST == 0
CL_INDICATION == 16
CL_SUCCESS == 256
CL_ERROR == 272

Classes == {CL_REQUEST, CL_INDICATION, CL_SUCCESS, CL_ERROR}
Methods == 0..4095   \* twelve bits

M_STATUS_REQUEST == 2798   \* 0x0AEE
M_EVENT == 3812            \* 0x0EE4
M_ACTION == 3813           \* 0x0EE5
M_STORE_STATUS == 3815     \* 0x0EE7
M_KEEP_ALIVE == 3818       \* 0x0EEA

ATTR_USERNAME == 6
ATTR_MESSAGE_INTEGRITY == 8
ATTR_ERROR_CODE == 9
ATTR_TIMESTAMP == 3073     \* 0x0C01
ATTR_LYNCPORT_ID == 3075   \* 0x0C03
ATTR_NAME == 3090          \* 0x0C12
ATTR_SERVER_TIME == 3091   \* 0x0C13
ATTR_PAYLOAD == 3096       \* 0x0C18
ATTR_ARGUMENTS == 3097     \* 0x0C19

Unsigned == [key |-> "none", bytes |-> << >>, at |-> 0]

Padding(n) == (4 - (n % 4)) % 4

-----------------------------------------------------------------------------
(* Building a message                                                      *)

(* stun_new_empty_stun_message; g is what malloc and realloc leave in the  *)
(* memory they return, trId what rand() gives.                             *)
NewMessage(trId, g) ==
  [bytes |-> Write(Write(Write(Block(HeaderLen, g), 2, U16(0)), 4, MagicCookie),
                   8, trId),
   length |-> HeaderLen,
   signed |-> Unsigned]

(* realloc: a longer block ends with what was left in memory.              *)
Realloc(m, length, g) ==
  [i \in 0..(length - 1) |-> IF i < m.length THEN m.bytes[i] ELSE g]

(* stun_add_attribute.  The block is made larger when the attribute does   *)
(* not fit in it; the place of the attribute is computed in 8 bits.        *)
AttributeStart(declared) == (declared + HeaderLen) % 256

AddAttribute(m, type, value, g) ==
  LET declared == ReadU16(m.bytes, 2)
      pad == [i \in 1..Padding(Len(value)) |-> 0]
      item == U16(type) \o U16(Len(value)) \o value \o pad
      needed == Uint16(declared + HeaderLen + Len(value) + Len(pad) + 4)
      length == IF needed > m.length THEN needed ELSE m.length
  IN  [bytes |-> Write(Write(Realloc(m, length, g), AttributeStart(declared), item),
                       2, U16(needed - HeaderLen)),
       length |-> length,
       signed |-> m.signed]

(* stun_set_method_and_class: as if bit 7 of the method stayed with the    *)
(* bits below it, and as it is: twelve bits of the method with the two of  *)
(* the class at places 4 and 8 between them.                               *)
TypeBytesUnsplit(method, class) ==
  LET low == method % 256
      high == (method \div 256) % 16
  IN  <<4 * high + (IF class \in {CL_SUCCESS, CL_ERROR} THEN 1 ELSE 0),
        (low % 16) + 32 * ((low \div 16) % 8)
          + (IF class \in {CL_ERROR, CL_INDICATION} THEN 16 ELSE 0)>>

TypeBytes(method, class) ==
  LET low == method % 256
      high == (method \div 256) % 16
  IN  <<4 * high + 2 * (low \div 128)
          + (IF class \in {CL_SUCCESS, CL_ERROR} THEN 1 ELSE 0),
        (low % 16) + 32 * ((low \div 16) % 8)
          + (IF class \in {CL_ERROR, CL_INDICATION} THEN 16 ELSE 0)>>

SetMethodAndClass(m, method, class) ==
  [m EXCEPT !.bytes = Write(@, 0, TypeBytes(method, class))]

(* The bytes a signature covers, with the integrity attribute, which is    *)
(* to follow, already counted in the length of the header.                 *)
Counted(bytes, declared) == Write(bytes, 2, U16(declared + MacAttrLen))

(* stun_set_message_integrity; the key is made lower case first.           *)
SetIntegrity(m, g) ==
  LET declared == ReadU16(m.bytes, 2)
      mac == [i \in 1..MacLen |-> 0]
  IN  [AddAttribute(m, ATTR_MESSAGE_INTEGRITY, mac, g) EXCEPT
        !.signed = [key |-> "lower",
                    bytes |-> Read(Counted(m.bytes, declared), 0,
                                   declared + HeaderLen),
                    at |-> AttributeStart(declared) + 4]]

-----------------------------------------------------------------------------
(* Reading a message                                                       *)

(* stun_is_well_formed                                                     *)
WellFormed(bytes, length) ==
  /\ length >= HeaderLen
  /\ bytes[0] < 64
  /\ Read(bytes, 4, 4) = MagicCookie
  /\ ReadU16(bytes, 2) = length - HeaderLen

(* A 16-bit number in a message.  One that goes over the end, which takes  *)
(* a malformed message, is taken for 0.                                    *)
WordAt(bytes, length, p) == IF p + 2 <= length THEN ReadU16(bytes, p) ELSE 0

(* stun_get_attribute: the place of the first attribute with that code, or *)
(* 0.  It reads on for as long as it is before the end.                    *)
GetAttribute(m, code) ==
  LET from[p \in Nat] ==
        IF p >= m.length THEN 0
        ELSE IF WordAt(m.bytes, m.length, p) = code THEN p
        ELSE LET len == WordAt(m.bytes, m.length, p + 2)
             IN  from[p + len + Padding(len) + 4]
  IN  from[HeaderLen]

Found(m, code) == GetAttribute(m, code) # 0
AttributeValue(m, code) ==
  LET p == GetAttribute(m, code) IN Read(m.bytes, p + 4, ReadU16(m.bytes, p + 2))

(* stun_is_integrity_correct: the last 24 bytes are taken for the          *)
(* integrity attribute, all before them for what is signed.  For messages  *)
(* of at least 24 bytes: inlen, a uint16, wraps for a shorter one.         *)
IntegrityCorrect(m, key) ==
  m.signed = [key |-> key, bytes |-> Read(m.bytes, 0, m.length - MacAttrLen),
              at |-> m.length - MacLen]

(* stun_get_method_and_class, which process_messages uses ...              *)
GetMethodAndClass(bytes) ==
  LET t == ReadU16(bytes, 0)
  IN  [method |-> (t % 16) + 16 * ((t \div 32) % 8) + 128 * ((t \div 512) % 8)
                    + 1024 * ((t \div 4096) % 4),
       class |-> 16 * ((t \div 16) % 2) + 256 * ((t \div 256) % 2)]

(* ... and what stun_process_stun_message reads into the message.          *)
ProcessMethodAndClass(bytes) ==
  [method |-> 256 * (bytes[0] \div 4) + (bytes[1] % 16) + 16 * ((bytes[1] \div 32) % 8)
                + 128 * ((bytes[0] \div 2) % 2),
   class |-> 256 * (bytes[0] % 2) + 16 * ((bytes[1] \div 16) % 2)]

(* process_messages and stun_get_error_code: hundreds and remainder.       *)
ErrorCode(m) ==
  LET p == GetAttribute(m, ATTR_ERROR_CODE) + 4
  IN  100 * m.bytes[p + 2] + m.bytes[p + 3]
=============================================================================
