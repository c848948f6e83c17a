-------------------------------- MODULE Bytes --------------------------------
(***************************************************************************)
(* Memory and the conversions of core/utils/utils.c.  A byte is 0..255; a  *)
(* block of memory is a function from the positions 0..n-1; a string, as   *)
(* it is copied into memory, is a sequence of bytes.  is_big_endian is     *)
(* tested as a pointer, so that all conversions are in network order,      *)
(* whatever the processor.  A uint32 is the pair of its halves, since TLC  *)
(* has no integers of 32 bits without sign.                                *)
(***************************************************************************)
EXTENDS Integers, Sequences

Byte == 0..255
WordSize == 256 * 256
Word == 0..(WordSize - 1)      \* a uint16_t
Uint16(n) == n % WordSize      \* what a uint16_t holds of n

(* malloc: the block holds what was left in it, here the same byte g.      *)
Block(n, g) == [i \in 0..(n - 1) |-> g]

(* memcpy into a block; what falls outside of it is not modelled.          *)
Write(mem, p, s) ==
  [i \in DOMAIN mem |-> IF i \in p..(p + Len(s) - 1) THEN s[i - p + 1] ELSE mem[i]]

Read(mem, p, n) == [i \in 1..n |-> mem[p + i - 1]]

(* uint16_to_byte_array, byte_array_to_uint16_t                            *)
U16(n) == <<(n \div 256) % 256, n % 256>>
ReadU16(mem, p) == 256 * mem[p] + mem[p + 1]

(* uint32_to_byte_array, byte_array_to_uint32                              *)
Uint32 == Word \X Word
U32(pair) == U16(pair[1]) \o U16(pair[2])
ReadU32(mem, p) == <<ReadU16(mem, p), ReadU16(mem, p + 2)>>

(* What a loop over a list adds up.                                        *)
Total(numbers) ==
  LET sum[n \in 0..Len(numbers)] == IF n = 0 THEN 0 ELSE sum[n - 1] + numbers[n]
  IN  sum[Len(numbers)]

SumOf(f(_), s) == Total([i \in 1..Len(s) |-> f(s[i])])

-----------------------------------------------------------------------------
(* uuid_string_to_byte_array: a string of hexadecimal digits, 0..15, and   *)
(* dashes.  strtol reads four characters, up to the first that is no digit.*)
Dash == 16

StrToL(uuid, p) ==
  LET digits == CHOOSE n \in 0..4 :
                  /\ \A k \in 1..n : uuid[p + k] # Dash
                  /\ n = 4 \/ uuid[p + n + 1] = Dash
      value[n \in 0..4] == IF n = 0 THEN 0 ELSE 16 * value[n - 1] + uuid[p + n]
  IN  value[digits]

(* Where the groups of four characters start.                              *)
Groups == <<0, 4, 9, 14, 19, 24, 28, 32>>

UuidBytes(uuid) ==
  [i \in 1..16 |-> U16(StrToL(uuid, Groups[(i + 1) \div 2]))[2 - (i % 2)]]
=============================================================================
