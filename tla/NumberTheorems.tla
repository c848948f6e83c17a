---------------------------- MODULE NumberTheorems ----------------------------
(***************************************************************************)
(* Facts about numbers that several proofs need.  The remainder by a       *)
(* constant of unknown value, for counters and clocks that wrap around:    *)
(* the provers know the quotient and the remainder of one division, and    *)
(* what relates several is derived here.  And induction, for what the code *)
(* does in loops over slots and lists of any length.                       *)
(***************************************************************************)
EXTENDS Integers, WellFoundedInduction, TLAPS

-----------------------------------------------------------------------------
(* Remainders                                                              *)

(* The remainder is what is left of the quotient, and one of 0..W-1.       *)
LEMMA ModDef ==
  ASSUME NEW W \in Nat \ {0}, NEW a \in Int
  PROVE  /\ a \div W \in Int
         /\ a % W \in 0..(W - 1)
         /\ a = W * (a \div W) + (a % W)
OBVIOUS

(* It is the only one.                                                     *)
LEMMA ModUnique ==
  ASSUME NEW W \in Nat \ {0}, NEW q \in Int, NEW r \in 0..(W - 1)
  PROVE  (W * q + r) % W = r
OBVIOUS

(* Whole multiples of the modulus do not matter.                           *)
LEMMA ModPeriodic ==
  ASSUME NEW W \in Nat \ {0}, NEW a \in Int, NEW k \in Int
  PROVE  (a + W * k) % W = a % W
<1>1. PICK q \in Int, r \in 0..(W - 1) : a = W * q + r
  BY ModDef
<1>2. a % W = r
  BY <1>1, ModUnique
<1>3. q + k \in Int /\ a + W * k = W * (q + k) + r
  BY <1>1
<1>4. (W * (q + k) + r) % W = r
  BY <1>3, ModUnique
<1> QED
  BY <1>2, <1>3, <1>4

(* The remainder of a sum or of a difference may be taken at any point.    *)
LEMMA ModAdd ==
  ASSUME NEW W \in Nat \ {0}, NEW a \in Int, NEW b \in Int
  PROVE  ((a % W) + b) % W = (a + b) % W
<1>0. a \div W \in Int /\ a % W \in Int /\ a = W * (a \div W) + (a % W)
  BY ModDef
<1>1. PICK q \in Int, r \in Int : a = W * q + r /\ a % W = r
  BY <1>0, Zenon
<1>2. r + b \in Int /\ a + b = (r + b) + W * q
  BY <1>1
<1>3. ((r + b) + W * q) % W = (r + b) % W
  BY <1>2, ModPeriodic
<1> QED
  BY <1>1, <1>2, <1>3

(* A number that is subtracted may be reduced,                             *)
LEMMA ModSub ==
  ASSUME NEW W \in Nat \ {0}, NEW a \in Int, NEW b \in Int
  PROVE  (a - (b % W)) % W = (a - b) % W
<1>0. b \div W \in Int /\ b % W \in Int /\ b = W * (b \div W) + (b % W)
  BY ModDef
<1>1. PICK q \in Int, r \in Int : b = W * q + r /\ b % W = r
  BY <1>0, Zenon
<1>2. a - b \in Int /\ a - r = (a - b) + W * q
  BY <1>1
<1>3. ((a - b) + W * q) % W = (a - b) % W
  BY <1>2, ModPeriodic
<1> QED
  BY <1>1, <1>2, <1>3

(* and one that is subtracted from.                                        *)
LEMMA ModMinus ==
  ASSUME NEW W \in Nat \ {0}, NEW a \in Int, NEW b \in Int
  PROVE  ((a % W) - b) % W = (a - b) % W
<1>1. PICK r \in Int : a % W = r
  BY ModDef
<1>2. -b \in Int /\ r + (-b) = r - b /\ a + (-b) = a - b
  OBVIOUS
<1>3. ((a % W) + (-b)) % W = (a + (-b)) % W
  BY <1>2, ModAdd
<1> QED
  BY <1>1, <1>2, <1>3

(* A remainder is no greater than the number, if that is not negative,     *)
(* and one more than it is at most one greater.                            *)
LEMMA ModAtMost ==
  ASSUME NEW W \in Nat \ {0}, NEW a \in Nat
  PROVE  a % W <= a
<1>1. a \div W >= 0
  BY ModDef
<1>2. W * (a \div W) >= 0
  BY <1>1, ModDef
<1> QED
  BY <1>2, ModDef

(* One more is at most one more.                                           *)
LEMMA ModSucc ==
  ASSUME NEW W \in Nat \ {0}, NEW a \in Int
  PROVE  (a + 1) % W <= (a % W) + 1
<1>1. (a % W) \in Nat /\ (a % W) + 1 \in Nat
  BY ModDef
<1>2. ((a % W) + 1) % W <= (a % W) + 1
  BY <1>1, ModAtMost
<1>3. 1 \in Int
  OBVIOUS
<1>4. ((a % W) + 1) % W = (a + 1) % W
  BY <1>3, ModAdd, Zenon
<1> QED
  BY <1>2, <1>4

(* What is within one modulus of 0..W-1 is brought there by one step.      *)
LEMMA ModSmall ==
  ASSUME NEW W \in Nat \ {0}, NEW a \in 0..(W - 1)
  PROVE  a % W = a /\ (a - W) % W = a /\ (a + W) % W = a
<1>1. a % W = a
  OBVIOUS
<1>2. (a + W * (-1)) % W = a /\ (a + W * 1) % W = a
  BY <1>1, ModPeriodic
<1> QED
  BY <1>1, <1>2

(* The difference of two readings of a clock.                              *)
LEMMA ModDifference ==
  ASSUME NEW W \in Nat \ {0}, NEW a \in 0..(W - 1), NEW b \in 0..(W - 1)
  PROVE  (a - b) % W = IF a >= b THEN a - b ELSE a - b + W
<1>1. CASE a >= b
  <2>1. a - b \in 0..(W - 1)
    BY <1>1
  <2> QED
    BY <1>1, <2>1, ModSmall
<1>2. CASE ~(a >= b)
  <2>1. a - b + W \in 0..(W - 1)
    BY <1>2
  <2>2. (a - b + W) % W = a - b + W
    BY <2>1, ModSmall
  <2>3. a - b \in Int /\ 1 \in Int /\ W * 1 = W
    OBVIOUS
  <2>4. ((a - b) + W * 1) % W = (a - b) % W
    BY <2>3, ModPeriodic, Zenon
  <2> QED
    BY <1>2, <2>2, <2>3, <2>4
<1> QED
  BY <1>1, <1>2

-----------------------------------------------------------------------------
(* Induction                                                               *)

(* A set of natural numbers that is not empty has a least element.         *)
LEMMA LeastNatural ==
  ASSUME NEW T \in SUBSET Nat, T # {}
  PROVE  \E x \in T : \A y \in T : x <= y
<1>1. IsWellFoundedOn(OpToRel(<, Nat), Nat)
  BY NatLessThanWellFounded
<1>2. PICK x \in T : \A y \in T : ~(<<y, x>> \in OpToRel(<, Nat))
  BY <1>1, WFMin
<1>3. \A y \in T : ~(y < x)
  BY <1>2 DEF OpToRel
<1> QED
  BY <1>3

(* A set that holds 0 and the successors of its elements holds all natural *)
(* numbers: induction, for a property given as the set of what has it.     *)
LEMMA NaturalInduction ==
  ASSUME NEW P \in SUBSET Nat, 0 \in P, \A n \in P : n + 1 \in P
  PROVE  \A n \in Nat : n \in P
<1> SUFFICES ASSUME Nat \ P # {} PROVE FALSE
  OBVIOUS
<1>1. PICK x \in Nat \ P : \A y \in Nat \ P : x <= y
  BY LeastNatural
<1>2. x - 1 \in Nat /\ x - 1 \notin Nat \ P
  BY <1>1
<1> QED
  BY <1>1, <1>2
===============================================================================
