--------------------------- MODULE LoopTimersProofs ---------------------------
(***************************************************************************)
(* Theorems about LoopTimers for a clock and floats of any width, any      *)
(* intervals, and a time of day that is set any number of times, on or     *)
(* back by any amount.                                                     *)
(***************************************************************************)
EXTENDS LoopTimers, NumberTheorems

-----------------------------------------------------------------------------
(* The invariants                                                          *)

Times == 0..(Wrap - 1)

TypeOK ==
  /\ pc \in {"keepalive", "receive", "loop"}
  /\ now \in Times /\ lastKeepalive \in Times /\ lastLoop \in Times
  /\ interval \in Int
  /\ spent \in 0..MaxStep
  /\ sinceKeepalive \in Nat /\ sinceLoop \in Nat
  /\ jumpsKeepalive \in Nat /\ jumpsLoop \in Nat
  /\ asked \in Nat /\ longest \in Nat

(* The interval is what was asked for, in the uint32 and the float that    *)
(* hold it.                                                                *)
IntervalIsAsked == interval = AsFloat(asked % Wrap) /\ asked <= longest

(* While nobody sets the time of day, the clock counts no more than the    *)
(* milliseconds that have passed: fewer, if it has wrapped.                *)
ClockLags ==
  /\ jumpsKeepalive = 0 => Since(lastKeepalive) <= sinceKeepalive
  /\ jumpsLoop = 0 => Since(lastLoop) <= sinceLoop

(* The time that may pass until send_keepalive_if_needed and loop_driver   *)
(* look at the clock again.                                                *)
ToKeepalive ==
  CASE pc = "keepalive" -> MaxStep - spent
    [] pc = "loop" -> 2 * MaxStep - spent
    [] pc = "receive" -> 3 * MaxStep - spent
ToLoop ==
  CASE pc = "loop" -> MaxStep - spent
    [] pc = "receive" -> 2 * MaxStep - spent
    [] pc = "keepalive" -> 3 * MaxStep - spent

(* A keepalive is due, and each time that the clock was set has cost at    *)
(* most a period and a round, or none is due and the time that the clock   *)
(* shows since the last one is not lost either.                            *)
Late == jumpsKeepalive * (Period + Round)
KeepaliveOnTime ==
  \/ Since(lastKeepalive) > Period /\ sinceKeepalive + ToKeepalive <= Late
  \/ /\ sinceKeepalive <= Late + Since(lastKeepalive)
     /\ Since(lastKeepalive) + ToKeepalive <= Period + Round

(* While nobody sets the time of day and the interval leaves a round, the  *)
(* clock shows the time since loop() was called, and it will be looked at  *)
(* before the interval and a round have passed.                            *)
LoopOnTime ==
  jumpsLoop = 0 /\ longest + Round < Wrap =>
    /\ Since(lastLoop) = sinceLoop
    /\ sinceLoop + ToLoop <= longest + Round

Inv == TypeOK /\ IntervalIsAsked /\ ClockLags /\ KeepaliveOnTime /\ LoopOnTime

-----------------------------------------------------------------------------
(* Floats                                                                  *)

(* The distance of floats around n is one that leaves n in its range.      *)
LEMMA UlpIs ==
  ASSUME NEW n \in Nat, n < Wrap
  PROVE  /\ Ulp(n) \in {1, 2, 4, 8, 16, 32, 64, 128, 256}
         /\ n < 2 * FloatExact * Ulp(n)
         /\ Ulp(n) = 1 \/ n >= FloatExact * Ulp(n)
<1> DEFINE Ulps == {1, 2, 4, 8, 16, 32, 64, 128, 256}
           Fits(u) == n < 2 * FloatExact * u /\ (u = 1 \/ n >= FloatExact * u)
<1>1. PICK f \in Nat \ {0} : f = FloatExact /\ n < 512 * f
  BY TimersAssumption
<1>2. \E u \in Ulps : n < 2 * f * u /\ (u = 1 \/ n >= f * u)
  BY <1>1
<1>3. \E u \in Ulps : Fits(u)
  BY <1>1, <1>2
<1>4. Ulp(n) = CHOOSE u \in Ulps : Fits(u)
  BY DEF Ulp
<1>5. Ulp(n) \in Ulps /\ Fits(Ulp(n))
  <2> HIDE DEF Fits, Ulps
  <2> QED
    BY <1>3, <1>4
<1> QED
  BY <1>5

(* It does not decrease.                                                   *)
LEMMA UlpMonotone ==
  ASSUME NEW m \in Nat, NEW n \in Nat, m <= n, n < Wrap
  PROVE  Ulp(m) <= Ulp(n) /\ (Ulp(m) < Ulp(n) => 2 * Ulp(m) <= Ulp(n))
<1>1. PICK f \in Nat \ {0} : f = FloatExact
  BY TimersAssumption
<1>2. PICK u \in {1, 2, 4, 8, 16, 32, 64, 128, 256} :
         u = Ulp(m) /\ m < 2 * f * u /\ (u = 1 \/ m >= f * u)
  <2>1. m < Wrap
    BY TimersAssumption
  <2> QED
    BY <1>1, <2>1, UlpIs
<1>3. PICK v \in {1, 2, 4, 8, 16, 32, 64, 128, 256} :
         v = Ulp(n) /\ n < 2 * f * v /\ (v = 1 \/ n >= f * v)
  BY <1>1, UlpIs
<1>4. u <= v /\ (u < v => 2 * u <= v)
  BY <1>2, <1>3
<1> QED
  BY <1>2, <1>3, <1>4

(* Rounding to a multiple of the distance: to one of the two next to n, no *)
(* farther than half of it.                                                *)
LEMMA AsFloatIs ==
  ASSUME NEW n \in Nat, n < Wrap
  PROVE  /\ AsFloat(n) \in Nat
         /\ 2 * AsFloat(n) <= 2 * n + Ulp(n) /\ 2 * n <= 2 * AsFloat(n) + Ulp(n)
         /\ \A k \in Int : /\ Ulp(n) * k <= n => Ulp(n) * k <= AsFloat(n)
                           /\ n <= Ulp(n) * k => AsFloat(n) <= Ulp(n) * k
<1>1. PICK u \in {1, 2, 4, 8, 16, 32, 64, 128, 256} : u = Ulp(n)
  BY UlpIs
<1> DEFINE q == n \div u
           r == n % u
           up == r * 2 > u \/ (r * 2 = u /\ ((n - r) \div u) % 2 = 1)
<1>2. q \in Nat /\ r \in 0..(u - 1) /\ n = u * q + r
  OBVIOUS
<1>3. AsFloat(n) = IF up THEN (n - r) + u ELSE n - r
  BY <1>1 DEF AsFloat
<1>4. up => r * 2 >= u
  BY <1>2
<1>5. ~up => r * 2 <= u
  BY <1>2
<1> HIDE DEF q, r, up
<1>6. PICK a \in Nat : a = AsFloat(n) /\ \/ a = u * q + u /\ r * 2 >= u
                                         \/ a = u * q /\ r * 2 <= u
  BY <1>2, <1>3, <1>4, <1>5
<1>7. 2 * a <= 2 * n + u /\ 2 * n <= 2 * a + u
  BY <1>2, <1>6
<1>8. ASSUME NEW k \in Int PROVE /\ u * k <= n => u * k <= a
                                 /\ n <= u * k => a <= u * k
  BY <1>2, <1>6
<1> QED
  BY <1>1, <1>6, <1>7, <1>8

(* A whole interval of zero is one.                                        *)
LEMMA AsFloatZero == AsFloat(0) = 0
<1>1. 0 \in Nat /\ 0 < Wrap
  BY TimersAssumption
<1>2. Ulp(0) * 0 = 0
  BY <1>1, UlpIs
<1>3. AsFloat(0) \in Nat /\ AsFloat(0) <= 0
  BY <1>1, <1>2, AsFloatIs
<1> QED
  BY <1>3

(* Rounding keeps the order.                                               *)
LEMMA AsFloatMonotone ==
  ASSUME NEW m \in Nat, NEW n \in Nat, m <= n, n < Wrap
  PROVE  AsFloat(m) <= AsFloat(n)
<1>1. PICK f \in Nat \ {0} : f = FloatExact
  BY TimersAssumption
<1>0. m < Wrap
  BY TimersAssumption
<1>2. PICK u \in {1, 2, 4, 8, 16, 32, 64, 128, 256} : u = Ulp(m) /\ m < 2 * f * u
  BY <1>0, <1>1, UlpIs
<1>3. PICK v \in {1, 2, 4, 8, 16, 32, 64, 128, 256} :
         v = Ulp(n) /\ (v = 1 \/ n >= f * v)
  BY <1>1, UlpIs
<1>4. u <= v /\ (u < v => 2 * u <= v)
  BY <1>2, <1>3, UlpMonotone
<1>5. AsFloat(m) \in Nat /\ AsFloat(n) \in Nat
  BY <1>0, AsFloatIs
<1>6. CASE u < v
  (* m is below the power of two that n has reached. *)
  <2>1. f * v \in Int /\ v * f = f * v /\ u * (2 * f) = 2 * f * u
    OBVIOUS
  <2>2. m <= u * (2 * f) /\ v * f <= n /\ u * (2 * f) <= v * f
    BY <1>2, <1>3, <1>4, <1>6
  <2>3. AsFloat(m) <= u * (2 * f)
    BY <1>0, <1>2, <2>2, AsFloatIs
  <2>4. v * f <= AsFloat(n)
    BY <1>3, <2>2, AsFloatIs
  <2> QED
    BY <1>5, <2>1, <2>2, <2>3, <2>4
<1>7. CASE u = v
  <2> DEFINE Up(x) == (x % u) * 2 > u
                        \/ ((x % u) * 2 = u /\ ((x - (x % u)) \div u) % 2 = 1)
             q(x) == x \div u
  <2>1. ASSUME NEW x \in Nat
        PROVE  q(x) \in Nat /\ x % u \in 0..(u - 1) /\ x = u * q(x) + (x % u)
    OBVIOUS
  <2>2. /\ AsFloat(m) = IF Up(m) THEN (m - (m % u)) + u ELSE m - (m % u)
        /\ AsFloat(n) = IF Up(n) THEN (n - (n % u)) + u ELSE n - (n % u)
    BY <1>2, <1>3, <1>7 DEF AsFloat
  <2>3. q(m) = q(n) => (m - (m % u) = n - (n % u)) /\ (m % u <= n % u)
    BY <2>1
  <2>4. q(m) = q(n) => (Up(m) => Up(n))
    BY <2>1, <2>3
  <2>5. q(m) # q(n) => (m - (m % u)) + u <= n - (n % u)
    BY <2>1
  <2>6. m - (m % u) \in Int /\ n - (n % u) \in Int
    BY <2>1
  <2> HIDE DEF Up, q
  <2> QED
    BY <2>2, <2>3, <2>4, <2>5, <2>6
<1> QED
  BY <1>4, <1>6, <1>7

-----------------------------------------------------------------------------
(* The clock                                                               *)

(* The constants, as the provers need them.                                *)
LEMMA ConstantsType ==
  /\ Wrap \in Nat \ {0} /\ Period \in Nat /\ MaxStep \in Nat
  /\ Second \in Nat /\ Second < Wrap
  /\ Period + 3 * MaxStep < Wrap
  /\ 0 \in Times
BY TimersAssumption DEF Times

(* The time since a reading is one that the clock can show, and none when  *)
(* the reading has just been made.                                         *)
LEMMA SinceType ==
  ASSUME NEW a \in Times, NEW b \in Times
  PROVE  (a - b) % Wrap \in Times /\ (a - a) % Wrap = 0
<1>1. (a - b) % Wrap \in 0..(Wrap - 1)
  BY ConstantsType, ModDef DEF Times
<1>2. a - a = 0 /\ 0 % Wrap = 0
  BY ConstantsType, ModSmall DEF Times
<1> QED
  BY <1>1, <1>2 DEF Times

(* A millisecond later it is one more, or the milliseconds have wrapped.   *)
LEMMA SinceTick ==
  ASSUME NEW a \in Times, NEW b \in Times
  PROVE  (((a + 1) % Wrap) - b) % Wrap =
           IF ((a - b) % Wrap) + 1 < Wrap THEN ((a - b) % Wrap) + 1 ELSE 0
<1>1. PICK W \in Nat \ {0} : W = Wrap
  BY ConstantsType
<1>2. PICK d \in 0..(W - 1) : d = (a - b) % W
  BY <1>1, SinceType DEF Times
<1>3. /\ a \in Int /\ b \in Int /\ a + 1 \in Int /\ a - b \in Int /\ 1 \in Int
      /\ (a - b) + 1 = (a + 1) - b
  BY <1>1 DEF Times
<1>4. (((a + 1) % W) - b) % W = ((a + 1) - b) % W
  BY <1>3, ModMinus
<1>5. (((a - b) % W) + 1) % W = ((a - b) + 1) % W
  BY <1>3, ModAdd, Zenon
<1>6. (d + 1) % W = IF d + 1 < W THEN d + 1 ELSE 0
  <2>1. CASE d + 1 < W
    BY <2>1
  <2>2. CASE ~(d + 1 < W)
    <3>1. d + 1 = 0 + W /\ 0 \in 0..(W - 1)
      BY <2>2
    <3> QED
      BY <2>2, <3>1, ModSmall
  <2> QED
    BY <2>1, <2>2
<1> QED
  BY <1>1, <1>2, <1>3, <1>4, <1>5, <1>6

(* What the user's code sets is what it asked for.                         *)
LEMMA FrequencyIsAsked ==
  ASSUME TypeOK, interval = AsFloat(asked % Wrap), SetFrequency
  PROVE  interval' \in Int /\ asked' \in Nat /\ interval' = AsFloat(asked' % Wrap)
<1>1. ASSUME NEW n \in Nat, interval' = AsFloat(n % Wrap), asked' = n
      PROVE  interval' \in Int /\ asked' \in Nat /\ interval' = AsFloat(asked' % Wrap)
  <2>1. n % Wrap \in Nat /\ n % Wrap < Wrap
    BY ConstantsType, ModDef
  <2>2. AsFloat(n % Wrap) \in Nat
    BY <2>1, AsFloatIs
  <2> QED
    BY <1>1, <2>2
<1>2. ASSUME NEW secs \in Secs, interval' = AsFloat((secs * Second) % Wrap),
             asked' = secs * Second
      PROVE  interval' \in Int /\ asked' \in Nat /\ interval' = AsFloat(asked' % Wrap)
  <2>1. secs * Second \in Nat
    BY TimersAssumption, ConstantsType
  <2> QED
    BY <1>1, <1>2, <2>1
<1>3. ASSUME NEW freq \in Freqs, interval' = AsFloat(Second \div freq),
             asked' = Second \div freq
      PROVE  interval' \in Int /\ asked' \in Nat /\ interval' = AsFloat(asked' % Wrap)
  <2>1. PICK s \in Nat, f \in Nat \ {0} : s = Second /\ f = freq
    BY TimersAssumption, ConstantsType
  <2>2. s \div f \in Nat /\ s \div f <= s
    <3>1. PICK q \in Int, r \in 0..(f - 1) : q = s \div f /\ s = f * q + r
      BY ModDef
    <3>2. q >= 0
      BY <3>1
    <3>3. f * q >= q
      BY <3>2
    <3> QED
      BY <3>1, <3>2, <3>3
  <2>3. s \div f \in 0..(Wrap - 1)
    BY <2>1, <2>2, ConstantsType
  <2>4. (s \div f) % Wrap = s \div f
    BY <2>3, ConstantsType, ModSmall
  <2> QED
    BY <1>1, <1>3, <2>1, <2>2, <2>4
<1>4. ASSUME UNCHANGED <<interval, asked>>
      PROVE  interval' \in Int /\ asked' \in Nat /\ interval' = AsFloat(asked' % Wrap)
  BY <1>4 DEF TypeOK
<1> QED
  BY <1>2, <1>3, <1>4 DEF SetFrequency

-----------------------------------------------------------------------------
(* The steps                                                               *)

(* Every step keeps the types, and the interval as it was asked for.       *)
LEMMA TypeStep ==
  TypeOK /\ IntervalIsAsked /\ [Next]_vars => TypeOK' /\ IntervalIsAsked'
<1> SUFFICES ASSUME TypeOK, IntervalIsAsked, [Next]_vars
             PROVE  TypeOK' /\ IntervalIsAsked'
  OBVIOUS
<1> USE ConstantsType
<1>0. ASSUME NEW a \in Int PROVE a % Wrap \in Times
  BY ModDef DEF Times
<1>1. CASE KeepaliveIfNeeded
  BY <1>1 DEF KeepaliveIfNeeded, TypeOK, IntervalIsAsked, past
<1>2. CASE Receive
  <2>1. interval' \in Int /\ asked' \in Nat /\ interval' = AsFloat(asked' % Wrap)
    BY <1>2, FrequencyIsAsked DEF Receive, IntervalIsAsked
  <2>2. longest' \in Nat /\ asked' <= longest'
    BY <1>2, <2>1 DEF Receive, TypeOK
  <2> QED
    BY <1>2, <2>1, <2>2 DEF Receive, TypeOK, IntervalIsAsked, past
<1>3. CASE LoopDriver
  <2>1. CASE SetFrequency /\ lastLoop' = now /\ longest' = asked' /\ sinceLoop' = 0
             /\ jumpsLoop' = 0
    <3>1. interval' \in Int /\ asked' \in Nat /\ interval' = AsFloat(asked' % Wrap)
      BY <2>1, FrequencyIsAsked DEF IntervalIsAsked
    <3> QED
      BY <1>3, <2>1, <3>1 DEF LoopDriver, TypeOK, IntervalIsAsked
  <2>2. CASE UNCHANGED <<lastLoop, interval, sinceLoop, jumpsLoop, asked, longest>>
    BY <1>3, <2>2 DEF LoopDriver, TypeOK, IntervalIsAsked
  <2> QED
    BY <1>3, <2>1, <2>2 DEF LoopDriver
<1>4. CASE Tick
  <2>1. now + 1 \in Int /\ spent' \in 0..MaxStep
    BY <1>4 DEF Tick, TypeOK, Times
  <2>2. now' \in Times
    BY <1>0, <1>4, <2>1 DEF Tick
  <2> QED
    BY <1>4, <2>1, <2>2 DEF Tick, TypeOK, IntervalIsAsked
<1>5. CASE Jump
  <2>1. PICK j \in Jumps : now' = (now + j) % Wrap
    BY <1>5 DEF Jump
  <2>2. now + j \in Int
    BY TimersAssumption DEF TypeOK, Times
  <2>3. now' \in Times
    BY <1>0, <2>1, <2>2
  <2> QED
    BY <1>5, <2>3 DEF Jump, TypeOK, IntervalIsAsked
<1>6. CASE UNCHANGED vars
  BY <1>6 DEF vars, timers, past, TypeOK, IntervalIsAsked
<1> QED
  BY <1>1, <1>2, <1>3, <1>4, <1>5, <1>6 DEF Next, Step

(* What every step does to the time that a reading shows: it becomes none  *)
(* when a reading is made, and grows or wraps with the clock.              *)
LEMMA SinceStep ==
  ASSUME TypeOK
  PROVE  /\ Since(lastKeepalive) \in Times /\ Since(lastLoop) \in Times
         /\ UNCHANGED <<now, lastKeepalive>> =>
              Since(lastKeepalive)' = Since(lastKeepalive)
         /\ UNCHANGED <<now, lastLoop>> => Since(lastLoop)' = Since(lastLoop)
         /\ now' = now /\ lastKeepalive' = now => Since(lastKeepalive)' = 0
         /\ now' = now /\ lastLoop' = now => Since(lastLoop)' = 0
         /\ Tick => /\ Since(lastKeepalive)' = IF Since(lastKeepalive) + 1 < Wrap
                                                 THEN Since(lastKeepalive) + 1 ELSE 0
                    /\ Since(lastLoop)' = IF Since(lastLoop) + 1 < Wrap
                                            THEN Since(lastLoop) + 1 ELSE 0
<1>1. now \in Times /\ lastKeepalive \in Times /\ lastLoop \in Times
  BY DEF TypeOK
<1>2. Since(lastKeepalive) \in Times /\ Since(lastLoop) \in Times
  BY <1>1, SinceType DEF Since
<1>3. (now - now) % Wrap = 0
  BY <1>1, SinceType
<1>4. ASSUME Tick
      PROVE  /\ Since(lastKeepalive)' = IF Since(lastKeepalive) + 1 < Wrap
                                          THEN Since(lastKeepalive) + 1 ELSE 0
             /\ Since(lastLoop)' = IF Since(lastLoop) + 1 < Wrap
                                     THEN Since(lastLoop) + 1 ELSE 0
  <2>1. now' = (now + 1) % Wrap /\ lastKeepalive' = lastKeepalive /\ lastLoop' = lastLoop
    BY <1>4 DEF Tick
  <2> QED
    BY <1>1, <2>1, SinceTick DEF Since
<1> QED
  BY <1>2, <1>3, <1>4 DEF Since

(* The clock lags.                                                         *)
LEMMA LagsStep == TypeOK /\ ClockLags /\ [Next]_vars => ClockLags'
<1> SUFFICES ASSUME TypeOK, ClockLags, [Next]_vars PROVE ClockLags'
  OBVIOUS
<1>0. PICK s \in Nat, t \in Nat, d \in Nat, e \in Nat, W \in Nat :
        /\ s = sinceKeepalive /\ t = sinceLoop /\ W = Wrap
        /\ d = Since(lastKeepalive) /\ e = Since(lastLoop)
  <2>1. Since(lastKeepalive) \in Nat /\ Since(lastLoop) \in Nat
    BY SinceStep DEF Times
  <2>2. sinceKeepalive \in Nat /\ sinceLoop \in Nat /\ Wrap \in Nat
    BY ConstantsType DEF TypeOK
  <2> QED
    BY <2>1, <2>2
<1>1. CASE KeepaliveIfNeeded
  BY <1>1, SinceStep, ConstantsType DEF KeepaliveIfNeeded, ClockLags
<1>2. CASE Receive
  BY <1>2, SinceStep DEF Receive, past, ClockLags
<1>3. CASE LoopDriver
  BY <1>3, SinceStep DEF LoopDriver, ClockLags
<1>4. CASE Tick
  <2>1. /\ Since(lastKeepalive)' = IF d + 1 < W THEN d + 1 ELSE 0
        /\ Since(lastLoop)' = IF e + 1 < W THEN e + 1 ELSE 0
    BY <1>0, <1>4, SinceStep
  <2>2. /\ sinceKeepalive' = s + 1 /\ sinceLoop' = t + 1
        /\ UNCHANGED <<jumpsKeepalive, jumpsLoop>>
    BY <1>0, <1>4 DEF Tick
  <2>3. (jumpsKeepalive = 0 => d <= s) /\ (jumpsLoop = 0 => e <= t)
    BY <1>0 DEF ClockLags
  <2>4. /\ d <= s => (IF d + 1 < W THEN d + 1 ELSE 0) <= s + 1
        /\ e <= t => (IF e + 1 < W THEN e + 1 ELSE 0) <= t + 1
    OBVIOUS
  <2> QED
    BY <2>1, <2>2, <2>3, <2>4 DEF ClockLags
<1>5. CASE Jump
  BY <1>5 DEF Jump, ClockLags, TypeOK
<1>6. CASE UNCHANGED vars
  BY <1>6, SinceStep DEF vars, timers, past, ClockLags
<1> QED
  BY <1>1, <1>2, <1>3, <1>4, <1>5, <1>6 DEF Next, Step

(* What a step does to the time until the loop looks at the clock.         *)
LEMMA TestsStep ==
  ASSUME TypeOK
  PROVE  /\ ToKeepalive \in 0..Round /\ ToLoop \in 0..Round /\ Round \in Nat
         /\ KeepaliveIfNeeded => ToKeepalive' = Round /\ ToLoop' <= ToLoop
         /\ Receive => ToKeepalive' <= ToKeepalive /\ ToLoop' <= ToLoop
         /\ LoopDriver => ToKeepalive' <= ToKeepalive /\ ToLoop' = Round
         /\ Tick => /\ ToKeepalive' = ToKeepalive - 1 /\ ToKeepalive >= 1
                    /\ ToLoop' = ToLoop - 1 /\ ToLoop >= 1
<1>1. PICK M \in Nat, p \in Nat : M = MaxStep /\ p = spent /\ p <= M
  BY ConstantsType DEF TypeOK
<1>2. Round = 3 * M /\ Round \in Nat
  BY <1>1 DEF Round
<1>3. /\ ToKeepalive = IF pc = "keepalive" THEN M - p
                       ELSE IF pc = "loop" THEN 2 * M - p ELSE 3 * M - p
      /\ ToLoop = IF pc = "loop" THEN M - p
                  ELSE IF pc = "receive" THEN 2 * M - p ELSE 3 * M - p
  BY <1>1 DEF ToKeepalive, ToLoop, TypeOK
<1>4. ToKeepalive \in 0..Round /\ ToLoop \in 0..Round
  BY <1>1, <1>2, <1>3
<1>5. ASSUME KeepaliveIfNeeded
      PROVE  ToKeepalive' = Round /\ ToLoop' <= ToLoop
  <2>1. ToKeepalive' = 3 * M - 0 /\ ToLoop' = 2 * M - 0 /\ ToLoop = 3 * M - p
    BY <1>1, <1>3, <1>5 DEF KeepaliveIfNeeded, ToKeepalive, ToLoop
  <2> QED
    BY <1>1, <1>2, <2>1
<1>6. ASSUME Receive
      PROVE  ToKeepalive' <= ToKeepalive /\ ToLoop' <= ToLoop
  <2>1. /\ ToKeepalive' = 2 * M - 0 /\ ToLoop' = M - 0
        /\ ToKeepalive = 3 * M - p /\ ToLoop = 2 * M - p
    BY <1>1, <1>3, <1>6 DEF Receive, ToKeepalive, ToLoop
  <2> QED
    BY <1>1, <2>1
<1>7. ASSUME LoopDriver
      PROVE  ToKeepalive' <= ToKeepalive /\ ToLoop' = Round
  <2>1. ToKeepalive' = M - 0 /\ ToLoop' = 3 * M - 0 /\ ToKeepalive = 2 * M - p
    BY <1>1, <1>3, <1>7 DEF LoopDriver, ToKeepalive, ToLoop
  <2> QED
    BY <1>1, <1>2, <2>1
<1>8. ASSUME Tick
      PROVE  /\ ToKeepalive' = ToKeepalive - 1 /\ ToKeepalive >= 1
             /\ ToLoop' = ToLoop - 1 /\ ToLoop >= 1
  <2>1. pc' = pc /\ spent' = p + 1 /\ p < M
    BY <1>1, <1>8 DEF Tick
  <2>2. /\ ToKeepalive' = IF pc = "keepalive" THEN M - (p + 1)
                          ELSE IF pc = "loop" THEN 2 * M - (p + 1) ELSE 3 * M - (p + 1)
        /\ ToLoop' = IF pc = "loop" THEN M - (p + 1)
                     ELSE IF pc = "receive" THEN 2 * M - (p + 1) ELSE 3 * M - (p + 1)
    BY <1>1, <2>1 DEF ToKeepalive, ToLoop, TypeOK
  <2> QED
    BY <1>3, <2>1, <2>2
<1> QED
  BY <1>2, <1>4, <1>5, <1>6, <1>7, <1>8

(* A period and a round more for each time that the clock is set.          *)
LEMMA LateStep ==
  ASSUME TypeOK
  PROVE  /\ Late \in Nat /\ Late + (Period + Round) \in Nat
         /\ jumpsKeepalive' = 0 => Late' = 0
         /\ jumpsKeepalive' = jumpsKeepalive => Late' = Late
         /\ jumpsKeepalive' = jumpsKeepalive + 1 => Late' = Late + (Period + Round)
         /\ (jumpsKeepalive + 1) * (Period + Round) = Late + (Period + Round)
<1>1. PICK c \in Nat, j \in Nat : c = Period + Round /\ j = jumpsKeepalive
  BY ConstantsType DEF TypeOK, Round
<1>2. j * c \in Nat /\ (j + 1) * c = j * c + c /\ 0 * c = 0
  OBVIOUS
<1>3. Late = j * c /\ (jumpsKeepalive + 1) * (Period + Round) = (j + 1) * c
  BY <1>1 DEF Late
<1>4. Late' = jumpsKeepalive' * c
  BY <1>1 DEF Late
<1>5. c = Period + Round /\ Late + c \in Nat
  BY <1>1, <1>2, <1>3
<1> QED
  BY <1>1, <1>2, <1>3, <1>4, <1>5

(* Keepalives stay on time: the clock being set makes the next one due at  *)
(* the next test at the latest, at the cost of one period and one round.   *)
LEMMA KeepaliveStep ==
  TypeOK /\ KeepaliveOnTime /\ [Next]_vars => KeepaliveOnTime'
<1> SUFFICES ASSUME TypeOK, KeepaliveOnTime, [Next]_vars PROVE KeepaliveOnTime'
  OBVIOUS
<1>0. PICK s \in Nat, d \in Nat, l \in Nat, t \in Nat, p \in Nat, r \in Nat, W \in Nat :
        /\ s = sinceKeepalive /\ d = Since(lastKeepalive) /\ l = Late
        /\ t = ToKeepalive /\ p = Period /\ r = Round /\ W = Wrap
  <2>1. Since(lastKeepalive) \in Nat /\ ToKeepalive \in Nat
    BY SinceStep, TestsStep DEF Times
  <2>2. sinceKeepalive \in Nat /\ Wrap \in Nat /\ Period \in Nat
    BY ConstantsType DEF TypeOK
  <2>3. Late \in Nat /\ Round \in Nat
    BY LateStep, TestsStep
  <2> QED
    BY <2>1, <2>2, <2>3
<1>p. t <= r /\ p + r < W
  <2>1. ToKeepalive \in 0..Round /\ Period + Round < Wrap
    BY ConstantsType, TestsStep DEF Round
  <2> QED
    BY <1>0, <2>1
<1>i. \/ d > p /\ s + t <= l
      \/ s <= l + d /\ d + t <= p + r
  BY <1>0 DEF KeepaliveOnTime
<1>g. ASSUME NEW e \in Nat, NEW u \in Nat, NEW m \in Nat, NEW v \in Nat,
             e = Since(lastKeepalive)', u = sinceKeepalive', m = Late', v = ToKeepalive',
             \/ e > p /\ u + v <= m
             \/ u <= m + e /\ e + v <= p + r
      PROVE  KeepaliveOnTime'
  <2>1. Period' = p /\ Round' = r
    BY <1>0 DEF Round
  <2> QED
    BY <1>g, <2>1 DEF KeepaliveOnTime
<1>1. CASE KeepaliveIfNeeded
  <2>0. ToKeepalive' = r
    BY <1>0, <1>1, TestsStep
  <2>1. CASE d <= p
    <3>1. Since(lastKeepalive)' = d /\ sinceKeepalive' = s /\ Late' = l
      BY <1>0, <1>1, <2>1, SinceStep, LateStep DEF KeepaliveIfNeeded
    <3>2. s <= l + d /\ d + r <= p + r
      BY <1>i, <2>1
    <3> QED
      BY <1>g, <2>0, <3>1, <3>2
  <2>2. CASE ~(d <= p)
    <3>1. /\ now' = now /\ lastKeepalive' = now /\ sinceKeepalive' = 0
          /\ jumpsKeepalive' = 0
      BY <1>0, <1>1, <2>2 DEF KeepaliveIfNeeded
    <3>2. Since(lastKeepalive)' = 0 /\ sinceKeepalive' = 0 /\ Late' = 0
      BY <3>1, SinceStep, LateStep
    <3>3. 0 <= 0 + 0 /\ 0 + r <= p + r
      OBVIOUS
    <3> QED
      BY <1>g, <2>0, <3>2, <3>3
  <2> QED
    BY <2>1, <2>2
<1>2. CASE Receive \/ LoopDriver
  <2>1. Since(lastKeepalive)' = d /\ sinceKeepalive' = s /\ Late' = l
    <3>1. UNCHANGED <<now, lastKeepalive, sinceKeepalive, jumpsKeepalive>>
      BY <1>2 DEF Receive, LoopDriver, past
    <3> QED
      BY <1>0, <3>1, SinceStep, LateStep
  <2>2. PICK v \in Nat : v = ToKeepalive' /\ v <= t
    <3>1. ToKeepalive' \in {MaxStep, 2 * MaxStep} /\ ToKeepalive' <= ToKeepalive
      <4>1. ToKeepalive' <= ToKeepalive
        BY <1>2, TestsStep
      <4>2. MaxStep \in Nat
        BY ConstantsType
      <4>3. Receive => ToKeepalive' = 2 * MaxStep - 0
        BY DEF Receive, ToKeepalive
      <4>4. LoopDriver => ToKeepalive' = MaxStep - 0
        BY DEF LoopDriver, ToKeepalive
      <4> QED
        BY <1>2, <4>1, <4>2, <4>3, <4>4
    <3>2. MaxStep \in Nat /\ 2 * MaxStep \in Nat
      BY ConstantsType
    <3> QED
      BY <1>0, <3>1, <3>2
  <2>3. v <= t
    BY <2>2
  <2>4. \/ d > p /\ s + v <= l
        \/ s <= l + d /\ d + v <= p + r
    BY <1>i, <2>3
  <2> QED
    BY <1>g, <2>1, <2>2, <2>4
<1>3. CASE Tick
  <2>1. /\ Since(lastKeepalive)' = IF d + 1 < W THEN d + 1 ELSE 0
        /\ sinceKeepalive' = s + 1 /\ Late' = l /\ ToKeepalive' = t - 1 /\ t >= 1
    <3>1. jumpsKeepalive' = jumpsKeepalive /\ sinceKeepalive' = s + 1
      BY <1>0, <1>3 DEF Tick
    <3> QED
      BY <1>0, <1>3, <3>1, SinceStep, TestsStep, LateStep
  <2>2. PICK e \in Nat : e = (IF d + 1 < W THEN d + 1 ELSE 0)
    OBVIOUS
  <2>3. t - 1 \in Nat /\ s + 1 \in Nat
    BY <2>1
  <2>4. \/ e > p /\ (s + 1) + (t - 1) <= l
        \/ s + 1 <= l + e /\ e + (t - 1) <= p + r
    BY <1>p, <1>i, <2>1, <2>2
  <2> QED
    BY <1>g, <2>1, <2>2, <2>3, <2>4
<1>4. CASE Jump
  <2>1. sinceKeepalive' = s /\ ToKeepalive' = t /\ Late' = l + (p + r)
    <3>1. UNCHANGED <<pc, spent, sinceKeepalive>> /\ jumpsKeepalive' = jumpsKeepalive + 1
      BY <1>4 DEF Jump
    <3> QED
      BY <1>0, <3>1, LateStep DEF ToKeepalive
  <2>2. PICK e \in Nat : e = Since(lastKeepalive)'
    <3>1. now' \in Times /\ lastKeepalive' \in Times
      <4>1. PICK j \in Jumps : now' = (now + j) % Wrap /\ lastKeepalive' = lastKeepalive
        BY <1>4 DEF Jump
      <4>2. now + j \in Int /\ lastKeepalive \in Times
        BY TimersAssumption DEF TypeOK, Times
      <4> QED
        BY <4>1, <4>2, ConstantsType, ModDef DEF Times
    <3>2. (now' - lastKeepalive') % Wrap \in Times
      BY <3>1, SinceType
    <3> QED
      BY <3>2 DEF Since, Times
  <2>3. \/ e > p /\ s + t <= l + (p + r)
        \/ s <= (l + (p + r)) + e /\ e + t <= p + r
    BY <1>p, <1>i
  <2>4. l + (p + r) \in Nat
    OBVIOUS
  <2> QED
    BY <1>g, <2>1, <2>2, <2>3, <2>4
<1>5. CASE UNCHANGED vars
  <2>1. UNCHANGED <<pc, spent, now, lastKeepalive, sinceKeepalive, jumpsKeepalive>>
    BY <1>5 DEF vars, timers, past
  <2>2. Since(lastKeepalive)' = d /\ sinceKeepalive' = s /\ Late' = l /\ ToKeepalive' = t
    BY <1>0, <2>1, SinceStep, LateStep DEF ToKeepalive
  <2> QED
    BY <1>g, <1>i, <2>2
<1> QED
  BY <1>1, <1>2, <1>3, <1>4, <1>5 DEF Next, Step

(* loop() stays on time: loop_driver calls it as soon as the time since    *)
(* the last call is not shorter, rounded, than the interval, rounded.      *)
LEMMA LoopStep ==
  TypeOK /\ IntervalIsAsked /\ LoopOnTime /\ [Next]_vars => LoopOnTime'
<1> SUFFICES ASSUME TypeOK, IntervalIsAsked, LoopOnTime, [Next]_vars
             PROVE  LoopOnTime'
  OBVIOUS
<1>0. PICK s \in Nat, d \in Nat, t \in Nat, r \in Nat, W \in Nat, a \in Nat, b \in Nat :
        /\ s = sinceLoop /\ d = Since(lastLoop) /\ t = ToLoop
        /\ r = Round /\ W = Wrap /\ a = asked /\ b = longest
  <2>1. Since(lastLoop) \in Nat /\ ToLoop \in Nat
    BY SinceStep, TestsStep DEF Times
  <2>2. sinceLoop \in Nat /\ Wrap \in Nat /\ asked \in Nat /\ longest \in Nat
    BY ConstantsType DEF TypeOK
  <2>3. Round \in Nat
    BY TestsStep
  <2> QED
    BY <2>1, <2>2, <2>3
<1>9. t <= r /\ a <= b /\ r < W
  <2>1. ToLoop \in 0..Round /\ Round < Wrap
    BY ConstantsType, TestsStep DEF Round
  <2> QED
    BY <1>0, <2>1 DEF IntervalIsAsked
<1>i. jumpsLoop = 0 /\ b + r < W => d = s /\ s + t <= b + r
  BY <1>0 DEF LoopOnTime
<1>g. ASSUME NEW e \in Nat, NEW u \in Nat, NEW v \in Nat, NEW c \in Nat,
             e = Since(lastLoop)', u = sinceLoop', v = ToLoop', c = longest',
             jumpsLoop' = 0 /\ c + r < W => e = u /\ u + v <= c + r
      PROVE  LoopOnTime'
  <2>1. Round' = r /\ Wrap' = W
    BY <1>0 DEF Round
  <2> QED
    BY <1>g, <2>1 DEF LoopOnTime
<1>8. ToLoop' \in Nat
  <2>1. TypeOK'
    BY TypeStep
  <2>2. PICK M \in Nat, q \in Nat : M = MaxStep /\ q = spent' /\ q <= M
    BY <2>1, ConstantsType DEF TypeOK
  <2>3. /\ pc' = "loop" => ToLoop' = M - q
        /\ pc' = "receive" => ToLoop' = 2 * M - q
        /\ pc' = "keepalive" => ToLoop' = 3 * M - q
    BY <2>2 DEF ToLoop
  <2>4. pc' \in {"keepalive", "receive", "loop"}
    BY <2>1 DEF TypeOK
  <2> QED
    BY <2>2, <2>3, <2>4
<1>1. CASE KeepaliveIfNeeded
  <2>1. UNCHANGED <<now, lastLoop, sinceLoop, jumpsLoop, longest>>
    BY <1>1 DEF KeepaliveIfNeeded
  <2>2. Since(lastLoop)' = d /\ sinceLoop' = s /\ longest' = b
    BY <1>0, <2>1, SinceStep
  <2>3. PICK v \in Nat : v = ToLoop'
    BY <1>8
  <2>4. v <= t
    BY <1>0, <1>1, <2>3, TestsStep
  <2>5. jumpsLoop' = 0 /\ b + r < W => d = s /\ s + v <= b + r
    BY <1>i, <2>1, <2>4
  <2> QED
    BY <1>g, <2>2, <2>3, <2>5
<1>2. CASE Receive
  <2>1. UNCHANGED <<now, lastLoop, sinceLoop, jumpsLoop>>
    BY <1>2 DEF Receive, past
  <2>2. Since(lastLoop)' = d /\ sinceLoop' = s
    BY <1>0, <2>1, SinceStep
  <2>3. PICK c \in Nat : c = longest' /\ c >= b
    <3>1. asked' \in Nat
      BY <1>2, FrequencyIsAsked DEF Receive, IntervalIsAsked
    <3>2. longest' = IF asked' > b THEN asked' ELSE b
      BY <1>0, <1>2 DEF Receive
    <3>3. PICK x \in Nat : x = asked'
      BY <3>1
    <3> QED
      BY <3>2, <3>3
  <2>4. PICK v \in Nat : v = ToLoop'
    BY <1>8
  <2>5. v <= t /\ c >= b
    BY <1>0, <1>2, <2>3, <2>4, TestsStep
  <2>6. jumpsLoop' = 0 /\ c + r < W => d = s /\ s + v <= c + r
    BY <1>i, <2>1, <2>5
  <2> QED
    BY <1>g, <2>2, <2>3, <2>4, <2>6
<1>3. CASE LoopDriver
  <2>0. ToLoop' = r
    BY <1>0, <1>3, TestsStep
  <2>1. CASE AsFloat(Since(lastLoop)) < interval
    <3>1. UNCHANGED <<now, lastLoop, sinceLoop, jumpsLoop, longest>>
      BY <1>3, <2>1 DEF LoopDriver
    <3>2. Since(lastLoop)' = d /\ sinceLoop' = s /\ longest' = b
      BY <1>0, <3>1, SinceStep
    <3>3. ASSUME b + r < W PROVE d < b
      <4>1. a < W /\ a \in 0..(W - 1) /\ d < W
        <5>1. Since(lastLoop) \in Times
          BY SinceStep
        <5>2. d < W
          BY <1>0, <5>1 DEF Times
        <5> QED
          BY <1>9, <3>3, <5>2
      <4>2. a % W = a
        BY <4>1, <1>0, ConstantsType, ModSmall
      <4>3. AsFloat(d) < AsFloat(a)
        BY <1>0, <2>1, <4>2 DEF IntervalIsAsked
      <4>4. AsFloat(a) \in Nat /\ AsFloat(d) \in Nat
        BY <1>0, <4>1, AsFloatIs
      <4>5. ~(a <= d)
        BY <1>0, <4>1, <4>3, <4>4, AsFloatMonotone
      <4> QED
        BY <1>9, <4>5
    <3>4. jumpsLoop' = 0 /\ b + r < W => d = s /\ s + r <= b + r
      BY <1>i, <3>1, <3>3
    <3> QED
      BY <1>g, <2>0, <3>2, <3>4
  <2>2. CASE ~(AsFloat(Since(lastLoop)) < interval)
    <3>1. now' = now /\ lastLoop' = now /\ sinceLoop' = 0
      BY <1>3, <2>2 DEF LoopDriver
    <3>2. Since(lastLoop)' = 0
      BY <3>1, SinceStep
    <3>3. PICK c \in Nat : c = longest'
      <4>1. asked' \in Nat /\ longest' = asked'
        BY <1>3, <2>2, FrequencyIsAsked DEF LoopDriver, IntervalIsAsked
      <4> QED
        BY <4>1
    <3>4. 0 = 0 /\ 0 + r <= c + r
      OBVIOUS
    <3> QED
      BY <1>g, <2>0, <3>1, <3>2, <3>3, <3>4
  <2> QED
    BY <2>1, <2>2
<1>4. CASE Tick
  <2>1. /\ Since(lastLoop)' = IF d + 1 < W THEN d + 1 ELSE 0
        /\ sinceLoop' = s + 1 /\ ToLoop' = t - 1 /\ t >= 1
        /\ longest' = b /\ jumpsLoop' = jumpsLoop
    <3>1. sinceLoop' = s + 1 /\ longest' = b /\ jumpsLoop' = jumpsLoop
      BY <1>0, <1>4 DEF Tick
    <3> QED
      BY <1>0, <1>4, <3>1, SinceStep, TestsStep
  <2>2. PICK e \in Nat : e = (IF d + 1 < W THEN d + 1 ELSE 0)
    OBVIOUS
  <2>3. t - 1 \in Nat /\ s + 1 \in Nat
    BY <2>1
  <2>4. t >= 1
    BY <2>1
  <2>5. jumpsLoop' = 0 /\ b + r < W => e = s + 1 /\ (s + 1) + (t - 1) <= b + r
    <3>1. ASSUME jumpsLoop = 0 /\ b + r < W
          PROVE  e = s + 1 /\ (s + 1) + (t - 1) <= b + r
      BY <1>i, <2>2, <2>4, <3>1
    <3> QED
      BY <2>1, <3>1
  <2> QED
    BY <1>g, <2>1, <2>2, <2>3, <2>5
<1>5. CASE Jump
  <2>1. jumpsLoop' # 0
    <3>1. jumpsLoop' = jumpsLoop + 1 /\ jumpsLoop \in Nat
      BY <1>5 DEF Jump, TypeOK
    <3> QED
      BY <3>1
  <2> QED
    BY <2>1 DEF LoopOnTime
<1>6. CASE UNCHANGED vars
  <2>1. UNCHANGED <<pc, spent, now, lastLoop, sinceLoop, jumpsLoop, longest>>
    BY <1>6 DEF vars, timers, past
  <2>2. /\ Since(lastLoop)' = d /\ sinceLoop' = s /\ ToLoop' = t /\ longest' = b
        /\ jumpsLoop' = jumpsLoop
    BY <1>0, <2>1, SinceStep DEF ToLoop
  <2> QED
    BY <1>g, <1>i, <2>2
<1> QED
  BY <1>1, <1>2, <1>3, <1>4, <1>5, <1>6 DEF Next, Step

-----------------------------------------------------------------------------
(* The theorems                                                            *)

(* The first states satisfy the invariant.                                 *)
LEMMA InvInit == Init => Inv
<1> SUFFICES ASSUME Init PROVE Inv
  OBVIOUS
<1>0. Wrap \in Nat \ {0} /\ MaxStep \in Nat /\ Period \in Nat /\ 0 \in Times
  BY ConstantsType
<1>1. interval \in Int /\ asked \in Nat /\ interval = AsFloat(asked % Wrap)
  <2>1. CASE interval = 0 /\ asked = 0
    <3>1. 0 % Wrap = 0
      BY <1>0
    <3> QED
      BY <2>1, <3>1, AsFloatZero
  <2>2. CASE \E secs \in Secs : /\ interval = AsFloat((secs * Second) % Wrap)
                                /\ asked = secs * Second
    <3>1. PICK secs \in Secs : /\ interval = AsFloat((secs * Second) % Wrap)
                               /\ asked = secs * Second
      BY <2>2
    <3>2. secs * Second \in Nat
      BY TimersAssumption
    <3>3. (secs * Second) % Wrap \in Nat /\ (secs * Second) % Wrap < Wrap
      BY <1>0, <3>2, ModDef
    <3>4. AsFloat((secs * Second) % Wrap) \in Nat
      BY <3>3, AsFloatIs
    <3> QED
      BY <3>1, <3>2, <3>4
  <2> QED
    BY <2>1, <2>2 DEF Init
<1>2. TypeOK
  BY <1>0, <1>1 DEF Init, TypeOK
<1>3. IntervalIsAsked
  BY <1>1 DEF Init, IntervalIsAsked
<1>4. Since(lastKeepalive) = 0 /\ Since(lastLoop) = 0
  <2>1. (now - now) % Wrap = 0
    BY <1>2, SinceType DEF TypeOK
  <2> QED
    BY <2>1 DEF Init, Since
<1>5. ClockLags
  BY <1>4 DEF Init, ClockLags
<1>6. ToKeepalive \in 0..Round /\ ToLoop \in 0..Round /\ Round \in Nat
  BY <1>2, TestsStep
<1>7. KeepaliveOnTime
  <2>1. Late \in Nat
    BY <1>2, LateStep
  <2>2. 0 <= Late + 0 /\ 0 + ToKeepalive <= Period + Round
    BY <1>0, <1>6, <2>1
  <2> QED
    BY <1>4, <2>2 DEF Init, KeepaliveOnTime
<1>8. LoopOnTime
  <2>1. longest \in Nat
    BY <1>2 DEF TypeOK
  <2>2. 0 + ToLoop <= longest + Round
    BY <1>6, <2>1
  <2> QED
    BY <1>4, <2>2 DEF Init, LoopOnTime
<1> QED
  BY <1>2, <1>3, <1>5, <1>7, <1>8 DEF Inv

(* Every step keeps the invariant.                                         *)
LEMMA InvInvariant == Spec => []Inv
<1>1. Inv /\ [Next]_vars => Inv'
  BY TypeStep, LagsStep, KeepaliveStep, LoopStep DEF Inv
<1> QED
  BY <1>1, InvInit, PTL DEF Spec

(* However often the time of day is set, a device that is running sends    *)
(* keepalives, a period and a round apart for each time (lhings.c, send_   *)
(* keepalive_if_needed).                                                   *)
THEOREM KeepalivesStayFrequent == Spec => []KeepalivesFrequent
<1>1. Inv => KeepalivesFrequent
  <2> SUFFICES ASSUME Inv PROVE KeepalivesFrequent
    OBVIOUS
  <2>0. TypeOK /\ KeepaliveOnTime
    BY DEF Inv
  <2>1. PICK s \in Nat, d \in Nat, l \in Nat, t \in Nat, p \in Nat, r \in Nat :
          /\ s = sinceKeepalive /\ d = Since(lastKeepalive) /\ l = Late
          /\ t = ToKeepalive /\ p = Period /\ r = Round
    <3>1. Since(lastKeepalive) \in Nat /\ ToKeepalive \in Nat
      BY <2>0, SinceStep, TestsStep DEF Times
    <3>2. sinceKeepalive \in Nat /\ Period \in Nat
      BY <2>0, ConstantsType DEF TypeOK
    <3>3. Late \in Nat /\ Round \in Nat
      BY <2>0, LateStep, TestsStep
    <3> QED
      BY <3>1, <3>2, <3>3
  <2>2. \/ d > p /\ s + t <= l
        \/ s <= l + d /\ d + t <= p + r
    BY <2>0, <2>1 DEF KeepaliveOnTime
  <2>3. s <= l + (p + r)
    BY <2>2
  <2>4. (jumpsKeepalive + 1) * (Period + Round) = l + (p + r)
    BY <2>0, <2>1, LateStep
  <2> QED
    BY <2>1, <2>3, <2>4 DEF KeepalivesFrequent
<1> QED
  BY <1>1, InvInvariant, PTL

(* Two keepalives are more than a period apart, also when the milliseconds *)
(* wrap between them, as long as nobody sets the time of day.              *)
THEOREM KeepalivesStaySpaced == Spec => KeepalivesSpaced
<1>1. Inv /\ [Next]_vars =>
        [sinceKeepalive' < sinceKeepalive /\ jumpsKeepalive = 0 =>
           sinceKeepalive > Period]_vars
  <2> SUFFICES ASSUME Inv, Next, sinceKeepalive' < sinceKeepalive, jumpsKeepalive = 0
               PROVE  sinceKeepalive > Period
    OBVIOUS
  <2>0. TypeOK /\ ClockLags
    BY DEF Inv
  <2>1. PICK s \in Nat : s = sinceKeepalive
    BY <2>0 DEF TypeOK
  <2>2. CASE KeepaliveIfNeeded /\ ~(Since(lastKeepalive) <= Period)
    <3>1. Since(lastKeepalive) \in Int /\ Period \in Int
      BY <2>0, SinceStep, ConstantsType DEF Times
    <3>2. Since(lastKeepalive) <= s
      BY <2>0, <2>1 DEF ClockLags
    <3> QED
      BY <2>1, <2>2, <3>1, <3>2
  <2>3. CASE Tick
    <3>1. s + 1 < s
      BY <2>1, <2>3 DEF Tick
    <3> QED
      BY <3>1
  <2>4. CASE sinceKeepalive' = sinceKeepalive
    <3>1. s < s
      BY <2>1, <2>4
    <3> QED
      BY <3>1
  <2> QED
    BY <2>2, <2>3, <2>4 DEF Next, Step, KeepaliveIfNeeded, Receive, LoopDriver, Jump, past
<1> QED
  BY <1>1, InvInvariant, PTL DEF Spec, KeepalivesSpaced

(* loop() is not called before the interval that was asked for has passed, *)
(* but for one distance of floats (lhings.c, loop_driver).                 *)
THEOREM LoopIsNotEarly == Spec => LoopNotEarly
<1>1. Inv /\ [Next]_vars =>
        [sinceLoop' < sinceLoop /\ jumpsLoop = 0 /\ asked < Wrap =>
           sinceLoop + Ulp(asked) >= asked]_vars
  <2> SUFFICES ASSUME Inv, Next, sinceLoop' < sinceLoop, jumpsLoop = 0, asked < Wrap
               PROVE  sinceLoop + Ulp(asked) >= asked
    OBVIOUS
  <2>0. TypeOK /\ ClockLags /\ IntervalIsAsked
    BY DEF Inv
  <2>1. PICK s \in Nat, a \in Nat, d \in Nat :
          s = sinceLoop /\ a = asked /\ d = Since(lastLoop)
    <3>1. Since(lastLoop) \in Nat
      BY <2>0, SinceStep DEF Times
    <3> QED
      BY <2>0, <3>1 DEF TypeOK
  <2>2. CASE LoopDriver /\ ~(AsFloat(Since(lastLoop)) < interval)
    <3>1. d <= s
      BY <2>0, <2>1 DEF ClockLags
    <3>2. a < Wrap /\ d < Wrap
      <4>1. Since(lastLoop) \in Times
        BY <2>0, SinceStep
      <4> QED
        BY <2>1, <4>1, ConstantsType DEF Times
    <3>3. a % Wrap = a
      <4>1. a \in 0..(Wrap - 1)
        BY <3>2, ConstantsType
      <4> QED
        BY <4>1, ConstantsType, ModSmall
    <3>4. PICK f \in Nat, g \in Nat : f = AsFloat(d) /\ g = AsFloat(a)
      BY <3>2, AsFloatIs
    <3>5. PICK u \in Nat, v \in Nat : u = Ulp(d) /\ v = Ulp(a)
      BY <3>2, UlpIs
    <3>6. ~(f < g)
      BY <2>0, <2>1, <2>2, <3>3, <3>4 DEF IntervalIsAsked
    <3>7. 2 * f <= 2 * d + u /\ 2 * a <= 2 * g + v
      BY <3>2, <3>4, <3>5, AsFloatIs
    <3>8. d <= a => u <= v
      BY <3>2, <3>5, UlpMonotone
    <3>9. s + v >= a
      BY <3>1, <3>6, <3>7, <3>8
    <3> QED
      BY <2>1, <3>5, <3>9
  <2>3. CASE Tick
    <3>1. s + 1 < s
      BY <2>1, <2>3 DEF Tick
    <3> QED
      BY <3>1
  <2>4. CASE sinceLoop' = sinceLoop
    <3>1. s < s
      BY <2>1, <2>4
    <3> QED
      BY <3>1
  <2> QED
    BY <2>2, <2>3, <2>4 DEF Next, Step, KeepaliveIfNeeded, Receive, LoopDriver, Jump, past
<1> QED
  BY <1>1, InvInvariant, PTL DEF Spec, LoopNotEarly

(* And it is called within a round of the loop after that.                 *)
THEOREM LoopIsNotLate == Spec => []LoopNotLate
<1>1. Inv => LoopNotLate
  <2> SUFFICES ASSUME Inv, jumpsLoop = 0, longest + Round < Wrap
               PROVE  sinceLoop <= longest + Round
    BY DEF LoopNotLate
  <2>1. ToLoop \in 0..Round /\ Round \in Nat /\ sinceLoop \in Nat /\ longest \in Nat
    BY TestsStep DEF Inv, TypeOK
  <2>2. sinceLoop + ToLoop <= longest + Round
    BY DEF Inv, LoopOnTime
  <2> QED
    BY <2>1, <2>2
<1> QED
  BY <1>1, InvInvariant, PTL
=============================================================================
