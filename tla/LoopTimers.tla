------------------------------ MODULE LoopTimers ------------------------------
(***************************************************************************)
(* The two timers of the main loop (core/lhings.c) on the clock that       *)
(* lh_get_absolute_time_millis reads: milliseconds in a uint32, which wrap *)
(* around after 49 days, taken from the time of day, which somebody may    *)
(* set.  send_keepalive_if_needed compares unsigned differences with the   *)
(* 30 seconds between keepalives, loop_driver compares them, as a float,   *)
(* with an interval that the user's code may change.                       *)
(***************************************************************************)
EXTENDS Integers

CONSTANTS
  Wrap,       \* the milliseconds are counted modulo Wrap: 2^32
  Period,     \* DELAY_BETWEEN_KEEPALIVES_SECS * 1000
  Second,     \* 1000
  FloatExact, \* the integers up to twice it are exact in a float: 2^23
  Secs,       \* arguments of lh_set_loop_frequency_secs,
  Freqs,      \* and of lh_set_loop_frequency_hz
  MaxStep,    \* bound: milliseconds that a step of the loop takes
  Jumps,      \* by how much the time of day may be set on or back
  MaxJumps    \* bound: how often between two keepalives and two loop()s

ASSUME TimersAssumption ==
  /\ {Wrap, Period, Second, FloatExact} \subseteq Nat \ {0}
  /\ Secs \subseteq Nat /\ Freqs \subseteq Nat \ {0} /\ Jumps \subseteq Int
  /\ {MaxStep, MaxJumps} \subseteq Nat
  /\ Second < Wrap /\ Wrap <= 512 * FloatExact
  /\ Period + 3 * MaxStep < Wrap

VARIABLES
  pc,             \* the next step of the loop
  now,            \* lh_get_absolute_time_millis
  lastKeepalive,  \* last_keepalive
  lastLoop,       \* last_loop_execution
  interval,       \* config.loop_frequency_millis
  spent,          \* milliseconds since the last step
  (* for the properties: *)
  sinceKeepalive, \* milliseconds that have passed since a keepalive was sent
  sinceLoop,      \* and since loop() was called
  jumpsKeepalive, \* how often the time of day was set since then
  jumpsLoop,
  asked,          \* the interval the user's code asked for last,
  longest         \* and the longest it has asked for since loop() was called

timers == <<now, lastKeepalive, lastLoop, interval>>
past == <<sinceKeepalive, sinceLoop, jumpsKeepalive, jumpsLoop>>
vars == <<pc, timers, spent, past, asked, longest>>

(* The time since last: as if it were signed, as if it were the distance   *)
(* of the two readings, and as it is, a difference of uint32.              *)
SinceSigned(last) ==
  LET d == (now - last) % Wrap IN IF d < Wrap \div 2 THEN d ELSE d - Wrap
SinceDistance(last) == IF now >= last THEN now - last ELSE last - now
Since(last) == (now - last) % Wrap

(* The float nearest to n; between two, the one with the even mantissa.    *)
Ulp(n) == CHOOSE u \in {1, 2, 4, 8, 16, 32, 64, 128, 256} :
            /\ n < 2 * FloatExact * u
            /\ u = 1 \/ n >= FloatExact * u
AsFloat(n) ==
  LET u == Ulp(n)
      rest == n % u
      below == n - rest
      odd == (below \div u) % 2 = 1
  IN  IF rest * 2 > u \/ (rest * 2 = u /\ odd) THEN below + u ELSE below

(* send_keepalive_if_needed.                                               *)
KeepaliveIfNeeded ==
  /\ pc = "keepalive"
  /\ IF Since(lastKeepalive) <= Period
       THEN UNCHANGED <<lastKeepalive, sinceKeepalive, jumpsKeepalive>>
       ELSE /\ lastKeepalive' = now
            /\ sinceKeepalive' = 0 /\ jumpsKeepalive' = 0
  /\ pc' = "receive" /\ spent' = 0
  /\ UNCHANGED <<now, lastLoop, interval, sinceLoop, jumpsLoop, asked, longest>>

(* What the user's code may call: lh_set_loop_frequency_secs, whose        *)
(* product is a uint32, and lh_set_loop_frequency_hz, which drops the      *)
(* fraction of a millisecond.                                              *)
SetFrequency ==
  \/ \E secs \in Secs : /\ interval' = AsFloat((secs * Second) % Wrap)
                        /\ asked' = secs * Second
  \/ \E freq \in Freqs : /\ interval' = AsFloat(Second \div freq)
                         /\ asked' = Second \div freq
  \/ UNCHANGED <<interval, asked>>

(* process_messages, which may call the function of an action.             *)
Receive ==
  /\ pc = "receive"
  /\ SetFrequency
  /\ longest' = IF asked' > longest THEN asked' ELSE longest
  /\ pc' = "loop" /\ spent' = 0
  /\ UNCHANGED <<now, lastKeepalive, lastLoop, past>>

LoopDriver ==
  /\ pc = "loop"
  /\ IF AsFloat(Since(lastLoop)) < interval
       THEN UNCHANGED <<lastLoop, interval, sinceLoop, jumpsLoop, asked, longest>>
       ELSE /\ lastLoop' = now
            /\ SetFrequency
            /\ sinceLoop' = 0 /\ jumpsLoop' = 0 /\ longest' = asked'
  /\ pc' = "keepalive" /\ spent' = 0
  /\ UNCHANGED <<now, lastKeepalive, sinceKeepalive, jumpsKeepalive>>

(* A millisecond passes, in the user's code, in a system call or nowhere.  *)
Tick ==
  /\ spent < MaxStep
  /\ now' = (now + 1) % Wrap
  /\ spent' = spent + 1
  /\ sinceKeepalive' = sinceKeepalive + 1
  /\ sinceLoop' = sinceLoop + 1
  /\ UNCHANGED <<pc, lastKeepalive, lastLoop, interval, jumpsKeepalive, jumpsLoop,
                 asked, longest>>

(* The time of day is set.                                                 *)
Jump ==
  /\ jumpsKeepalive < MaxJumps /\ jumpsLoop < MaxJumps
  /\ \E j \in Jumps : now' = (now + j) % Wrap
  /\ jumpsKeepalive' = jumpsKeepalive + 1
  /\ jumpsLoop' = jumpsLoop + 1
  /\ UNCHANGED <<pc, lastKeepalive, lastLoop, interval, spent, sinceKeepalive,
                 sinceLoop, asked, longest>>

(* The first reading of the clock is 0, right after the first keepalive;   *)
(* setup() may have set the interval, which else is 0.                     *)
Init ==
  /\ pc = "keepalive"
  /\ now = 0 /\ lastKeepalive = 0 /\ lastLoop = 0
  /\ \/ interval = 0 /\ asked = 0
     \/ \E secs \in Secs : interval = AsFloat((secs * Second) % Wrap) /\ asked = secs * Second
  /\ longest = asked
  /\ spent = 0
  /\ sinceKeepalive = 0 /\ sinceLoop = 0
  /\ jumpsKeepalive = 0 /\ jumpsLoop = 0

Step == KeepaliveIfNeeded \/ Receive \/ LoopDriver

Next == Step \/ Tick \/ Jump

Spec == Init /\ [][Next]_vars
-----------------------------------------------------------------------------
(* Properties                                                              *)

(* The time that a round of the loop may take.                             *)
Round == 3 * MaxStep

(* Without the clock being set, keepalives are more than the period apart, *)
(* also when the milliseconds wrap around between two of them: the server  *)
(* is not flooded every 49 days.                                           *)
KeepalivesSpaced ==
  [][sinceKeepalive' < sinceKeepalive /\ jumpsKeepalive = 0 =>
       sinceKeepalive > Period]_vars

(* They are no farther apart than the period and a round of the loop, and  *)
(* each time that the clock is set costs no more than that again: a step   *)
(* back behind the last keepalive makes the next one due at once, instead  *)
(* of silencing the device until the clock has caught up.                  *)
KeepalivesFrequent ==
  sinceKeepalive <= (jumpsKeepalive + 1) * (Period + Round)

(* Without the clock being set, loop() is not called before the interval   *)
(* asked for, but for the rounding of floats, if the interval in           *)
(* milliseconds is one of a uint32.                                        *)
LoopNotEarly ==
  [][sinceLoop' < sinceLoop /\ jumpsLoop = 0 /\ asked < Wrap =>
       sinceLoop + Ulp(asked) >= asked]_vars

(* And it is called within a round of the loop after it, whichever of the  *)
(* user's functions changed the interval, unless the interval leaves less  *)
(* than a round of it until the milliseconds wrap: floats round the time   *)
(* and the interval alike.                                                 *)
LoopNotLate ==
  jumpsLoop = 0 /\ longest + Round < Wrap => sinceLoop <= longest + Round
=============================================================================
