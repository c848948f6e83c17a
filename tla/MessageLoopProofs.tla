-------------------------- MODULE MessageLoopProofs --------------------------
(***************************************************************************)
(* Theorems about MessageLoop for any set of requests, any bounds, any     *)
(* modulus of the clocks and any faults.                                   *)
(***************************************************************************)
EXTENDS MessageLoop, NumberTheorems, FunctionTheorems,
        FiniteSetTheorems, SequenceTheorems, TLAPS

-----------------------------------------------------------------------------
(* Bags, and the places of a value in a sequence                           *)

(* One copy of an element put into a bag.                                  *)
LEMMA BagPut ==
  ASSUME NEW B, NEW m, IsABag(B)
  PROVE  /\ IsABag(B (+) SetToBag({m}))
         /\ BagToSet(B (+) SetToBag({m})) = BagToSet(B) \cup {m}
BY DEF IsABag, BagToSet, SetToBag, (+)

(* One copy taken out: what is left was there.                             *)
LEMMA BagTake ==
  ASSUME NEW B, NEW m, IsABag(B)
  PROVE  /\ IsABag(B (-) SetToBag({m}))
         /\ BagToSet(B (-) SetToBag({m})) \subseteq BagToSet(B)
BY DEF IsABag, BagToSet, SetToBag, (-)

(* The empty bag.                                                          *)
LEMMA BagNone == IsABag(EmptyBag) /\ BagToSet(EmptyBag) = {}
BY DEF IsABag, BagToSet, EmptyBag, SetToBag

Places(s, x) == {i \in DOMAIN s : s[i] = x}

(* A value is in finitely many places of a sequence.                       *)
LEMMA PlacesFinite ==
  ASSUME NEW S, NEW s \in Seq(S), NEW x
  PROVE  IsFiniteSet(Places(s, x)) /\ Cardinality(Places(s, x)) \in Nat
<1>1. DOMAIN s = 1..Len(s) /\ Len(s) \in Nat
  BY LenProperties
<1>2. IsFiniteSet(1..Len(s))
  BY <1>1, FS_Interval
<1>3. Places(s, x) \subseteq 1..Len(s)
  BY <1>1 DEF Places
<1> QED
  BY <1>2, <1>3, FS_Subset, FS_CardinalityType

(* A sequence one longer has the value once more if it is what was added.  *)
LEMMA PlacesAppend ==
  ASSUME NEW S, NEW s \in Seq(S), NEW y \in S, NEW x
  PROVE  Cardinality(Places(Append(s, y), x)) =
           Cardinality(Places(s, x)) + IF y = x THEN 1 ELSE 0
<1>1. /\ Len(s) \in Nat
      /\ DOMAIN Append(s, y) = 1..(Len(s) + 1) /\ DOMAIN s = 1..Len(s)
      /\ \A i \in 1..Len(s) : Append(s, y)[i] = s[i]
      /\ Append(s, y)[Len(s) + 1] = y
  BY AppendProperties, LenProperties
<1>2. CASE y = x
  <2>1. Places(Append(s, y), x) = Places(s, x) \cup {Len(s) + 1}
    BY <1>1, <1>2 DEF Places
  <2>2. Len(s) + 1 \notin Places(s, x)
    BY <1>1 DEF Places
  <2> QED
    BY <1>2, <2>1, <2>2, PlacesFinite, FS_AddElement
<1>3. CASE y # x
  <2>1. Places(Append(s, y), x) = Places(s, x)
    BY <1>1, <1>3 DEF Places
  <2> QED
    BY <1>3, <2>1, PlacesFinite
<1> QED
  BY <1>2, <1>3

(* One shorter, it has it once less if that was its head.                  *)
LEMMA PlacesTail ==
  ASSUME NEW S, NEW s \in Seq(S), s # << >>, NEW x
  PROVE  Cardinality(Places(s, x)) =
           Cardinality(Places(Tail(s), x)) + IF Head(s) = x THEN 1 ELSE 0
<1> DEFINE rest == Places(s, x) \ {1}
           shift == [i \in Places(Tail(s), x) |-> i + 1]
<1>1. /\ Len(s) \in Nat \ {0} /\ DOMAIN s = 1..Len(s)
      /\ Tail(s) \in Seq(S) /\ DOMAIN Tail(s) = 1..(Len(s) - 1)
      /\ \A i \in 1..(Len(s) - 1) : Tail(s)[i] = s[i + 1]
      /\ Head(s) = s[1]
  BY EmptySeq, LenProperties, HeadTailProperties
<1>2. IsFiniteSet(Places(Tail(s), x)) /\ IsFiniteSet(Places(s, x))
  BY <1>1, PlacesFinite
<1>3. shift \in Bijection(Places(Tail(s), x), rest)
  <2>1. shift \in [Places(Tail(s), x) -> rest]
    BY <1>1 DEF Places
  <2>2. \A i, j \in Places(Tail(s), x) : shift[i] = shift[j] => i = j
    BY <1>1 DEF Places
  <2>3. \A k \in rest : k - 1 \in Places(Tail(s), x) /\ shift[k - 1] = k
    BY <1>1 DEF Places
  <2> QED
    BY <2>1, <2>2, <2>3, Fun_IsBij
<1>4. Cardinality(rest) = Cardinality(Places(Tail(s), x))
  BY <1>2, <1>3, FS_Bijection DEF ExistsBijection
<1>5. Cardinality(rest) =
        Cardinality(Places(s, x)) - IF Head(s) = x THEN 1 ELSE 0
  <2>1. Cardinality(Places(s, x)) \in Nat
    BY PlacesFinite
  <2>2. CASE Head(s) = x
    <3>1. 1 \in Places(s, x)
      BY <1>1, <2>2 DEF Places
    <3>2. Cardinality(rest) = Cardinality(Places(s, x)) - 1
      BY <1>2, <3>1, FS_RemoveElement
    <3> QED
      BY <2>2, <3>2
  <2>3. CASE Head(s) # x
    <3>1. rest = Places(s, x)
      BY <1>1, <2>3 DEF Places
    <3> HIDE DEF rest
    <3> QED
      BY <2>1, <2>3, <3>1
  <2> QED
    BY <2>2, <2>3
<1> QED
  BY <1>1, <1>4, <1>5, PlacesFinite

-----------------------------------------------------------------------------
(* The inductive invariant                                                 *)

(* What the counters have in reserve, a request in hand.                   *)
Bounded ==
  /\ pc \in {"perform", "respond"} => hand \in Requests
  /\ status <= MaxChanges + faults
  /\ \A m \in BagToSet(answers) : m.status <= status
  /\ \A r \in Requests :
       copies[r] <= Copies + faults /\ asked[r] <= status /\ answer[r] <= status

(* What there is of a request, there is because it was sent.               *)
Present(r) ==
  \/ Request(r) \in toDevice \cup ToSet(inbox)
  \/ pc \in {"perform", "respond"} /\ hand = r
  \/ AnswerUnderway(r) \/ Answered(r)

PresentWasSent == \A r \in Requests : Present(r) => copies[r] > 0

(* An answer to r that tells s is the one that is due.                     *)
Due(r, s) ==
  /\ Kind[r] = "run" => executed[r] >= 1
  /\ Kind[r] = "status" => asked[r] <= s /\ s <= status
  /\ Kind[r] # "status" => s = 0

AnswersAreDue ==
  /\ \A m \in BagToSet(answers) : Due(m.req, m.status)
  /\ \A r \in Requests : Answered(r) => Due(r, answer[r])
  /\ pc = "respond" /\ Kind[hand] = "run" => executed[hand] >= 1

(* An error is no older than its age says, and the device's clock no       *)
(* farther behind than the oldest.                                         *)
ErrorsAreRecent ==
  /\ \A m \in toDevice \cup ToSet(inbox) :
       m.what = "error" => (ServerTime - m.time) % TimeMod <= m.age
  /\ offset # 0 => (Skew + offset) % TimeMod <= MaxLife

Inv ==
  /\ TypeOK /\ Bounded /\ ExecutionsAccounted
  /\ PresentWasSent /\ AnswersAreDue /\ ErrorsAreRecent

-----------------------------------------------------------------------------
(* Datagrams                                                               *)

Datagrams == ToDevice \cup {Noise}

(* What the assumption says of the constants.                              *)
LEMMA ConstantsType ==
  /\ Copies \in Nat /\ InboxSize \in Nat /\ MaxChanges \in Nat
  /\ KeepaliveTicks \in Nat /\ MaxLife \in Nat /\ FaultBudget \in Nat
  /\ TimeMod \in Nat \ {0} /\ Skew \in Int
BY LoopAssumption

(* A datagram is a request, an error or noise, and only one of them.       *)
LEMMA DatagramKinds ==
  ASSUME NEW m \in Datagrams
  PROVE  /\ m.what = "request" => m.req \in Requests /\ m = Request(m.req)
         /\ m.what = "error" => /\ m.time \in Time /\ m.age \in 0..MaxLife
                                /\ m = Error(m.time, m.age)
         /\ m.what \notin {"request", "error"} => m = Noise
BY DEF Datagrams, ToDevice, Request, Error, Noise

(* Requests do not age, and nothing becomes one by aging.                  *)
LEMMA OlderErrorKeeps ==
  ASSUME NEW m \in Datagrams, NEW r
  PROVE  OlderError(m) = Request(r) <=> m = Request(r)
<1>1. CASE m.what = "error"
  <2>1. m = Error(m.time, m.age)
    BY <1>1, DatagramKinds
  <2>2. OlderError(m) = Error(m.time, m.age + 1)
    BY <1>1, <2>1 DEF OlderError, Older, Error
  <2> QED
    BY <2>1, <2>2 DEF Error, Request
<1>2. CASE m.what # "error"
  BY <1>2 DEF OlderError
<1> QED
  BY <1>1, <1>2

-----------------------------------------------------------------------------
(* Counting requests                                                       *)

Waiting(r) == Cardinality(Places(inbox, Request(r)))
Flying(r) == IF Request(r) \in toDevice THEN 1 ELSE 0
Held(r) == IF hand = r /\ pc = "perform" THEN 1 ELSE 0
Accounted(r) == executed[r] + Waiting(r) + Flying(r) + Held(r) <= copies[r]

(* The invariant about executions, request by request.                     *)
LEMMA AccountedMeans == ExecutionsAccounted <=> \A r \in Requests : Accounted(r)
BY DEF ExecutionsAccounted, Accounted, Waiting, Flying, Held, Places

(* A step executes an action only if it uses up a copy of its request.     *)
LEMMA AccountedStep ==
  ASSUME TypeOK, [Next]_vars, NEW r \in Requests, Accounted(r)
  PROVE  Accounted(r)'
<1> USE DEF device, toServer, network, server
<1>0. /\ executed[r] \in Nat /\ copies[r] \in Nat /\ Waiting(r) \in Nat
      /\ inbox \in Seq(Datagrams) /\ toDevice \subseteq Datagrams
      /\ DOMAIN executed = Requests /\ DOMAIN copies = Requests
  BY PlacesFinite, ConstantsType DEF TypeOK, Waiting, Datagrams
<1>1. ASSUME UNCHANGED <<inbox, executed, copies, toDevice>>,
             hand' # r \/ pc' # "perform"
      PROVE  Accounted(r)'
  BY <1>0, <1>1 DEF Accounted, Waiting, Flying, Held
<1>2. CASE FirstKeepalive \/ KeepaliveIfNeeded \/ Respond \/ LoopDriver
  BY <1>1, <1>2 DEF FirstKeepalive, KeepaliveIfNeeded, Respond, LoopDriver
<1>3. CASE Receive
  <2>1. CASE inbox = << >>
    BY <1>1, <1>3, <2>1 DEF Receive
  <2>2. CASE inbox # << >>
    <3>1. /\ inbox' = Tail(inbox) /\ UNCHANGED <<executed, copies, toDevice>>
          /\ pc = "receive"
      BY <1>3, <2>2 DEF Receive
    <3>2. Waiting(r) = Waiting(r)' + IF Head(inbox) = Request(r) THEN 1 ELSE 0
      BY <1>0, <2>2, <3>1, PlacesTail DEF Waiting
    <3>3. inbox' \in Seq(Datagrams) /\ Head(inbox) \in Datagrams
      BY <1>0, <2>2, <3>1, EmptySeq, HeadTailProperties
    <3>4. Waiting(r)' \in Nat
      BY <3>3, PlacesFinite DEF Waiting
    <3>5. hand' = r /\ pc' = "perform" => Head(inbox) = Request(r)
      BY <1>3, <2>2, <3>3, DatagramKinds DEF Receive
    <3> QED
      BY <1>0, <3>1, <3>2, <3>4, <3>5 DEF Accounted, Flying, Held
  <2> QED
    BY <2>1, <2>2
<1>4. CASE PerformAction
  BY <1>0, <1>4 DEF PerformAction, Accounted, Waiting, Flying, Held
<1>5. CASE Crash
  <2>1. Places(<< >>, Request(r)) = {}
    BY DEF Places
  <2>2. Waiting(r)' = 0
    BY <1>5, <2>1, FS_EmptySet DEF Crash, Waiting
  <2> QED
    BY <1>0, <1>5, <2>2 DEF Crash, Accounted, Flying, Held
<1>6. CASE \E q \in Requests : Ask(q)
  BY <1>0, <1>6 DEF Ask, Accounted, Waiting, Flying, Held, Request
<1>7. CASE \E m \in keepalives : HearKeepalive(m)
  BY <1>0, <1>7 DEF HearKeepalive, Accounted, Waiting, Flying, Held, Request, Error
<1>8. CASE \E m \in BagToSet(answers) : HearAnswer(m)
  BY <1>0, <1>8 DEF HearAnswer, Accounted, Waiting, Flying, Held
<1>9. ASSUME NEW m \in toDevice, Deliver(m) \/ Damage(m) \/ Duplicate(m)
      PROVE  Accounted(r)'
  <2>1. m \in Datagrams /\ Noise \in Datagrams /\ Noise # Request(r)
    BY <1>0 DEF Datagrams, Noise, Request
  <2>2. CASE Deliver(m) \/ Duplicate(m)
    <3>1. inbox' = Append(inbox, m)
      BY <2>2 DEF Deliver, Duplicate
    <3>2. Waiting(r)' = Waiting(r) + IF m = Request(r) THEN 1 ELSE 0
      BY <1>0, <2>1, <3>1, PlacesAppend DEF Waiting
    <3> QED
      BY <1>0, <2>2, <3>2
         DEF Deliver, Duplicate, Fault, Accounted, Flying, Held
  <2>3. CASE Damage(m)
    <3>1. Waiting(r)' = Waiting(r) + IF Noise = Request(r) THEN 1 ELSE 0
      BY <1>0, <2>1, <2>3, PlacesAppend DEF Damage, Waiting
    <3> QED
      BY <1>0, <2>1, <2>3, <3>1 DEF Damage, Accounted, Flying, Held
  <2> QED
    BY <1>9, <2>2, <2>3
<1>10. CASE Lose
  BY <1>0, <1>10 DEF Lose, Accounted, Waiting, Flying, Held
<1>11. CASE Tick
  <2>1. \A i \in DOMAIN inbox : inbox[i] \in Datagrams
    BY <1>0, ElementOfSeq
  <2>2. Places(inbox, Request(r))' = Places(inbox, Request(r))
    BY <1>11, <2>1, OlderErrorKeeps DEF Tick, Places
  <2>3. Request(r) \in toDevice' <=> Request(r) \in toDevice
    BY <1>0, <1>11, OlderErrorKeeps DEF Tick
  <2> QED
    BY <1>0, <1>11, <2>2, <2>3 DEF Tick, Accounted, Waiting, Flying, Held
<1>12. CASE UNCHANGED vars
  BY <1>0, <1>12 DEF vars, Accounted, Waiting, Flying, Held
<1> QED
  BY <1>2, <1>3, <1>4, <1>5, <1>6, <1>7, <1>8, <1>9, <1>10, <1>11, <1>12
     DEF Next, Device, ServerStep, Network

-----------------------------------------------------------------------------
(* Types                                                                   *)

(* The readings of the clocks are times.                                   *)
LEMMA TimesType ==
  ASSUME TypeOK
  PROVE  /\ ServerTime \in Time /\ DeviceTime \in Time
         /\ (clock + 1) % TimeMod \in Time
         /\ \A t \in Time : NewOffset(t) \in Time
BY ConstantsType, ModDef DEF TypeOK, Time, ServerTime, DeviceTime, NewOffset

(* A fault is taken from the budget.                                       *)
LEMMA FaultsType ==
  ASSUME TypeOK
  PROVE  \A kind : Fault(kind) =>
           faults' \in 0..FaultBudget /\ faults' = faults + 1
BY ConstantsType DEF TypeOK, Fault

(* What sending a keepalive changes: the keepalives on their way, or a     *)
(* fault.                                                                  *)
LEMMA SendKeepaliveType ==
  ASSUME TypeOK, SendKeepalive
  PROVE  /\ keepalives' \subseteq Keepalives
         /\ faults' \in 0..FaultBudget
         /\ faults' = faults \/ faults' = faults + 1
<1>1. Keepalive(DeviceTime, 0) \in Keepalives
  <2>1. DeviceTime \in Time /\ 0 \in 0..MaxLife
    BY TimesType, ConstantsType
  <2> QED
    BY <2>1 DEF Keepalives
<1>2. keepalives \subseteq Keepalives /\ faults \in 0..FaultBudget
  BY DEF TypeOK
<1>3. Fault("send") => faults' \in 0..FaultBudget /\ faults' = faults + 1
  BY FaultsType
<1> QED
  BY <1>1, <1>2, <1>3 DEF SendKeepalive

(* The same of sending an answer.                                          *)
LEMMA SendAnswerType ==
  ASSUME TypeOK, NEW m, SendAnswer(m)
  PROVE  /\ IsABag(answers') /\ BagToSet(answers') \subseteq BagToSet(answers) \cup {m}
         /\ faults' \in 0..FaultBudget
         /\ faults' = faults \/ faults' = faults + 1
<1>1. IsABag(answers) /\ faults \in 0..FaultBudget
  BY DEF TypeOK
<1>2. Fault("send") => faults' \in 0..FaultBudget /\ faults' = faults + 1
  BY FaultsType
<1>3. /\ IsABag(answers (+) SetToBag({m}))
      /\ BagToSet(answers (+) SetToBag({m})) = BagToSet(answers) \cup {m}
  BY <1>1, BagPut
<1> QED
  BY <1>1, <1>2, <1>3 DEF SendAnswer

(* The status of the device changes a bounded number of times.             *)
LEMMA ChangeStatusType ==
  ASSUME TypeOK, ChangeStatus
  PROVE  /\ status' \in 0..(MaxChanges + FaultBudget)
         /\ status' = status \/ (status' = status + 1 /\ status < MaxChanges)
<1>1. /\ status \in 0..(MaxChanges + FaultBudget)
      /\ MaxChanges \in Nat /\ FaultBudget \in Nat
  BY ConstantsType DEF TypeOK
<1>2. status' = status \/ (status' = status + 1 /\ status < MaxChanges)
  BY DEF ChangeStatus
<1> QED
  BY <1>1, <1>2

(* A datagram put into the buffer, one taken out of it.                    *)
LEMMA InboxPut ==
  ASSUME NEW S, NEW s \in Seq(S), NEW m \in S
  PROVE  /\ Append(s, m) \in Seq(S) /\ Len(Append(s, m)) = Len(s) + 1
         /\ Len(s) \in Nat
         /\ ToSet(Append(s, m)) = ToSet(s) \cup {m}
<1>1. /\ Append(s, m) \in Seq(S) /\ Len(s) \in Nat
      /\ DOMAIN Append(s, m) = 1..(Len(s) + 1) /\ DOMAIN s = 1..Len(s)
      /\ \A i \in 1..Len(s) : Append(s, m)[i] = s[i]
      /\ Append(s, m)[Len(s) + 1] = m
      /\ Len(Append(s, m)) = Len(s) + 1
  BY AppendProperties, LenProperties
<1> QED
  BY <1>1 DEF ToSet

(* What reading a datagram leaves of the inbox.                            *)
LEMMA InboxTake ==
  ASSUME NEW S, NEW s \in Seq(S), s # << >>
  PROVE  /\ Tail(s) \in Seq(S) /\ Len(Tail(s)) = Len(s) - 1
         /\ Len(s) \in Nat
         /\ Head(s) \in ToSet(s) /\ Head(s) \in S
         /\ ToSet(Tail(s)) \subseteq ToSet(s)
<1>1. /\ Len(s) \in Nat \ {0} /\ DOMAIN s = 1..Len(s)
      /\ Tail(s) \in Seq(S) /\ DOMAIN Tail(s) = 1..(Len(s) - 1)
      /\ Len(Tail(s)) = Len(s) - 1
      /\ \A i \in 1..(Len(s) - 1) : Tail(s)[i] = s[i + 1]
      /\ Head(s) = s[1] /\ s[1] \in S
  BY EmptySeq, LenProperties, HeadTailProperties, ElementOfSeq
<1> QED
  BY <1>1 DEF ToSet

(* An answer is one to a request, with a status.                           *)
LEMMA SuccessesType ==
  ASSUME NEW m \in Successes
  PROVE  /\ m.req \in Requests /\ m.status \in 0..(MaxChanges + FaultBudget)
         /\ m = Success(m.req, m.status)
BY DEF Successes, Success

(* The facts of the types that steps need.                                 *)
LEMMA TypeFacts ==
  ASSUME TypeOK
  PROVE  /\ status \in Nat /\ faults \in Nat
         /\ DOMAIN copies = Requests /\ DOMAIN asked = Requests
         /\ DOMAIN answer = Requests /\ DOMAIN executed = Requests
         /\ inbox \in Seq(Datagrams) /\ Len(inbox) \in Nat /\ Len(inbox) <= InboxSize
         /\ toDevice \subseteq Datagrams
         /\ IsABag(answers)
         /\ \A m \in BagToSet(answers) : m \in Successes /\ m.req \in Requests /\ m.status \in Int
         /\ \A r \in Requests :
              copies[r] \in Int /\ asked[r] \in Int /\ answer[r] \in Int /\ executed[r] \in Int
BY ConstantsType, SuccessesType, LenProperties DEF TypeOK, Datagrams, NoAnswer

(* Bounded stays where nothing but faults and the status has grown.        *)
LEMMA BoundedStays ==
  ASSUME TypeOK, Bounded,
         faults' = faults \/ faults' = faults + 1,
         status' = status \/ (status' = status + 1 /\ status' <= MaxChanges + faults'),
         BagToSet(answers') \subseteq BagToSet(answers),
         UNCHANGED <<copies, asked, answer>>,
         pc' \in {"perform", "respond"} => hand' \in Requests
  PROVE  Bounded'
<1>1. /\ status \in Int /\ faults \in Int /\ Copies \in Int /\ MaxChanges \in Int
      /\ \A m \in BagToSet(answers) : m.status \in Int
      /\ \A r \in Requests : copies[r] \in Int /\ asked[r] \in Int /\ answer[r] \in Int
  BY TypeFacts, ConstantsType
<1>2. status' <= MaxChanges + faults'
  BY <1>1 DEF Bounded
<1>3. \A m \in BagToSet(answers') : m.status <= status'
  BY <1>1 DEF Bounded
<1>4. \A r \in Requests : copies'[r] <= Copies + faults'
  BY <1>1 DEF Bounded
<1>5. \A r \in Requests : asked'[r] <= status' /\ answer'[r] <= status'
  BY <1>1 DEF Bounded
<1> QED
  BY <1>2, <1>3, <1>4, <1>5 DEF Bounded

(* A step keeps changes and copies within their bounds.                    *)
LEMMA BoundedStep ==
  ASSUME TypeOK, Bounded, [Next]_vars
  PROVE  Bounded'
<1> USE DEF device, toServer, network, server
<1>0. /\ MaxChanges \in Nat /\ Copies \in Nat /\ status \in Nat /\ faults \in Nat
      /\ DOMAIN copies = Requests /\ DOMAIN asked = Requests
      /\ toDevice \subseteq Datagrams /\ IsABag(answers)
      /\ \A m \in BagToSet(answers) : m.req \in Requests /\ m.status \in Int
      /\ \A r \in Requests : copies[r] \in Int /\ asked[r] \in Int /\ answer[r] \in Int
      /\ \A kind : Fault(kind) => faults' = faults + 1
      /\ pc \in {"perform", "respond"} => hand \in Requests
      /\ status <= MaxChanges + faults
  BY TypeFacts, FaultsType, ConstantsType DEF Bounded
<1>1. CASE FirstKeepalive \/ KeepaliveIfNeeded
  <2>1. SendKeepalive \/ UNCHANGED <<keepalives, faults>>
    BY <1>1 DEF FirstKeepalive, KeepaliveIfNeeded
  <2>2. faults' = faults \/ faults' = faults + 1
    BY <2>1, SendKeepaliveType
  <2> QED
    BY <1>1, <2>2, BoundedStays DEF FirstKeepalive, KeepaliveIfNeeded
<1>2. CASE Receive
  <2>1. inbox # << >> => Head(inbox) \in Datagrams
    BY TypeFacts, InboxTake
  <2>2. pc' \in {"perform", "respond"} => hand' \in Requests
    BY <1>2, <2>1, DatagramKinds DEF Receive
  <2> QED
    BY <1>2, <2>2, BoundedStays DEF Receive
<1>3. CASE PerformAction
  <2>1. status' = status \/ (status' = status + 1 /\ status < MaxChanges)
    BY <1>3, ChangeStatusType DEF PerformAction
  <2>2. status' = status \/ (status' = status + 1 /\ status' <= MaxChanges + faults')
    BY <1>0, <1>3, <2>1 DEF PerformAction
  <2> QED
    BY <1>0, <1>3, <2>2, BoundedStays DEF PerformAction
<1>4. CASE Respond
  <2>1. /\ hand \in Requests /\ SendAnswer(Success(hand, Payload(hand)))
        /\ UNCHANGED <<status, copies, asked, answer>> /\ pc' = "loop"
    BY <1>0, <1>4 DEF Respond
  <2>2. Success(hand, Payload(hand)).status <= status
    BY <1>0 DEF Success, Payload
  <2>3. /\ BagToSet(answers') \subseteq BagToSet(answers) \cup {Success(hand, Payload(hand))}
        /\ faults' = faults \/ faults' = faults + 1
    BY <2>1, SendAnswerType
  <2>4. \A m \in BagToSet(answers') : m.status <= status'
    BY <2>1, <2>2, <2>3 DEF Bounded
  <2>5. /\ status' <= MaxChanges + faults'
        /\ \A r \in Requests : copies'[r] <= Copies + faults'
    BY <1>0, <2>1, <2>3 DEF Bounded
  <2> QED
    BY <2>1, <2>4, <2>5 DEF Bounded
<1>5. CASE LoopDriver
  <2>1. status' = status \/ (status' = status + 1 /\ status < MaxChanges)
    BY <1>5, ChangeStatusType DEF LoopDriver
  <2>2. status' = status \/ (status' = status + 1 /\ status' <= MaxChanges + faults')
    BY <1>0, <1>5, <2>1 DEF LoopDriver
  <2> QED
    BY <1>5, <2>2, BoundedStays DEF LoopDriver
<1>6. CASE Crash
  <2>1. faults' = faults + 1 /\ status' = status + 1
    BY <1>0, <1>6 DEF Crash
  <2>2. status' <= MaxChanges + faults'
    BY <1>0, <2>1
  <2> QED
    BY <1>6, <2>1, <2>2, BoundedStays DEF Crash
<1>7. ASSUME NEW r \in Requests, Ask(r) PROVE Bounded'
  <2>1. \A q \in Requests : q # r => copies'[q] = copies[q] /\ asked'[q] = asked[q]
    BY <1>0, <1>7 DEF Ask
  <2>2. copies'[r] = copies[r] + 1 /\ copies[r] < Copies /\ faults' = faults
    BY <1>0, <1>7 DEF Ask
  <2>3. asked'[r] = asked[r] \/ asked'[r] = status
    BY <1>0, <1>7 DEF Ask
  <2>4. \A q \in Requests : copies'[q] <= Copies + faults'
    BY <1>0, <2>1, <2>2 DEF Bounded
  <2>5. \A q \in Requests : asked'[q] <= status
    BY <1>0, <2>1, <2>3 DEF Bounded
  <2> QED
    BY <1>0, <1>7, <2>4, <2>5 DEF Ask, Bounded
<1>8. ASSUME NEW m \in keepalives, HearKeepalive(m) PROVE Bounded'
  BY <1>0, <1>8, BoundedStays DEF HearKeepalive
<1>9. ASSUME NEW m \in BagToSet(answers), HearAnswer(m) PROVE Bounded'
  <2>1. BagToSet(answers') \subseteq BagToSet(answers)
    BY <1>0, <1>9, BagTake DEF HearAnswer
  <2>2. \A q \in Requests : answer'[q] \in {answer[q], m.status}
    BY <1>9 DEF HearAnswer, TypeOK
  <2>3. \A q \in Requests : answer'[q] <= status
    BY <2>2 DEF Bounded
  <2> QED
    BY <1>0, <1>9, <2>1, <2>3 DEF HearAnswer, Bounded
<1>10. ASSUME NEW m \in toDevice, Deliver(m) \/ Damage(m) PROVE Bounded'
  BY <1>0, <1>10, BoundedStays DEF Deliver, Damage
<1>11. ASSUME NEW m \in toDevice, Duplicate(m) PROVE Bounded'
  <2>1. faults' = faults + 1
    BY <1>0, <1>11 DEF Duplicate
  <2>2. \A q \in Requests : copies'[q] = copies[q] \/ copies'[q] = copies[q] + 1
    BY <1>0, <1>11 DEF Duplicate
  <2>3. \A q \in Requests : copies'[q] <= Copies + faults'
    BY <1>0, <2>1, <2>2 DEF Bounded
  <2>4. status' <= MaxChanges + faults' /\ status' = status
    BY <1>0, <1>11, <2>1 DEF Bounded, Duplicate
  <2> QED
    BY <1>0, <1>11, <2>3, <2>4 DEF Duplicate, Bounded
<1>12. CASE Lose
  <2>1. BagToSet(answers') \subseteq BagToSet(answers)
    BY <1>0, <1>12, BagTake DEF Lose
  <2> QED
    BY <1>0, <1>12, <2>1, BoundedStays DEF Lose
<1>13. CASE Tick \/ UNCHANGED vars
  BY <1>0, <1>13, BoundedStays DEF Tick, vars
<1> QED
  BY <1>1, <1>2, <1>3, <1>4, <1>5, <1>6, <1>7, <1>8, <1>9, <1>10, <1>11, <1>12,
     <1>13 DEF Next, Device, ServerStep, Network

(* A datagram that may age stays one.                                      *)
LEMMA OlderErrorType ==
  ASSUME NEW m \in Datagrams, m.what = "error" => m.age < MaxLife
  PROVE  /\ OlderError(m) \in Datagrams
         /\ m \in ToDevice => OlderError(m) \in ToDevice
         /\ OlderError(m).what = m.what
         /\ m.what = "error" =>
              OlderError(m).time = m.time /\ OlderError(m).age = m.age + 1
<1>1. CASE m.what = "error"
  <2>1. /\ m.time \in Time /\ m.age \in 0..MaxLife /\ m = Error(m.time, m.age)
        /\ m.age + 1 \in 0..MaxLife
    BY <1>1, DatagramKinds, ConstantsType
  <2>2. OlderError(m) = Error(m.time, m.age + 1)
    BY <1>1, <2>1 DEF OlderError, Older, Error
  <2>3. Error(m.time, m.age + 1) \in ToDevice
    BY <2>1 DEF ToDevice
  <2> QED
    BY <1>1, <2>2, <2>3 DEF Datagrams, Error
<1>2. CASE m.what # "error"
  BY <1>2 DEF OlderError
<1> QED
  BY <1>1, <1>2

(* A keepalive that is not at the end of its life is one when it is older. *)
LEMMA OlderType ==
  ASSUME NEW m \in Keepalives, m.age < MaxLife
  PROVE  Older(m) \in Keepalives
<1>1. PICK t \in Time, a \in 0..MaxLife : m = Keepalive(t, a)
  BY DEF Keepalives
<1>2. a + 1 \in 0..MaxLife /\ Older(m) = Keepalive(t, a + 1)
  BY <1>1, ConstantsType DEF Older, Keepalive
<1> QED
  BY <1>2 DEF Keepalives

(* A step keeps the types.                                                 *)
LEMMA TypeStep ==
  ASSUME TypeOK, Bounded, [Next]_vars, \A r \in Requests : Accounted(r)'
  PROVE  TypeOK'
<1> USE DEF device, toServer, network, server, NoAnswer, NotStarted
<1>0. /\ Copies \in Nat /\ InboxSize \in Nat /\ MaxChanges \in Nat
      /\ KeepaliveTicks \in Nat /\ MaxLife \in Nat /\ FaultBudget \in Nat
  BY ConstantsType
<1>1. \A kind : Fault(kind) => /\ faults' \in 0..FaultBudget /\ faults' = faults + 1
                               /\ faults + 1 <= FaultBudget
  BY <1>0, FaultsType DEF TypeOK, Fault
<1>2. CASE FirstKeepalive \/ KeepaliveIfNeeded
  <2>1. SendKeepalive \/ UNCHANGED <<keepalives, faults>>
    BY <1>2 DEF FirstKeepalive, KeepaliveIfNeeded
  <2>2. keepalives' \subseteq Keepalives /\ faults' \in 0..FaultBudget
    BY <2>1, SendKeepaliveType DEF TypeOK
  <2>3. sinceLast' \in NotStarted..(KeepaliveTicks + 1)
    BY <1>0, <1>2 DEF FirstKeepalive, KeepaliveIfNeeded, TypeOK
  <2>4. CASE FirstKeepalive
    BY <1>0, <2>2, <2>3, <2>4 DEF FirstKeepalive, TypeOK
  <2>5. CASE KeepaliveIfNeeded
    BY <1>0, <2>2, <2>3, <2>5 DEF KeepaliveIfNeeded, TypeOK
  <2> QED
    BY <1>2, <2>4, <2>5
<1>4. CASE Respond
  <2>1. SendAnswer(Success(hand, Payload(hand))) /\ hand \in Requests
    BY <1>4 DEF Respond, Bounded
  <2>2. Success(hand, Payload(hand)) \in Successes
    <3>1. Payload(hand) \in 0..(MaxChanges + FaultBudget)
      BY <1>0 DEF Payload, TypeOK
    <3> QED
      BY <2>1, <3>1 DEF Successes
  <2>3. /\ IsABag(answers') /\ BagToSet(answers') \subseteq Successes
        /\ faults' \in 0..FaultBudget
    BY <2>1, <2>2, SendAnswerType DEF TypeOK
  <2> QED
    BY <1>0, <1>4, <2>3 DEF Respond, TypeOK
<1>5. CASE LoopDriver
  <2>1. status' \in 0..(MaxChanges + FaultBudget)
    BY <1>5, ChangeStatusType DEF LoopDriver
  <2> QED
    BY <1>5, <2>1 DEF LoopDriver, TypeOK
<1>6. CASE Receive
  <2>1. CASE inbox = << >>
    BY <1>6, <2>1 DEF Receive, TypeOK
  <2>2. CASE inbox # << >>
    <3>1. /\ inbox' \in Seq(Datagrams) /\ Len(inbox') <= InboxSize
          /\ Head(inbox) \in Datagrams
      <4>1. inbox' = Tail(inbox)
        BY <1>6, <2>2 DEF Receive
      <4> QED
        BY <1>0, <2>2, <4>1, InboxTake, TypeFacts
    <3>2. offset' \in Time
      BY <1>6, <2>2, <3>1, DatagramKinds, TimesType DEF Receive, TypeOK
    <3>3. hand' \in Requests \cup {NoRequest} /\ pc' \in {"perform", "respond", "loop"}
      BY <1>6, <2>2, <3>1, DatagramKinds DEF Receive, Handler, TypeOK
    <3> QED
      BY <1>6, <2>2, <3>1, <3>2, <3>3 DEF Receive, Datagrams, TypeOK
  <2> QED
    BY <2>1, <2>2
<1>7. CASE PerformAction
  <2>1. status' \in 0..(MaxChanges + FaultBudget)
    BY <1>7, ChangeStatusType DEF PerformAction, TypeOK
  <2>2. CASE Kind[hand] = "run"
    <3>1. /\ hand \in Requests /\ UNCHANGED <<copies, inbox>>
          /\ executed' = [executed EXCEPT ![hand] = @ + 1]
      BY <1>7, <2>2 DEF PerformAction, Bounded
    <3>2. PICK h \in Requests : h = hand
      BY <3>1
    <3>3. executed[h] \in Nat /\ executed'[h] = executed[h] + 1
      BY <1>0, <3>1, <3>2 DEF TypeOK
    <3>4. Waiting(h)' \in Nat /\ Flying(h)' \in Nat /\ Held(h)' \in Nat
      BY <3>1, TypeFacts, PlacesFinite DEF Waiting, Flying, Held
    <3>5. copies[h] \in 0..(Copies + FaultBudget)
      BY DEF TypeOK
    <3>6. executed[h] + 1 + Waiting(h)' + Flying(h)' + Held(h)' <= copies[h]
      BY <3>1, <3>3 DEF Accounted
    <3>7. executed[h] + 1 \in 0..(Copies + FaultBudget)
      BY <1>0, <3>3, <3>4, <3>5, <3>6
    <3>8. executed' \in [Requests -> 0..(Copies + FaultBudget)]
      BY <3>1, <3>2, <3>7 DEF TypeOK
    <3> QED
      BY <1>7, <2>1, <3>8 DEF PerformAction, TypeOK
  <2>3. CASE Kind[hand] # "run"
    BY <1>7, <2>3 DEF PerformAction, TypeOK
  <2> QED
    BY <2>2, <2>3
<1>8. CASE Crash
  <2>1. << >> \in Seq(ToDevice \cup {Noise}) /\ Len(<< >>) = 0 /\ 0 \in Time
    BY EmptySeq, LenProperties, ConstantsType DEF Time
  <2>2. /\ faults' \in 0..FaultBudget /\ status' = status + 1
        /\ status <= MaxChanges + faults /\ faults + 1 <= FaultBudget
    BY <1>1, <1>8 DEF Crash, Bounded
  <2>3. status' \in 0..(MaxChanges + FaultBudget)
    BY <1>0, <2>2, TypeFacts
  <2>4. sinceLast' \in NotStarted..(KeepaliveTicks + 1)
    BY <1>0, <1>8 DEF Crash
  <2>5. inbox' \in Seq(ToDevice \cup {Noise}) /\ Len(inbox') <= InboxSize
    BY <1>0, <1>8, <2>1 DEF Crash
  <2>6. /\ pc' = "first" /\ hand' = NoRequest /\ offset' \in Time
        /\ toDevice' = {} /\ keepalives' = {} /\ known' = FALSE
        /\ UNCHANGED <<answers, copies, asked, answer, clock, executed>>
        /\ faults' \in 0..FaultBudget
    BY <1>1, <1>8, <2>1 DEF Crash
  <2> QED
    BY <2>3, <2>4, <2>5, <2>6 DEF TypeOK
<1>9. ASSUME NEW r \in Requests, Ask(r) PROVE TypeOK'
  <2>1. toDevice' \subseteq ToDevice
    <3>1. Request(r) \in ToDevice
      BY DEF ToDevice
    <3> QED
      BY <1>9, <3>1 DEF Ask, TypeOK
  <2> QED
    BY <1>0, <1>9, <2>1 DEF Ask, TypeOK
<1>10. ASSUME NEW m \in keepalives, HearKeepalive(m) PROVE TypeOK'
  <2>1. Error(ServerTime, 0) \in ToDevice
    <3>1. ServerTime \in Time /\ 0 \in 0..MaxLife
      BY <1>0, TimesType
    <3> QED
      BY <3>1 DEF ToDevice
  <2> QED
    BY <1>10, <2>1 DEF HearKeepalive, TypeOK
<1>11. ASSUME NEW m \in BagToSet(answers), HearAnswer(m) PROVE TypeOK'
  <2>1. IsABag(answers') /\ BagToSet(answers') \subseteq BagToSet(answers)
    BY <1>11, BagTake, TypeFacts DEF HearAnswer
  <2>2. m.req \in Requests /\ m.status \in 0..(MaxChanges + FaultBudget)
    BY SuccessesType DEF TypeOK
  <2> QED
    BY <1>0, <1>11, <2>1, <2>2 DEF HearAnswer, TypeOK
<1>12. ASSUME NEW m \in toDevice, Deliver(m) \/ Damage(m) \/ Duplicate(m)
       PROVE  TypeOK'
  <2>1. PICK n \in Datagrams : inbox' = Append(inbox, n)
    BY <1>12, TypeFacts DEF Deliver, Damage, Duplicate, Datagrams
  <2>2. inbox' \in Seq(Datagrams) /\ Len(inbox') <= InboxSize
    <3>1. Len(inbox) < InboxSize
      BY <1>12 DEF Deliver, Damage, Duplicate
    <3> QED
      BY <1>0, <2>1, <3>1, InboxPut, TypeFacts
  <2>3. CASE Deliver(m)
    BY <2>2, <2>3 DEF Deliver, Datagrams, TypeOK
  <2>4. CASE Damage(m)
    BY <1>1, <2>2, <2>4 DEF Damage, Datagrams, TypeOK
  <2>5. CASE Duplicate(m)
    <3>1. faults + 1 <= FaultBudget /\ faults' \in 0..FaultBudget
      BY <1>1, <2>5 DEF Duplicate
    <3>2. \A q \in Requests : copies[q] + 1 \in 0..(Copies + FaultBudget)
      BY <1>0, <3>1 DEF Bounded, TypeOK
    <3>3. copies' \in [Requests -> 0..(Copies + FaultBudget)]
      BY <2>5, <3>2 DEF Duplicate, TypeOK
    <3> QED
      BY <2>2, <2>5, <3>1, <3>3 DEF Duplicate, Datagrams, TypeOK
  <2> QED
    BY <1>12, <2>3, <2>4, <2>5
<1>15. CASE Lose
  <2>1. /\ toDevice' \subseteq toDevice /\ keepalives' \subseteq keepalives
        /\ IsABag(answers') /\ BagToSet(answers') \subseteq BagToSet(answers)
    BY <1>15, BagTake, TypeFacts DEF Lose
  <2> QED
    BY <1>0, <1>1, <1>15, <2>1 DEF Lose, TypeOK
<1>16. CASE Tick
  <2>1. /\ \A m \in toDevice : m.what = "error" => m.age < MaxLife
        /\ \A i \in DOMAIN inbox : inbox[i].what = "error" => inbox[i].age < MaxLife
        /\ \A m \in keepalives : m.age < MaxLife
    BY <1>16 DEF Tick, ToSet
  <2>2. toDevice' \subseteq ToDevice
    BY <1>16, <2>1, TypeFacts, OlderErrorType DEF Tick, TypeOK
  <2>3. keepalives' \subseteq Keepalives
    BY <1>16, <2>1, OlderType DEF Tick, TypeOK
  <2>4. inbox' \in Seq(Datagrams) /\ Len(inbox') <= InboxSize
    <3>1. /\ DOMAIN inbox = 1..Len(inbox) /\ Len(inbox) \in Nat /\ Len(inbox) <= InboxSize
          /\ \A i \in DOMAIN inbox : inbox[i] \in Datagrams
      BY TypeFacts, LenProperties, ElementOfSeq
    <3>2. \A i \in DOMAIN inbox : OlderError(inbox[i]) \in Datagrams
      BY <2>1, <3>1, OlderErrorType
    <3>3. inbox' = [i \in 1..Len(inbox) |-> OlderError(inbox[i])]
      BY <1>16, <3>1 DEF Tick
    <3>4. inbox' \in Seq(Datagrams)
      BY <3>1, <3>2, <3>3, IsASeq
    <3>5. Len(inbox') = Len(inbox)
      BY <3>1, <3>3, <3>4, LenProperties
    <3> QED
      BY <3>1, <3>4, <3>5
  <2>5. sinceLast' \in NotStarted..(KeepaliveTicks + 1)
    BY <1>0, <1>16 DEF Tick, TypeOK
  <2>6. clock' \in Time
    BY <1>16, TimesType DEF Tick
  <2>7. UNCHANGED <<pc, hand, offset, status, answers, known, copies, asked,
                    answer, executed, faults>>
    BY <1>16 DEF Tick
  <2> QED
    BY <2>2, <2>3, <2>4, <2>5, <2>6, <2>7 DEF Datagrams, TypeOK
<1>17. CASE UNCHANGED vars
  BY <1>17 DEF vars, TypeOK
<1> QED
  BY <1>2, <1>4, <1>5, <1>6, <1>7, <1>8, <1>9, <1>10, <1>11, <1>12, <1>15,
     <1>16, <1>17
     DEF Next, Device, ServerStep, Network

-----------------------------------------------------------------------------
(* Requests and their answers                                              *)

(* What only grows, and what is fixed once a request was sent.             *)
LEMMA Growth ==
  ASSUME TypeOK, [Next]_vars, NEW r \in Requests
  PROVE  /\ status' = status \/ status' = status + 1
         /\ executed'[r] = executed[r] \/ executed'[r] = executed[r] + 1
         /\ copies'[r] = copies[r] \/ copies'[r] = copies[r] + 1
         /\ copies[r] > 0 => asked'[r] = asked[r]
<1> USE DEF device, toServer, network, server
<1>0. DOMAIN copies = Requests /\ DOMAIN asked = Requests /\ DOMAIN executed = Requests
  BY TypeFacts
<1>1. CASE Device
  BY <1>0, <1>1
     DEF Device, FirstKeepalive, KeepaliveIfNeeded, Receive, PerformAction,
         Respond, LoopDriver, ChangeStatus
<1>2. CASE Crash \/ Lose \/ Tick \/ UNCHANGED vars
  BY <1>0, <1>2 DEF Crash, Lose, Tick, vars
<1>3. CASE ServerStep
  <2>1. ASSUME NEW q \in Requests, Ask(q)
        PROVE  copies[r] > 0 => asked'[r] = asked[r]
    <3>1. CASE q = r
      <4>1. asked'[r] = IF copies[r] = 0 THEN status ELSE asked[r]
        BY <1>0, <2>1, <3>1 DEF Ask
      <4> QED
        BY <4>1, TypeFacts
    <3>2. CASE q # r
      BY <1>0, <2>1, <3>2 DEF Ask
    <3> QED
      BY <3>1, <3>2
  <2> QED
    BY <1>0, <1>3, <2>1 DEF ServerStep, Ask, HearKeepalive, HearAnswer
<1>4. ASSUME NEW m \in toDevice, Deliver(m) \/ Damage(m) \/ Duplicate(m)
      PROVE  /\ UNCHANGED <<status, executed, asked>>
             /\ copies'[r] = copies[r] \/ copies'[r] = copies[r] + 1
  BY <1>0, <1>4 DEF Deliver, Damage, Duplicate
<1> QED
  BY <1>1, <1>2, <1>3, <1>4 DEF Next, Network

(* What is present after a step was so before, or has just been sent.      *)
LEMMA PresentStep ==
  ASSUME TypeOK, Bounded, PresentWasSent, [Next]_vars
  PROVE  PresentWasSent'
<1> USE DEF device, toServer, network, server
<1>0. SUFFICES ASSUME NEW r \in Requests, Present(r)'
               PROVE  Present(r) \/ copies'[r] > 0
  BY Growth, TypeFacts DEF PresentWasSent
<1>1. ASSUME UNCHANGED <<toDevice, inbox, answers, answer>>,
             pc' \notin {"perform", "respond"} \/ (pc \in {"perform", "respond"} /\ hand' = hand)
      PROVE  Present(r)
  BY <1>0, <1>1 DEF Present, AnswerUnderway, Answered
<1>2. CASE FirstKeepalive \/ KeepaliveIfNeeded \/ PerformAction \/ LoopDriver
  BY <1>1, <1>2 DEF FirstKeepalive, KeepaliveIfNeeded, PerformAction, LoopDriver
<1>3. CASE Receive
  <2>1. CASE inbox = << >>
    BY <1>1, <1>3, <2>1 DEF Receive
  <2>2. CASE inbox # << >>
    <3>1. /\ inbox' = Tail(inbox)
          /\ ToSet(inbox') \subseteq ToSet(inbox)
          /\ Head(inbox) \in ToSet(inbox) /\ Head(inbox) \in Datagrams
      BY <1>3, <2>2, InboxTake, TypeFacts DEF Receive
    <3>2. /\ UNCHANGED <<toDevice, answers, answer>>
          /\ pc' \in {"perform", "respond"} =>
               Head(inbox).what = "request" /\ hand' = Head(inbox).req
      BY <1>3, <2>2 DEF Receive
    <3>3. pc' \in {"perform", "respond"} => Head(inbox) = Request(hand')
      BY <3>1, <3>2, DatagramKinds
    <3> QED
      BY <1>0, <3>1, <3>2, <3>3 DEF Present, AnswerUnderway, Answered
  <2> QED
    BY <2>1, <2>2
<1>4. CASE Respond
  <2>1. /\ SendAnswer(Success(hand, Payload(hand)))
        /\ pc = "respond" /\ pc' = "loop" /\ UNCHANGED <<toDevice, inbox, answer>>
    BY <1>4 DEF Respond
  <2>2. BagToSet(answers') \subseteq BagToSet(answers) \cup {Success(hand, Payload(hand))}
    BY <2>1, SendAnswerType
  <2>3. Success(hand, Payload(hand)).req = hand
    BY DEF Success
  <2> QED
    BY <1>0, <2>1, <2>2, <2>3 DEF Present, AnswerUnderway, Answered
<1>5. CASE Crash
  <2>1. ToSet(<< >>) = {}
    BY DEF ToSet
  <2> QED
    BY <1>0, <1>5, <2>1 DEF Crash, Present, AnswerUnderway, Answered
<1>6. ASSUME NEW q \in Requests, Ask(q) PROVE Present(r) \/ copies'[r] > 0
  <2>1. CASE q = r
    <3>1. copies'[r] = copies[r] + 1 /\ copies[r] \in Nat
      BY <1>6, <2>1, TypeFacts, ConstantsType DEF Ask, TypeOK
    <3> QED
      BY <3>1
  <2>2. CASE q # r
    BY <1>0, <1>6, <2>2 DEF Ask, Present, AnswerUnderway, Answered, Request
  <2> QED
    BY <2>1, <2>2
<1>7. ASSUME NEW m \in keepalives, HearKeepalive(m) PROVE Present(r)
  BY <1>0, <1>7 DEF HearKeepalive, Present, AnswerUnderway, Answered, Request, Error
<1>8. ASSUME NEW m \in BagToSet(answers), HearAnswer(m) PROVE Present(r)
  <2>1. BagToSet(answers') \subseteq BagToSet(answers)
    BY <1>8, BagTake, TypeFacts DEF HearAnswer
  <2>2. r # m.req => answer'[r] = answer[r]
    BY <1>8, TypeFacts DEF HearAnswer
  <2> QED
    BY <1>0, <1>8, <2>1, <2>2 DEF HearAnswer, Present, AnswerUnderway, Answered
<1>9. ASSUME NEW m \in toDevice, Deliver(m) \/ Damage(m) \/ Duplicate(m)
      PROVE  Present(r)
  <2>1. PICK n \in {m, Noise} : inbox' = Append(inbox, n)
    BY <1>9 DEF Deliver, Damage, Duplicate
  <2>2. m \in Datagrams /\ Noise \in Datagrams /\ Noise # Request(r)
    BY TypeFacts DEF Datagrams, Noise, Request
  <2>3. ToSet(inbox') = ToSet(inbox) \cup {n}
    BY <2>1, <2>2, InboxPut, TypeFacts
  <2> QED
    BY <1>0, <1>9, <2>1, <2>2, <2>3
       DEF Deliver, Damage, Duplicate, Present, AnswerUnderway, Answered
<1>10. CASE Lose
  <2>1. BagToSet(answers') \subseteq BagToSet(answers)
    BY <1>10, BagTake, TypeFacts DEF Lose
  <2> QED
    BY <1>0, <1>10, <2>1 DEF Lose, Present, AnswerUnderway, Answered
<1>11. CASE Tick
  <2>1. \A i \in DOMAIN inbox : inbox[i] \in Datagrams
    BY TypeFacts, ElementOfSeq, LenProperties
  <2>2. /\ Request(r) \in toDevice' => Request(r) \in toDevice
        /\ Request(r) \in ToSet(inbox') => Request(r) \in ToSet(inbox)
    BY <1>11, <2>1, TypeFacts, OlderErrorKeeps DEF Tick, ToSet
  <2> QED
    BY <1>0, <1>11, <2>2 DEF Tick, Present, AnswerUnderway, Answered
<1>12. CASE UNCHANGED vars
  BY <1>1, <1>12 DEF vars
<1> QED
  BY <1>2, <1>3, <1>4, <1>5, <1>6, <1>7, <1>8, <1>9, <1>10, <1>11, <1>12
     DEF Next, Device, ServerStep, Network

(* An answer that was due stays so: calls are not undone, the status does  *)
(* not go back, and the question was asked once.                           *)
LEMMA DueStays ==
  ASSUME TypeOK, [Next]_vars, NEW r \in Requests, NEW s \in Int, Due(r, s),
         copies[r] > 0
  PROVE  Due(r, s)'
<1>1. /\ executed[r] \in Int /\ status \in Int /\ asked[r] \in Int
  BY TypeFacts
<1>2. Kind[r] = "run" => executed'[r] >= 1
  BY <1>1, Growth DEF Due
<1>3. Kind[r] = "status" => asked'[r] <= s /\ s <= status'
  BY <1>1, Growth DEF Due
<1> QED
  BY <1>2, <1>3 DEF Due

(* A step answers only what was executed, with a status not older than the *)
(* question.                                                               *)
LEMMA DueStep ==
  ASSUME TypeOK, Bounded, PresentWasSent, AnswersAreDue, [Next]_vars
  PROVE  AnswersAreDue'
<1> USE DEF device, toServer, network, server
<1>1. \A m \in BagToSet(answers) : Due(m.req, m.status)'
  <2> SUFFICES ASSUME NEW m \in BagToSet(answers) PROVE Due(m.req, m.status)'
    OBVIOUS
  <2>1. m.req \in Requests /\ m.status \in Int /\ Due(m.req, m.status)
    BY TypeFacts DEF AnswersAreDue
  <2>2. copies[m.req] > 0
    BY <2>1 DEF PresentWasSent, Present, AnswerUnderway
  <2> QED
    BY <2>1, <2>2, DueStays
<1>2. \A r \in Requests : Answered(r) => Due(r, answer[r])
                          /\ \A s : s = answer[r] => Due(r, s)'
  <2> SUFFICES ASSUME NEW r \in Requests, Answered(r), NEW s, s = answer[r]
               PROVE  Due(r, s) /\ Due(r, s)'
    BY DEF AnswersAreDue
  <2>1. s \in Int /\ Due(r, s) /\ copies[r] > 0
    BY TypeFacts DEF AnswersAreDue, PresentWasSent, Present
  <2> QED
    BY <2>1, DueStays
<1>3. \A m \in BagToSet(answers') : Due(m.req, m.status)'
  <2>1. CASE Respond
    <3>0. PICK h \in Requests : h = hand
      BY <2>1 DEF Respond, Bounded
    <3>00. PICK p : p = Payload(hand)
      OBVIOUS
    <3>1. h = hand /\ p = Payload(hand)
      BY <3>0, <3>00
    <3>2. SendAnswer(Success(h, p)) /\ UNCHANGED <<executed, asked, status>>
      BY <2>1, <3>1 DEF Respond
    <3>3. BagToSet(answers') \subseteq BagToSet(answers) \cup {Success(h, p)}
      BY <3>2, SendAnswerType
    <3>4. Kind[h] = "run" => executed[h] >= 1
      BY <2>1, <3>1 DEF Respond, AnswersAreDue
    <3>5. asked[h] <= status /\ status <= status
      BY TypeFacts DEF Bounded
    <3>6. Due(h, p)'
      BY <3>1, <3>2, <3>4, <3>5 DEF Payload, Due
    <3>7. Success(h, p).req = h /\ Success(h, p).status = p
      BY DEF Success
    <3> QED
      BY <1>1, <3>3, <3>6, <3>7
  <2>2. CASE ~Respond
    <3>1. BagToSet(answers') \subseteq BagToSet(answers)
      BY <2>2, BagTake, TypeFacts
         DEF Next, Device, ServerStep, Network, FirstKeepalive, KeepaliveIfNeeded,
             Receive, PerformAction, LoopDriver, Crash, Ask, HearKeepalive, HearAnswer,
             Deliver, Damage, Duplicate, Lose, Tick, vars
    <3> QED
      BY <1>1, <3>1
  <2> QED
    BY <2>1, <2>2
<1>4. \A r \in Requests : Answered(r)' => \A s : s = answer'[r] => Due(r, s)'
  <2> SUFFICES ASSUME NEW r \in Requests, Answered(r)', NEW s, s = answer'[r]
               PROVE  Due(r, s)'
    OBVIOUS
  <2>1. CASE answer'[r] = answer[r]
    BY <1>2, <2>1 DEF Answered
  <2>2. ASSUME NEW m \in BagToSet(answers), HearAnswer(m), answer'[r] # answer[r]
        PROVE  Due(r, s)'
    <3>1. m.req = r /\ answer'[r] = m.status
      BY <2>2, TypeFacts DEF HearAnswer
    <3> QED
      BY <1>1, <3>1
  <2>3. answer' = answer \/ \E m \in BagToSet(answers) : HearAnswer(m)
    BY DEF Next, Device, ServerStep, Network, FirstKeepalive, KeepaliveIfNeeded,
           Receive, PerformAction, Respond, LoopDriver, Crash, Ask, HearKeepalive,
           Deliver, Damage, Duplicate, Lose, Tick, vars
  <2> QED
    BY <2>1, <2>2, <2>3
<1>5. (pc = "respond" /\ Kind[hand] = "run" => executed[hand] >= 1)'
  <2> SUFFICES ASSUME pc' = "respond", Kind[hand'] = "run"
               PROVE  executed'[hand'] >= 1
    OBVIOUS
  <2>1. CASE PerformAction
    <3>1. PICK h \in Requests : h = hand
      BY <2>1 DEF PerformAction, Bounded
    <3>2. executed'[h] = executed[h] + 1 /\ executed[h] \in Nat /\ hand' = h
      BY <2>1, <3>1, TypeFacts, ConstantsType DEF PerformAction, TypeOK
    <3> QED
      BY <3>2
  <2>2. CASE Receive
    BY <2>2, DatagramKinds DEF Receive, Handler
  <2>3. CASE ~PerformAction /\ ~Receive
    <3>1. pc = "respond" /\ hand' = hand /\ executed' = executed
      BY <2>3
         DEF Next, Device, ServerStep, Network, FirstKeepalive, KeepaliveIfNeeded,
             Respond, LoopDriver, Crash, Ask, HearKeepalive, HearAnswer,
             Deliver, Damage, Duplicate, Lose, Tick, vars
    <3> QED
      BY <3>1 DEF AnswersAreDue
  <2> QED
    BY <2>1, <2>2, <2>3
<1> QED
  BY <1>3, <1>4, <1>5 DEF AnswersAreDue

-----------------------------------------------------------------------------
(* The clock                                                               *)

(* What a tick does to the time that has passed since t.                   *)
LEMMA LateByOneMore ==
  ASSUME TypeOK, clock' = (clock + 1) % TimeMod, NEW t \in Time
  PROVE  (ServerTime' - t) % TimeMod <= ((ServerTime - t) % TimeMod) + 1
<1>0. TimeMod \in Nat \ {0} /\ Skew \in Int /\ clock \in Int /\ t \in Int
  BY ConstantsType DEF TypeOK, Time
<1>1. /\ clock + Skew \in Int /\ clock + 1 \in Int /\ clock + 1 + Skew \in Int
      /\ (clock + Skew) - t \in Int
  BY <1>0
<1>2. (ServerTime - t) % TimeMod = ((clock + Skew) - t) % TimeMod
  BY <1>0, <1>1, ModMinus, Zenon DEF ServerTime
<1>3. (ServerTime' - t) % TimeMod = (((clock + Skew) - t) + 1) % TimeMod
  <2>1. ServerTime' = (((clock + 1) % TimeMod) + Skew) % TimeMod
    BY DEF ServerTime
  <2>2. ServerTime' = (clock + 1 + Skew) % TimeMod
    BY <1>0, <1>1, <2>1, ModAdd, Zenon
  <2>3. (((clock + 1 + Skew) % TimeMod) - t) % TimeMod = ((clock + 1 + Skew) - t) % TimeMod
    BY <1>0, <1>1, ModMinus, Zenon
  <2>4. (clock + 1 + Skew) - t = ((clock + Skew) - t) + 1
    BY <1>0
  <2> QED
    BY <2>2, <2>3, <2>4, Zenon
<1>4. (((clock + Skew) - t) + 1) % TimeMod <= (((clock + Skew) - t) % TimeMod) + 1
  BY <1>0, <1>1, ModSucc
<1> QED
  BY <1>2, <1>3, <1>4

(* An offset taken from an error makes the device as late as the error.    *)
LEMMA OffsetIsLate ==
  ASSUME TypeOK, NEW t \in Time
  PROVE  (Skew + NewOffset(t)) % TimeMod = (ServerTime - t) % TimeMod
<1>0. /\ TimeMod \in Nat \ {0} /\ Skew \in Int /\ clock \in Int /\ t \in Int
      /\ clock - t \in Int /\ clock + Skew \in Int
  BY ConstantsType DEF TypeOK, Time
<1>1. (((clock - t) % TimeMod) + Skew) % TimeMod = ((clock - t) + Skew) % TimeMod
  BY <1>0, ModAdd, Zenon
<1>2. (((clock + Skew) % TimeMod) - t) % TimeMod = ((clock + Skew) - t) % TimeMod
  BY <1>0, ModMinus, Zenon
<1>3. /\ (clock - t) + Skew = (clock + Skew) - t
      /\ Skew + NewOffset(t) = NewOffset(t) + Skew
  BY <1>0, TimesType DEF Time
<1> QED
  BY <1>1, <1>2, <1>3, Zenon DEF NewOffset, ServerTime

(* A step keeps errors recent, and the offset that the device takes from   *)
(* them.                                                                   *)
LEMMA ErrorsStep ==
  ASSUME TypeOK, ErrorsAreRecent, [Next]_vars
  PROVE  ErrorsAreRecent'
<1> USE DEF device, toServer, network, server
<1> DEFINE Recent(m) == m.what = "error" => (ServerTime - m.time) % TimeMod <= m.age
<1>1. \A m \in toDevice \cup ToSet(inbox) :
        clock' = clock => Recent(m)'
  BY DEF ErrorsAreRecent, ServerTime
<1>2. ASSUME clock' = clock,
             toDevice' \cup ToSet(inbox') \subseteq toDevice \cup ToSet(inbox) \cup {Noise}
      PROVE  \A m \in toDevice' \cup ToSet(inbox') : Recent(m)'
  BY <1>1, <1>2 DEF Noise
<1>3. ASSUME offset' \in {offset, 0}
      PROVE  offset' # 0 => (Skew + offset') % TimeMod <= MaxLife
  BY <1>3 DEF ErrorsAreRecent
<1>4. ASSUME ~Receive, ~Tick, ~(\E m \in keepalives : HearKeepalive(m)),
             ~(\E r \in Requests : Ask(r))
      PROVE  ErrorsAreRecent'
  <2>1. clock' = clock /\ offset' \in {offset, 0}
    BY <1>4
       DEF Next, Device, ServerStep, Network, FirstKeepalive, KeepaliveIfNeeded,
           PerformAction, Respond, LoopDriver, Crash, Ask, HearAnswer,
           Deliver, Damage, Duplicate, Lose, vars
  <2>2. CASE UNCHANGED inbox
    <3>1. toDevice' \subseteq toDevice
      BY <1>4, <2>2
         DEF Next, Device, ServerStep, Network, FirstKeepalive, KeepaliveIfNeeded,
             PerformAction, Respond, LoopDriver, Crash, Ask, HearAnswer,
             Deliver, Damage, Duplicate, Lose, vars
    <3> QED
      BY <1>2, <1>3, <2>1, <2>2, <3>1 DEF ErrorsAreRecent
  <2>3. CASE Crash
    <3>1. ToSet(inbox') = {} /\ toDevice' = {}
      BY <2>3 DEF Crash, ToSet
    <3> QED
      BY <1>2, <1>3, <2>1, <3>1 DEF ErrorsAreRecent
  <2>4. ASSUME NEW m \in toDevice, Deliver(m) \/ Damage(m) \/ Duplicate(m)
        PROVE  ErrorsAreRecent'
    <3>1. PICK n \in {m, Noise} : inbox' = Append(inbox, n)
      BY <2>4 DEF Deliver, Damage, Duplicate
    <3>2. n \in Datagrams /\ toDevice' \subseteq toDevice
      BY <2>4, TypeFacts DEF Datagrams, Deliver, Damage, Duplicate
    <3>3. ToSet(inbox') = ToSet(inbox) \cup {n}
      BY <3>1, <3>2, InboxPut, TypeFacts
    <3> QED
      BY <1>2, <1>3, <2>1, <3>2, <3>3 DEF ErrorsAreRecent
  <2> QED
    BY <1>4, <2>2, <2>3, <2>4
       DEF Next, Device, ServerStep, Network, FirstKeepalive, KeepaliveIfNeeded,
           PerformAction, Respond, LoopDriver, HearAnswer, Lose, vars
<1>5. CASE Receive
  <2>1. clock' = clock /\ toDevice' = toDevice
    BY <1>5 DEF Receive
  <2>2. CASE inbox = << >>
    BY <1>2, <1>3, <1>5, <2>1, <2>2 DEF Receive, ErrorsAreRecent
  <2>3. CASE inbox # << >>
    <3>1. /\ inbox' = Tail(inbox) /\ ToSet(inbox') \subseteq ToSet(inbox)
          /\ Head(inbox) \in ToSet(inbox) /\ Head(inbox) \in Datagrams
      BY <1>5, <2>3, InboxTake, TypeFacts DEF Receive
    <3>2. CASE Head(inbox).what = "error"
      <4>1. PICK t \in Time, a \in 0..MaxLife : Head(inbox) = Error(t, a)
        BY <3>1, <3>2, DatagramKinds
      <4>2. offset' = NewOffset(t)
        BY <1>5, <2>3, <4>1 DEF Receive, Error
      <4>3. (ServerTime - t) % TimeMod <= a
        BY <3>1, <4>1 DEF ErrorsAreRecent, Error
      <4>4. (Skew + NewOffset(t)) % TimeMod <= a
        BY <4>3, OffsetIsLate
      <4>5. (Skew + NewOffset(t)) % TimeMod \in Nat
        BY ConstantsType, TimesType, ModDef DEF Time
      <4>6. (Skew + NewOffset(t)) % TimeMod <= MaxLife
        BY <4>4, <4>5, ConstantsType
      <4> QED
        BY <1>2, <2>1, <3>1, <4>2, <4>6 DEF ErrorsAreRecent
    <3>3. CASE Head(inbox).what # "error"
      <4>1. offset' = offset
        BY <1>5, <2>3, <3>3 DEF Receive
      <4> QED
        BY <1>2, <1>3, <2>1, <3>1, <4>1 DEF ErrorsAreRecent
    <3> QED
      BY <3>2, <3>3
  <2> QED
    BY <2>2, <2>3
<1>6. CASE Tick
  <2>1. \A m \in Datagrams : Recent(m) => (OlderError(m).what = "error" =>
            (ServerTime' - OlderError(m).time) % TimeMod <= OlderError(m).age)
    <3> SUFFICES ASSUME NEW m \in Datagrams, Recent(m), OlderError(m).what = "error"
                 PROVE  (ServerTime' - OlderError(m).time) % TimeMod <= OlderError(m).age
      OBVIOUS
    <3>1. m.what = "error"
      BY DEF OlderError
    <3>2. PICK t \in Time, a \in 0..MaxLife : m = Error(t, a)
      BY <3>1, DatagramKinds
    <3>3. OlderError(m) = Error(t, a + 1)
      BY <3>2 DEF OlderError, Older, Error
    <3>4. (ServerTime - t) % TimeMod <= a
      BY <3>1, <3>2 DEF Error
    <3>5. (ServerTime' - t) % TimeMod <= ((ServerTime - t) % TimeMod) + 1
      BY <1>6, LateByOneMore DEF Tick
    <3>6. /\ (ServerTime - t) % TimeMod \in Int /\ (ServerTime' - t) % TimeMod \in Int
          /\ a \in Int
      <4>1. /\ ServerTime \in Int /\ t \in Int /\ a \in Int
            /\ TimeMod \in Nat \ {0}
        BY TimesType, ConstantsType DEF Time
      <4>2. ServerTime' \in Int
        <5>1. clock' + Skew \in Int
          BY <1>6, TimesType, ConstantsType DEF Tick, Time
        <5> QED
          BY <4>1, <5>1, ModDef DEF ServerTime
      <4>3. ServerTime - t \in Int /\ ServerTime' - t \in Int
        BY <4>1, <4>2
      <4> QED
        BY <4>1, <4>3, ModDef
    <3>7. (ServerTime' - t) % TimeMod <= a + 1
      BY <3>4, <3>5, <3>6
    <3> QED
      BY <3>3, <3>7 DEF Error
  <2>2. \A m \in toDevice' \cup ToSet(inbox') :
           \E n \in toDevice \cup ToSet(inbox) : n \in Datagrams /\ m = OlderError(n)
    <3>1. \A i \in DOMAIN inbox : inbox[i] \in Datagrams
      BY TypeFacts, ElementOfSeq, LenProperties
    <3> QED
      BY <1>6, <3>1, TypeFacts DEF Tick, ToSet
  <2> QED
    BY <1>3, <1>6, <2>1, <2>2 DEF Tick, ErrorsAreRecent
<1>7. ASSUME NEW m \in keepalives, HearKeepalive(m) PROVE ErrorsAreRecent'
  <2>1. Recent(Error(ServerTime, 0))
    <3>1. ServerTime - ServerTime = 0 /\ 0 % TimeMod = 0
      BY TimesType, ConstantsType, ModSmall DEF Time
    <3> QED
      BY <3>1 DEF Error
  <2> QED
    BY <1>1, <1>3, <1>7, <2>1 DEF HearKeepalive, ErrorsAreRecent, ServerTime
<1>8. ASSUME NEW r \in Requests, Ask(r) PROVE ErrorsAreRecent'
  <2>1. Request(r).what # "error"
    BY DEF Request
  <2> QED
    BY <1>1, <1>3, <1>8, <2>1 DEF Ask, ErrorsAreRecent
<1> QED
  BY <1>4, <1>5, <1>6, <1>7, <1>8

-----------------------------------------------------------------------------
(* The invariant, and what follows from it                                 *)

(* The invariant holds when the loop begins,                               *)
LEMMA LoopInvInit == Init => Inv
<1> SUFFICES ASSUME Init PROVE Inv
  OBVIOUS
<1> USE DEF Init, NoAnswer, NotStarted
<1>1. /\ << >> \in Seq(Datagrams) /\ Len(<< >>) = 0 /\ ToSet(<< >>) = {}
      /\ IsABag(EmptyBag) /\ BagToSet(EmptyBag) = {} /\ 0 \in Time
  BY EmptySeq, LenProperties, BagNone, ConstantsType DEF ToSet, Time
<1>2. TypeOK
  <2>1. /\ 0 \in 0..(MaxChanges + FaultBudget) /\ 0 \in 0..(Copies + FaultBudget)
        /\ 0 \in 0..FaultBudget /\ -1 \in -1..(KeepaliveTicks + 1)
        /\ 0 <= InboxSize
    BY ConstantsType
  <2> QED
    BY <1>1, <2>1 DEF TypeOK, Datagrams
<1>3. Bounded
  BY <1>1, ConstantsType DEF Bounded
<1>4. ExecutionsAccounted
  <2>1. \A r \in Requests : Waiting(r) = 0
    BY FS_EmptySet DEF Waiting, Places
  <2> QED
    BY <2>1, AccountedMeans DEF Accounted, Flying, Held
<1>5. PresentWasSent /\ AnswersAreDue
  BY <1>1 DEF PresentWasSent, Present, AnswerUnderway, Answered, AnswersAreDue
<1>6. ErrorsAreRecent
  BY <1>1 DEF ErrorsAreRecent
<1> QED
  BY <1>2, <1>3, <1>4, <1>5, <1>6 DEF Inv

(* every step keeps it,                                                    *)
LEMMA LoopInvNext == Inv /\ [Next]_vars => Inv'
<1> SUFFICES ASSUME Inv, [Next]_vars PROVE Inv'
  OBVIOUS
<1> USE DEF Inv
<1>1. \A r \in Requests : Accounted(r)'
  BY AccountedMeans, AccountedStep
<1>2. ExecutionsAccounted'
  BY <1>1 DEF ExecutionsAccounted, Accounted, Waiting, Flying, Held, Places
<1> QED
  BY <1>1, <1>2, TypeStep, BoundedStep, PresentStep, DueStep, ErrorsStep

(* and so it always holds.                                                 *)
LEMMA LoopInvInvariant == Spec => []Inv
BY LoopInvInit, LoopInvNext, PTL DEF Spec

(* Every variable stays in its type: no bound of the counters is passed.   *)
THEOREM LoopTypeCorrect == Spec => []TypeOK
<1>1. Inv => TypeOK
  BY DEF Inv
<1> QED
  BY <1>1, LoopInvInvariant, PTL

(* No answer to an action request exists that was not executed.            *)
THEOREM AnswersFollowExecution == Spec => []AnsweredWasExecuted
<1>1. Inv => AnsweredWasExecuted
  <2> SUFFICES ASSUME Inv, NEW r \in Requests, Kind[r] = "run",
                      Answered(r) \/ AnswerUnderway(r)
               PROVE  executed[r] >= 1
    BY DEF AnsweredWasExecuted
  <2> QED
    BY DEF Inv, AnswersAreDue, Due, AnswerUnderway
<1> QED
  BY <1>1, LoopInvInvariant, PTL

(* Executions never outnumber the copies made of the request.              *)
THEOREM ExecutionsBounded == Spec => []ExecutionsAccounted
<1>1. Inv => ExecutionsAccounted
  BY DEF Inv
<1> QED
  BY <1>1, LoopInvInvariant, PTL

(* The status in an answer is no older than the question.                  *)
THEOREM StatusAlwaysFresh == Spec => []StatusIsFresh
<1>1. Inv => StatusIsFresh
  <2> SUFFICES ASSUME Inv, NEW r \in Requests, Kind[r] = "status", Answered(r)
               PROVE  answer[r] >= asked[r]
    BY DEF StatusIsFresh
  <2>1. asked[r] <= answer[r] /\ asked[r] \in Int /\ answer[r] \in Int
    BY TypeFacts DEF Inv, AnswersAreDue, Due
  <2> QED
    BY <2>1
<1> QED
  BY <1>1, LoopInvInvariant, PTL

(* A clock that an error has set is never ahead of the server's, and       *)
(* behind it by at most the life of a datagram.                            *)
THEOREM LagAlwaysBounded == Spec => []LagIsBounded
<1>1. TypeOK => Lag = (Skew + offset) % TimeMod
  <2> SUFFICES ASSUME TypeOK PROVE Lag = (Skew + offset) % TimeMod
    OBVIOUS
  <2>1. /\ TimeMod \in Nat \ {0} /\ Skew \in Int /\ clock \in Int /\ offset \in Int
        /\ clock + Skew \in Int /\ clock - offset \in Int
    BY ConstantsType DEF TypeOK, Time
  <2>2. ServerTime \in Int
    BY TimesType DEF Time
  <2>3. (ServerTime - ((clock - offset) % TimeMod)) % TimeMod
          = (ServerTime - (clock - offset)) % TimeMod
    BY <2>1, <2>2, ModSub, Zenon
  <2>4. (((clock + Skew) % TimeMod) - (clock - offset)) % TimeMod
          = ((clock + Skew) - (clock - offset)) % TimeMod
    BY <2>1, ModMinus, Zenon
  <2>5. (clock + Skew) - (clock - offset) = Skew + offset
    BY <2>1
  <2> QED
    BY <2>3, <2>4, <2>5, Zenon DEF Lag, ServerTime, DeviceTime
<1>2. Inv => LagIsBounded
  BY <1>1 DEF Inv, LagIsBounded, ErrorsAreRecent
<1> QED
  BY <1>2, LoopInvInvariant, PTL

-----------------------------------------------------------------------------
(* Refinement                                                              *)

(* Every step of the loop, of the network or of the server is a step of    *)
(* the service, or none: a duplicate counts as another copy asked for, a   *)
(* crash as a change of the status.                                        *)
LEMMA LoopStepRefines ==
  ASSUME Inv, [Next]_vars
  PROVE  [Service!Next]_(Service!vars)
<1> USE DEF device, toServer, network, server
<1>0. /\ TypeOK /\ Bounded /\ PresentWasSent /\ AnswersAreDue
      /\ \A r \in Requests : Accounted(r)
  BY AccountedMeans DEF Inv
<1>1. ASSUME UNCHANGED <<status, copies, asked, executed, answer>>
      PROVE  [Service!Next]_(Service!vars)
  BY <1>1 DEF Service!vars
<1>2. ASSUME status' \in {status, status + 1},
             UNCHANGED <<copies, asked, executed, answer>>
      PROVE  [Service!Next]_(Service!vars)
  BY <1>2 DEF Service!Next, Service!Change
<1>3. CASE FirstKeepalive \/ KeepaliveIfNeeded \/ Receive \/ Respond
  BY <1>1, <1>3 DEF FirstKeepalive, KeepaliveIfNeeded, Receive, Respond
<1>4. CASE LoopDriver \/ Crash
  BY <1>2, <1>4 DEF LoopDriver, ChangeStatus, Crash
<1>5. CASE PerformAction
  <2>1. CASE Kind[hand] = "run"
    <3>1. PICK h \in Requests : h = hand
      BY <1>0, <1>5 DEF PerformAction, Bounded
    <3>2. /\ executed[h] \in Nat /\ copies[h] \in Nat /\ Waiting(h) \in Nat
          /\ Flying(h) \in Nat /\ Held(h) = 1
      BY <1>0, <1>5, <3>1, TypeFacts, PlacesFinite, ConstantsType
         DEF PerformAction, TypeOK, Waiting, Flying, Held
    <3>3. executed[h] < copies[h]
      BY <1>0, <3>2 DEF Accounted
    <3>4. Service!Perform(h)
      BY <1>5, <2>1, <3>1, <3>3
         DEF PerformAction, ChangeStatus, Service!Perform, Service!Change
    <3> QED
      BY <3>4 DEF Service!Next
  <2>2. CASE Kind[hand] # "run"
    BY <1>1, <1>5, <2>2 DEF PerformAction
  <2> QED
    BY <2>1, <2>2
<1>6. ASSUME NEW r \in Requests, Ask(r) PROVE [Service!Next]_(Service!vars)
  <2>1. Service!Ask(r)
    BY <1>6 DEF Ask, Service!Ask
  <2> QED
    BY <2>1 DEF Service!Next
<1>7. ASSUME NEW m \in keepalives, HearKeepalive(m)
      PROVE  [Service!Next]_(Service!vars)
  BY <1>1, <1>7 DEF HearKeepalive
<1>8. ASSUME NEW m \in BagToSet(answers), HearAnswer(m)
      PROVE  [Service!Next]_(Service!vars)
  <2>1. m.req \in Requests /\ Due(m.req, m.status) /\ copies[m.req] > 0
        /\ m.status \in Int /\ asked[m.req] \in Int /\ status \in Int
        /\ executed[m.req] \in Int
    BY <1>0, TypeFacts DEF AnswersAreDue, PresentWasSent, Present, AnswerUnderway
  <2>2. CASE answer[m.req] = NoAnswer
    <3>1. answer' = [answer EXCEPT ![m.req] = m.status]
      BY <1>8, <2>2 DEF HearAnswer
    <3>2. m.req \in {r \in Requests : Kind[r] = "run"} => executed[m.req] > 0
      BY <2>1 DEF Due
    <3>3. m.status \in IF m.req \in {r \in Requests : Kind[r] = "status"}
                         THEN asked[m.req]..status ELSE {0}
      BY <2>1 DEF Due
    <3>4. Service!Answer(m.req)
      BY <1>8, <2>1, <2>2, <3>1, <3>2, <3>3
         DEF HearAnswer, NoAnswer, Service!Answer, Service!NoAnswer
    <3> QED
      BY <2>1, <3>4 DEF Service!Next
  <2>3. CASE answer[m.req] # NoAnswer
    <3>1. answer' = answer
      BY <1>0, <1>8, <2>3 DEF HearAnswer, TypeOK
    <3> QED
      BY <1>1, <1>8, <3>1 DEF HearAnswer
  <2> QED
    BY <2>2, <2>3
<1>9. ASSUME NEW m \in toDevice, Deliver(m) \/ Damage(m)
      PROVE  [Service!Next]_(Service!vars)
  BY <1>1, <1>9 DEF Deliver, Damage
<1>10. ASSUME NEW m \in toDevice, Duplicate(m)
       PROVE  [Service!Next]_(Service!vars)
  <2>1. CASE \E r \in Requests : m = Request(r)
    <3>1. PICK r \in Requests : m = Request(r)
      BY <2>1
    <3>2. copies[r] > 0
      BY <1>0, <3>1 DEF PresentWasSent, Present
    <3>3. copies' = [copies EXCEPT ![r] = @ + 1]
      BY <1>0, <1>10, <3>1 DEF Duplicate, Request, TypeOK
    <3>4. asked = [asked EXCEPT ![r] = IF copies[r] = 0 THEN status ELSE @]
      BY <1>0, <3>2 DEF TypeOK
    <3>5. Service!Ask(r)
      BY <1>10, <3>3, <3>4 DEF Duplicate, Service!Ask
    <3> QED
      BY <3>5 DEF Service!Next
  <2>2. CASE ~ \E r \in Requests : m = Request(r)
    <3>1. copies' = copies
      BY <1>0, <1>10, <2>2 DEF Duplicate, TypeOK
    <3> QED
      BY <1>1, <1>10, <3>1 DEF Duplicate
  <2> QED
    BY <2>1, <2>2
<1>11. CASE Lose \/ Tick \/ UNCHANGED vars
  BY <1>1, <1>11 DEF Lose, Tick, vars
<1> QED
  BY <1>3, <1>4, <1>5, <1>6, <1>7, <1>8, <1>9, <1>10, <1>11
     DEF Next, Device, ServerStep, Network

(* The loop, the network and every crash implement the service.            *)
THEOREM ImplementsService == Spec => ServesRequests
<1>1. Init => Service!Init
  BY DEF Init, Service!Init, NoAnswer, Service!NoAnswer
<1>2. Inv /\ [Next]_vars => [Service!Next]_(Service!vars)
  BY LoopStepRefines
<1> QED
  BY <1>1, <1>2, LoopInvInvariant, PTL DEF Spec, Service!Spec, ServesRequests
=============================================================================
