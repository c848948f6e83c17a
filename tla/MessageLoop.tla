----------------------------- MODULE MessageLoop -----------------------------
(***************************************************************************)
(* The endless loop of lh_start_device (core/lhings.c): a keepalive when   *)
(* one is due, process_messages, loop_driver, over and over, in a single   *)
(* thread; against a network that loses, delays, reorders, duplicates and  *)
(* damages datagrams and a process that may die and be launched again at   *)
(* any point.  The loop starts with the first keepalive of a process; what *)
(* comes before it is in DeviceStartup, the sockets are in UdpSockets.     *)
(*                                                                         *)
(* The Lhings server is not in src/: it is modelled from the messages the  *)
(* device understands and builds.  It learns the address of the device     *)
(* from its keepalives, answers one whose timestamp is off with an error   *)
(* that holds the server's time, and repeats a request until it is         *)
(* answered.                                                               *)
(***************************************************************************)
EXTENDS Integers, FiniteSets, Sequences, SequencesExt, Bags

CONSTANTS
  Requests,       \* the requests of the server, one transaction id each
  Kind,           \* what each request asks for
  Copies,         \* bound: copies of one request, duplicates included
  InboxSize,      \* bound: datagrams the listener socket holds
  MaxChanges,     \* bound: changes of the status by the user's code
  KeepaliveTicks, \* DELAY_BETWEEN_KEEPALIVES_SECS, in ticks of the clocks
  TimeMod,        \* the clocks are integers modulo TimeMod: 2^32
  Skew,           \* the server's clock less the device's
  Tolerance,      \* the greatest error of a timestamp that the server accepts
  MaxLife,        \* bound: ticks from the sending of a datagram to its end
  Faults,         \* the kinds of fault that may happen
  FaultBudget     \* bound: faults

(* "run": an action of the device, with arguments it understands;          *)
(* "refused": an action it does not have, or without such arguments;       *)
(* "status": M_STATUS_REQUEST; "other": a method it does not handle.       *)
Kinds == {"run", "refused", "status", "other"}

FaultKinds == {"lose", "duplicate", "damage", "send", "crash"}

ASSUME LoopAssumption ==
  /\ Kind \in [Requests -> Kinds]
  /\ {Copies, InboxSize, MaxChanges, KeepaliveTicks} \subseteq Nat
  /\ {Tolerance, MaxLife, FaultBudget} \subseteq Nat
  /\ TimeMod \in Nat \ {0} /\ Skew \in Int
  /\ Faults \subseteq FaultKinds

VARIABLES
  pc,         \* where the process is in its loop
  hand,       \* the request process_messages is working on, or NoRequest
  inbox,      \* datagrams in the buffer of the listener socket, in order
  sinceLast,  \* now - last_keepalive, in ticks, up to KeepaliveTicks + 1;
              \* NotStarted before the first reading of the milliseconds
  offset,     \* the static of get_UTC_unix_time_worker
  status,     \* the number of changes of the status components so far
  toDevice,   \* datagrams on their way to the device
  keepalives, \* keepalives on their way to the server
  answers,    \* a bag: answers on their way to the server
  known,      \* server: it knows the address of the running process
  copies,     \* per request: copies made so far
  asked,      \* per request: the status when it was first sent
  answer,     \* per request: the status in its first answer, or NoAnswer
  clock,      \* the device's time(NULL)
  executed,   \* per request: calls of its action function
  faults      \* faults so far

device == <<pc, hand, inbox, sinceLast, offset, status>>
toServer == <<keepalives, answers>>
network == <<toDevice, toServer>>
server == <<known, copies, asked, answer>>
vars == <<device, network, server, clock, executed, faults>>

NoRequest == "none"
NoAnswer == -1
NotStarted == -1

Request(r) == [what |-> "request", req |-> r]
Error(t, a) == [what |-> "error", time |-> t, age |-> a]
Noise == [what |-> "noise"]
Keepalive(t, a) == [time |-> t, age |-> a]
Success(r, s) == [req |-> r, status |-> s]

Time == 0..(TimeMod - 1)
ToDevice == {Request(r) : r \in Requests} \cup
            {Error(t, a) : t \in Time, a \in 0..MaxLife}
Keepalives == {Keepalive(t, a) : t \in Time, a \in 0..MaxLife}
Successes == {Success(r, s) : r \in Requests, s \in 0..(MaxChanges + FaultBudget)}

ServerTime == (clock + Skew) % TimeMod
DeviceTime == (clock - offset) % TimeMod   \* lh_get_UTC_unix_time

Fault(kind) ==
  /\ kind \in Faults
  /\ faults < FaultBudget
  /\ faults' = faults + 1

-----------------------------------------------------------------------------
(* The device                                                              *)

(* lh_send_to_server: if it fails, that is at most logged.                 *)
SendKeepalive ==
  \/ keepalives' = keepalives \cup {Keepalive(DeviceTime, 0)} /\ UNCHANGED faults
  \/ Fault("send") /\ UNCHANGED keepalives

SendAnswer(m) ==
  \/ answers' = answers (+) SetToBag({m}) /\ UNCHANGED faults
  \/ Fault("send") /\ UNCHANGED answers

(* send_keepalive, before the loop.                                        *)
FirstKeepalive ==
  /\ pc = "first"
  /\ SendKeepalive
  /\ pc' = "keepalive"
  /\ UNCHANGED <<hand, inbox, sinceLast, offset, status, toDevice, answers,
                 server, clock, executed>>

(* As if last_keepalive was assigned before the test.                      *)
KeepaliveIfNeededReset ==
  /\ pc = "keepalive"
  /\ IF sinceLast <= KeepaliveTicks
       THEN UNCHANGED <<keepalives, faults>>
       ELSE SendKeepalive
  /\ sinceLast' = 0
  /\ pc' = "receive"
  /\ UNCHANGED <<hand, inbox, offset, status, toDevice, answers, server,
                 clock, executed>>

(* The milliseconds count from their first reading, which is here.         *)
KeepaliveIfNeeded ==
  /\ pc = "keepalive"
  /\ IF sinceLast <= KeepaliveTicks
       THEN /\ sinceLast' = IF sinceLast = NotStarted THEN 0 ELSE sinceLast
            /\ UNCHANGED <<keepalives, faults>>
       ELSE sinceLast' = 0 /\ SendKeepalive
  /\ pc' = "receive"
  /\ UNCHANGED <<hand, inbox, offset, status, toDevice, answers, server,
                 clock, executed>>

(* lh_update_time_offset: with the signs swapped, added to the offset      *)
(* there is, in signed integers, and as it is.                             *)
NewOffsetSwapped(serverTime) == (serverTime - clock) % TimeMod
NewOffsetAdded(serverTime) == (offset + clock - serverTime) % TimeMod
NewOffsetSigned(serverTime) == clock - serverTime

NewOffset(serverTime) == (clock - serverTime) % TimeMod

(* The case of process_messages for a method: as if M_ACTION had lost its  *)
(* call of perform_action, and as it is.                                   *)
HandlerNone(r) == "respond"
Handler(r) == IF Kind[r] = "status" THEN "respond" ELSE "perform"

(* process_messages reads one datagram, if there is one.  A malformed one  *)
(* and one with a bad integrity are dropped, an error with the server's    *)
(* time sets the clock, a request is kept in hand; others are dropped.     *)
Receive ==
  /\ pc = "receive"
  /\ IF inbox = << >>
       THEN pc' = "loop" /\ UNCHANGED <<hand, inbox, offset>>
       ELSE LET m == Head(inbox) IN
         /\ inbox' = Tail(inbox)
         /\ offset' = IF m.what = "error" THEN NewOffset(m.time) ELSE offset
         /\ IF m.what = "request" /\ Kind[m.req] # "other"
              THEN /\ hand' = m.req
                   /\ pc' = Handler(m.req)
              ELSE pc' = "loop" /\ UNCHANGED hand
  /\ UNCHANGED <<sinceLast, status, network, server, clock, executed, faults>>

ChangeStatus ==
  \/ status < MaxChanges /\ status' = status + 1
  \/ UNCHANGED status

(* With the early returns of perform_action taken for those of             *)
(* process_messages.                                                       *)
PerformActionSilently ==
  /\ pc = "perform"
  /\ IF Kind[hand] = "run"
       THEN /\ executed' = [executed EXCEPT ![hand] = @ + 1]
            /\ ChangeStatus
            /\ pc' = "respond" /\ UNCHANGED hand
       ELSE pc' = "loop" /\ hand' = NoRequest /\ UNCHANGED <<executed, status>>
  /\ UNCHANGED <<inbox, sinceLast, offset, network, server, clock, faults>>

(* perform_action: it runs the user's function, which may change the       *)
(* status, or returns early; process_messages cannot tell which.           *)
PerformAction ==
  /\ pc = "perform"
  /\ IF Kind[hand] = "run"
       THEN /\ executed' = [executed EXCEPT ![hand] = @ + 1]
            /\ ChangeStatus
       ELSE UNCHANGED <<executed, status>>
  /\ pc' = "respond"
  /\ UNCHANGED <<hand, inbox, sinceLast, offset, network, server, clock, faults>>

(* The payload of the answer: as if built once, and as it is.              *)
PayloadBuiltOnce(r) == 0
Payload(r) == IF Kind[r] = "status" THEN status ELSE 0

(* As if an answer that could not be sent made the handler start again.    *)
RespondRetrying ==
  /\ pc = "respond"
  /\ SendAnswer(Success(hand, Payload(hand)))
  /\ IF faults' = faults
       THEN hand' = NoRequest /\ pc' = "loop"
       ELSE /\ UNCHANGED hand
            /\ pc' = Handler(hand)
  /\ UNCHANGED <<inbox, sinceLast, offset, status, toDevice, keepalives,
                 server, clock, executed>>

(* send_status, send_success_response: the answer bears the id of the      *)
(* request; if it cannot be sent, that is logged.                          *)
Respond ==
  /\ pc = "respond"
  /\ SendAnswer(Success(hand, Payload(hand)))
  /\ hand' = NoRequest
  /\ pc' = "loop"
  /\ UNCHANGED <<inbox, sinceLast, offset, status, toDevice, keepalives,
                 server, clock, executed>>

(* loop_driver: the user's loop() runs if it is due, and may change the    *)
(* status.                                                                 *)
LoopDriver ==
  /\ pc = "loop"
  /\ ChangeStatus
  /\ pc' = "keepalive"
  /\ UNCHANGED <<hand, inbox, sinceLast, offset, network, server, clock,
                 executed, faults>>

(* The process dies and is launched again: its variables are those of the  *)
(* program's start and its port is another one, so that what was sent to   *)
(* the old port is lost.  Its keepalives have no effect any more.          *)
Crash ==
  /\ Fault("crash")
  /\ pc' = "first" /\ hand' = NoRequest /\ inbox' = << >>
  /\ sinceLast' = NotStarted /\ offset' = 0 /\ status' = status + 1
  /\ toDevice' = {}
  /\ keepalives' = {}
  /\ known' = FALSE
  /\ UNCHANGED <<answers, copies, asked, answer, clock, executed>>

-----------------------------------------------------------------------------
(* The network and the passing of time                                     *)

Deliver(m) ==
  /\ m \in toDevice /\ Len(inbox) < InboxSize
  /\ inbox' = Append(inbox, m)
  /\ toDevice' = toDevice \ {m}
  /\ UNCHANGED <<pc, hand, sinceLast, offset, status, toServer, server, clock,
                 executed, faults>>

Damage(m) ==
  /\ m \in toDevice /\ Len(inbox) < InboxSize
  /\ Fault("damage")
  /\ inbox' = Append(inbox, Noise)
  /\ toDevice' = toDevice \ {m}
  /\ UNCHANGED <<pc, hand, sinceLast, offset, status, toServer, server, clock,
                 executed>>

Duplicate(m) ==
  /\ m \in toDevice /\ Len(inbox) < InboxSize
  /\ Fault("duplicate")
  /\ inbox' = Append(inbox, m)
  /\ copies' = [r \in Requests |->
                  IF m = Request(r) THEN copies[r] + 1 ELSE copies[r]]
  /\ UNCHANGED <<pc, hand, sinceLast, offset, status, network, known, asked,
                 answer, clock, executed>>

Lose ==
  /\ Fault("lose")
  /\ \/ /\ \E m \in toDevice : toDevice' = toDevice \ {m}
        /\ UNCHANGED toServer
     \/ /\ \E m \in keepalives : keepalives' = keepalives \ {m}
        /\ UNCHANGED <<toDevice, answers>>
     \/ /\ \E m \in BagToSet(answers) : answers' = answers (-) SetToBag({m})
        /\ UNCHANGED <<toDevice, keepalives>>
  /\ UNCHANGED <<device, server, clock, executed>>

Older(m) == [m EXCEPT !.age = @ + 1]
OlderError(m) == IF m.what = "error" THEN Older(m) ELSE m

Tick ==
  /\ \A m \in toDevice \cup ToSet(inbox) : m.what = "error" => m.age < MaxLife
  /\ \A m \in keepalives : m.age < MaxLife
  /\ clock' = (clock + 1) % TimeMod
  /\ sinceLast' = IF sinceLast = NotStarted \/ sinceLast > KeepaliveTicks
                    THEN sinceLast ELSE sinceLast + 1
  /\ toDevice' = {OlderError(m) : m \in toDevice}
  /\ keepalives' = {Older(m) : m \in keepalives}
  /\ inbox' = [i \in DOMAIN inbox |-> OlderError(inbox[i])]
  /\ UNCHANGED <<pc, hand, offset, status, answers, server, executed, faults>>

-----------------------------------------------------------------------------
(* The server                                                              *)

(* It repeats a request that is not answered, but not while a copy of it   *)
(* is on its way to the device or waits in its socket.                     *)
Ask(r) ==
  /\ known /\ answer[r] = NoAnswer
  /\ copies[r] < Copies
  /\ Request(r) \notin toDevice \cup ToSet(inbox)
  /\ toDevice' = toDevice \cup {Request(r)}
  /\ copies' = [copies EXCEPT ![r] = @ + 1]
  /\ asked' = [asked EXCEPT ![r] = IF copies[r] = 0 THEN status ELSE @]
  /\ UNCHANGED <<device, toServer, known, answer, clock, executed, faults>>

Accepts(t) ==
  LET late == (ServerTime - t) % TimeMod
  IN  late <= Tolerance \/ TimeMod - late <= Tolerance

HearKeepalive(m) ==
  /\ m \in keepalives
  /\ keepalives' = keepalives \ {m}
  /\ known' = TRUE
  /\ toDevice' = IF Accepts(m.time) THEN toDevice
                 ELSE toDevice \cup {Error(ServerTime, 0)}
  /\ UNCHANGED <<device, answers, copies, asked, answer, clock, executed, faults>>

HearAnswer(m) ==
  /\ BagIn(m, answers)
  /\ answers' = answers (-) SetToBag({m})
  /\ answer' = [answer EXCEPT ![m.req] = IF @ = NoAnswer THEN m.status ELSE @]
  /\ UNCHANGED <<device, toDevice, keepalives, known, copies, asked, clock,
                 executed, faults>>

-----------------------------------------------------------------------------
Init ==
  /\ pc = "first" /\ hand = NoRequest /\ inbox = << >>
  /\ sinceLast = NotStarted /\ offset = 0 /\ status = 0
  /\ toDevice = {} /\ keepalives = {} /\ answers = EmptyBag
  /\ known = FALSE
  /\ copies = [r \in Requests |-> 0]
  /\ asked = [r \in Requests |-> 0]
  /\ answer = [r \in Requests |-> NoAnswer]
  /\ clock = 0
  /\ executed = [r \in Requests |-> 0]
  /\ faults = 0

Device ==
  \/ FirstKeepalive \/ KeepaliveIfNeeded \/ Receive \/ PerformAction
  \/ Respond \/ LoopDriver

ServerStep ==
  \/ \E r \in Requests : Ask(r)
  \/ \E m \in keepalives : HearKeepalive(m)
  \/ \E m \in BagToSet(answers) : HearAnswer(m)

Network ==
  \/ \E m \in toDevice : Deliver(m) \/ Damage(m) \/ Duplicate(m)
  \/ Lose \/ Tick

Next == Device \/ Crash \/ ServerStep \/ Network

Spec == Init /\ [][Next]_vars

(* The loop goes on, as the user's functions return; time passes; a        *)
(* datagram that is not lost arrives; the server repeats what it asked.    *)
FairSpec ==
  /\ Spec
  /\ WF_vars(Device) /\ WF_vars(Tick)
  /\ \A r \in Requests : WF_vars(Ask(r)) /\ WF_vars(Deliver(Request(r)))
  /\ WF_vars(\E m \in toDevice : Deliver(m))
  /\ WF_vars(\E m \in keepalives : HearKeepalive(m))
  /\ WF_vars(\E m \in BagToSet(answers) : HearAnswer(m))
-----------------------------------------------------------------------------
(* Properties                                                              *)

TypeOK ==
  /\ pc \in {"first", "keepalive", "receive", "perform", "respond", "loop"}
  /\ hand \in Requests \cup {NoRequest}
  /\ inbox \in Seq(ToDevice \cup {Noise}) /\ Len(inbox) <= InboxSize
  /\ sinceLast \in NotStarted..(KeepaliveTicks + 1)
  /\ offset \in Time /\ clock \in Time
  /\ status \in 0..(MaxChanges + FaultBudget)
  /\ toDevice \subseteq ToDevice
  /\ keepalives \subseteq Keepalives
  /\ IsABag(answers) /\ BagToSet(answers) \subseteq Successes
  /\ known \in BOOLEAN
  /\ copies \in [Requests -> 0..(Copies + FaultBudget)]
  /\ asked \in [Requests -> 0..(MaxChanges + FaultBudget)]
  /\ answer \in [Requests -> {NoAnswer} \cup 0..(MaxChanges + FaultBudget)]
  /\ executed \in [Requests -> 0..(Copies + FaultBudget)]
  /\ faults \in 0..FaultBudget

Answered(r) == answer[r] # NoAnswer
AnswerUnderway(r) == \E m \in BagToSet(answers) : m.req = r

(* When an answer to a good action request exists, on its way or received, *)
(* the action function was called: no crash between the call and the       *)
(* answer, no duplicate and no late answer turns that around.              *)
AnsweredWasExecuted ==
  \A r \in Requests :
    Kind[r] = "run" /\ (Answered(r) \/ AnswerUnderway(r)) => executed[r] >= 1

(* Every call of an action function consumes an undamaged copy of its      *)
(* request: calls, copies in the network, in the buffer of the socket and  *)
(* in hand never add up to more than the copies made.  The device does not *)
(* recognise duplicates, but it makes none of its own.                     *)
ExecutionsAccounted ==
  \A r \in Requests :
    LET waiting == Cardinality({i \in DOMAIN inbox : inbox[i] = Request(r)})
        flying == IF Request(r) \in toDevice THEN 1 ELSE 0
        held == IF hand = r /\ pc = "perform" THEN 1 ELSE 0
    IN  executed[r] + waiting + flying + held <= copies[r]

(* The answer to a status request tells a status the device had after the  *)
(* server asked, whatever was repeated, delayed or restarted; with it, an  *)
(* action answered before the status was asked for shows in it.            *)
StatusIsFresh ==
  \A r \in Requests :
    Kind[r] = "status" /\ Answered(r) => answer[r] >= asked[r]

(* For the server, all of that is a service that performs an action at     *)
(* least once before it answers, and tells a status no older than the      *)
(* question: the loop, the network and every crash implement it.           *)
Service == INSTANCE RequestService WITH
  Actions <- {r \in Requests : Kind[r] = "run"},
  Questions <- {r \in Requests : Kind[r] = "status"},
  done <- executed,
  told <- answer

ServesRequests == Service!Spec

(* Every request for an action or the status is answered in the end, one   *)
(* the device refuses too, if the server repeats it more often than faults *)
(* can take copies of it away.                                             *)
EveryRequestAnswered ==
  \A r \in Requests :
    Kind[r] # "other" => (copies[r] > 0) ~> Answered(r)

(* After a restart, or after its first keepalive was lost, the server gets *)
(* to know the address of the device again.                                *)
BecomesReachable == ~known ~> known

Lag == (ServerTime - DeviceTime) % TimeMod

(* A device whose clock was set by an error of the server is not ahead of  *)
(* the server, and behind it by no more than the life of a datagram; the   *)
(* arithmetic modulo 2^32 gives that whatever the signs of the differences *)
(* and whichever of several errors came last.                              *)
LagIsBounded == offset # 0 => Lag <= MaxLife

(* In the end the server and the device agree on the time for good, up to  *)
(* the error the server tolerates and the life of a datagram.              *)
ClockSettles ==
  <>[](Lag <= Tolerance + MaxLife \/ TimeMod - Lag <= Tolerance + MaxLife)
=============================================================================
