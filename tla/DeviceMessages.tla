---------------------------- MODULE DeviceMessages ----------------------------
(***************************************************************************)
(* The messages of a device that setup() has configured, byte by byte:     *)
(* those that core/stun-messaging/stun_message.c builds, and what          *)
(* process_messages reads out of those that it receives.  Which of them    *)
(* arrive and when is in MessageLoop.  The Lhings server is not in src/:   *)
(* its messages are laid out as RFC 5389 says, and as the device reads and *)
(* builds its own.                                                         *)
(***************************************************************************)
EXTENDS DeviceModel, StunMessage, ArgsCodec

CONSTANTS
  Username,   \* of the account
  Uuid,       \* of the device: 36 characters
  Now,        \* lh_get_UTC_unix_time
  OwnTrId,    \* what rand() gives for the id of a message of the device
  Garbage,    \* bytes that malloc and realloc may leave in their memory
  Texts,      \* payloads that the user's code gives to lh_send_event,
  Payloads,   \* and lists of components
  EventNames, \* and names
  Requests    \* messages of the server: method, class, id, attributes

VARIABLES
  call,   \* what the message in memory was built for, or NoCall
  wire,   \* the message given to lh_send_to_server
  learnt  \* what was read out of a message received

vars == <<modelVars, call, wire, learnt>>

NoText == <<-1>>         \* NULL
NoComponents == <<-1>>   \* NULL
NoMessage == [bytes |-> << >>, length |-> 0, signed |-> Unsigned]
NoCall == [what |-> "none"]
Nothing == [what |-> "nothing"]
NothingLearnt == [from |-> NoCall, got |-> Nothing]
NotThere == <<-1>>

(* An attribute of the server or of a call: its type and its value.        *)
Attr(type, value) == [type |-> type, value |-> value]

(* A uuid is the text that the server gives the device; what the server    *)
(* sends has a method, a class and an id in its header.  The documentation *)
(* allows eight status components, as many as the mask has bits.           *)
ASSUME MessagesAssumption ==
  /\ MaxStatus \in 0..MaxComponents
  /\ Garbage \subseteq Byte /\ Now \in Uint32
  /\ Username \in Seq(Nat)
  /\ Uuid \in [1..36 -> 0..Dash]
  /\ \A i \in 1..36 : Uuid[i] = Dash <=> i \in {9, 14, 19, 24}
  /\ OwnTrId \in [1..12 -> Byte]
  /\ Texts \subseteq Seq(Nat) \cup {NoText}
  /\ \A cs \in Payloads : cs = NoComponents \/ AreComponents(cs)
  /\ EventNames \subseteq Seq(Nat)
  /\ \A r \in Requests :
       /\ r.method \in Methods /\ r.class \in Classes
       /\ r.trId \in [1..12 -> Byte]
       /\ r.attrs \in Seq([type : Word, value : Seq(Nat)])

-----------------------------------------------------------------------------
(* What the layout of a message is meant to be: the twelve bits M11..M0 of *)
(* the method and the bits C1 and C0 of the class interleaved as in RFC    *)
(* 5389, then the attributes one after another, then the integrity.        *)
Bits(n, from, to) == (n \div 2^from) % 2^(to - from + 1)

TypeLayout(method, class) ==
  U16(512 * Bits(method, 7, 11) + 256 * Bits(class, 8, 8) + 32 * Bits(method, 4, 6)
        + 16 * Bits(class, 4, 4) + Bits(method, 0, 3))

AttrLayout(a) ==
  U16(a.type) \o U16(Len(a.value)) \o a.value
    \o [i \in 1..((4 - (Len(a.value) % 4)) % 4) |-> 0]

AttrsLayout(attrs) ==
  LET laidOut[n \in 0..Len(attrs)] ==
        IF n = 0 THEN << >> ELSE laidOut[n - 1] \o AttrLayout(attrs[n])
  IN  laidOut[Len(attrs)]

MessageLayout(method, class, trId, attrs) ==
  LET body == AttrsLayout(attrs)
                \o AttrLayout(Attr(ATTR_MESSAGE_INTEGRITY, [i \in 1..MacLen |-> 0]))
  IN  TypeLayout(method, class) \o U16(Len(body)) \o MagicCookie \o trId \o body

(* A message of the server, as it is received.                             *)
Received(r) ==
  LET layout == MessageLayout(r.method, r.class, r.trId, r.attrs)
  IN  [bytes |-> [i \in 0..(Len(layout) - 1) |-> layout[i + 1]],
       length |-> Len(layout),
       signed |-> [key |-> "lower", bytes |-> SubSeq(layout, 1, Len(layout) - MacAttrLen),
                   at |-> Len(layout) - MacLen]]

-----------------------------------------------------------------------------
(* What the server means by a message is in its attributes: by the request *)
(* of an action a name and arguments, complete if both are there, by an    *)
(* error a code in hundreds and a remainder, and the time.                 *)
Has(r, type) == \E i \in DOMAIN r.attrs : r.attrs[i].type = type
Says(r, type, value) ==
  \A i \in DOMAIN r.attrs : r.attrs[i].type = type => r.attrs[i].value = value

(* A byte has the length of an argument.                                   *)
AreArguments(args) ==
  /\ AreComponents(args) /\ Len(args) <= MaxComponents
  /\ \A j \in 1..Len(args) : args[j].type # "none" /\ Len(ItemLayout(args[j])) - 4 <= 255

MeansAction(r) ==
  /\ Says(r, ATTR_NAME, r.name) /\ Says(r, ATTR_ARGUMENTS, Layout(r.args))
  /\ AreArguments(r.args)
  /\ r.complete => Has(r, ATTR_NAME) /\ Has(r, ATTR_ARGUMENTS)

MeansError(r) ==
  /\ IF Has(r, ATTR_SERVER_TIME)
       THEN r.time \in Uint32 /\ Says(r, ATTR_SERVER_TIME, U32(r.time))
       ELSE r.time = NotThere
  /\ ~Has(r, ATTR_ERROR_CODE) => r.code = NotThere
  /\ \A i \in DOMAIN r.attrs : r.attrs[i].type = ATTR_ERROR_CODE =>
       LET value == r.attrs[i].value IN
       Len(value) >= 4 /\ 100 * value[3] + value[4] = r.code

(* Its messages fit in the buffer they are received in.                    *)
MaxReceived == 2047   \* MAXBUFLEN - 1

ASSUME ServerAssumption ==
  \A r \in Requests :
    /\ Len(MessageLayout(r.method, r.class, r.trId, r.attrs)) <= MaxReceived
    /\ r.method = M_ACTION /\ r.class = CL_REQUEST => MeansAction(r)
    /\ r.class = CL_ERROR => MeansError(r)

-----------------------------------------------------------------------------
(* The messages of the device                                              *)

(* stun_add_common_attrs                                                   *)
AddCommonAttrs(m, g) ==
  AddAttribute(AddAttribute(AddAttribute(m, ATTR_USERNAME, Username, g),
                            ATTR_TIMESTAMP, U32(Now), g),
               ATTR_LYNCPORT_ID, UuidBytes(Uuid), g)

(* stun_get_keepalive_message                                              *)
KeepaliveMessage(g) ==
  SetIntegrity(SetMethodAndClass(AddCommonAttrs(NewMessage(OwnTrId, g), g),
                                 M_KEEP_ALIVE, CL_REQUEST), g)

(* stun_get_event_message                                                  *)
EventMessage(name, payload, g) ==
  LET named == AddAttribute(SetMethodAndClass(AddCommonAttrs(NewMessage(OwnTrId, g), g),
                                              M_EVENT, CL_REQUEST), ATTR_NAME, name, g)
  IN  SetIntegrity(IF payload = NoText THEN named
                   ELSE AddAttribute(named, ATTR_PAYLOAD, payload, g), g)

(* stun_get_status_store_message                                           *)
StatusStoreMessage(g) ==
  SetIntegrity(AddAttribute(SetMethodAndClass(AddCommonAttrs(NewMessage(OwnTrId, g), g),
                                              M_STORE_STATUS, CL_REQUEST),
                            ATTR_ARGUMENTS, BuildArguments(device.status.items, g), g), g)

(* The attributes of a list, one by one.                                   *)
AddAttributes(m, attrs, g) ==
  LET put[n \in 0..Len(attrs)] ==
        IF n = 0 THEN m ELSE AddAttribute(put[n - 1], attrs[n].type, attrs[n].value, g)
  IN  put[Len(attrs)]

(* stun_get_success_response: as if the id was copied last, and as it is.  *)
SuccessResponseLate(received, attrs, g) ==
  LET common == AddCommonAttrs(NewMessage(OwnTrId, g), g)
      full == AddAttributes(common, attrs, g)
      typed == SetMethodAndClass(full, GetMethodAndClass(received.bytes).method, CL_SUCCESS)
  IN  [SetIntegrity(typed, g) EXCEPT !.bytes = Write(@, 8, Read(received.bytes, 8, 12))]

SuccessResponse(received, attrs, g) ==
  LET common == AddCommonAttrs(NewMessage(OwnTrId, g), g)
      full == AddAttributes(common, attrs, g)
      typed == SetMethodAndClass(full, GetMethodAndClass(received.bytes).method, CL_SUCCESS)
  IN  SetIntegrity([typed EXCEPT !.bytes = Write(@, 8, Read(received.bytes, 8, 12))], g)

-----------------------------------------------------------------------------
(* build_structured_payload.  A number takes up to 15 characters, the size *)
(* of the buffer it is printed into.                                       *)
ValueLen(c) ==
  CASE c.type = "boolean" -> IF c.value = Zero THEN 5 ELSE 4
    [] c.type = "string" -> Len(c.value) + 2
    [] c.type \in {"integer", "timestamp", "float"} -> 15
    [] c.type = "none" -> 0

(* As if the brackets and the final zero were not counted, and as it is.   *)
PayloadAllocatedBare(cs) == 8 * SumOf(LAMBDA c : Len(c.name) + 2 + ValueLen(c) + 22, cs)
PayloadAllocated(cs) == 8 * (SumOf(LAMBDA c : Len(c.name) + 2 + ValueLen(c) + 22, cs) + 3)

PayloadLen(cs) == 2 + SumOf(LAMBDA c : 20 + Len(c.name) + ValueLen(c), cs) + Commas(cs)

(* The text itself is not modelled, but for its length.                    *)
StructuredPayload(cs) == [i \in 1..PayloadLen(cs) |-> 91]

-----------------------------------------------------------------------------
Idle == phase = "running" /\ call = NoCall /\ learnt = NothingLearnt

Sends(c, m) == call' = c /\ wire' = m
SendsNothing == call' = NoCall /\ wire' = NoMessage
LearnsNothing == learnt' = NothingLearnt

SendKeepalive(g) ==
  /\ Idle
  /\ Sends([what |-> "keepalive", garbage |-> g], KeepaliveMessage(g))
  /\ LearnsNothing
  /\ UNCHANGED modelVars

(* lh_send_event and lh_api_send_event.  An event the device does not have *)
(* is not sent; a payload goes before components.                          *)
SendEvent(name, text, cs, g) ==
  LET payload == IF text # NoText THEN text
                 ELSE IF cs = NoComponents THEN NoText ELSE StructuredPayload(cs)
  IN  /\ Idle
      /\ \E i \in DOMAIN device.events.items : device.events.items[i].name = name
      /\ Sends([what |-> "event", name |-> name, text |-> text, components |-> cs,
                garbage |-> g],
               EventMessage(name, payload, g))
      /\ LearnsNothing
      /\ UNCHANGED modelVars

(* lh_store_status, lh_api_store_status                                    *)
StoreStatus(g) ==
  /\ Idle
  /\ IF device.status = NoList
       THEN phase' = "dead" /\ SendsNothing
       ELSE /\ Sends([what |-> "store", garbage |-> g], StatusStoreMessage(g))
            /\ UNCHANGED phase
  /\ LearnsNothing
  /\ UNCHANGED <<device, added, descriptor>>

(* perform_action: what the action function gets.                          *)
Understood(m) ==
  LET named == {i \in DOMAIN device.actions.items :
                  Found(m, ATTR_NAME)
                    /\ device.actions.items[i].name = AttributeValue(m, ATTR_NAME)}
      action == device.actions.items[CHOOSE i \in named : \A k \in named : i <= k]
      attr == AttributeValue(m, ATTR_ARGUMENTS)
      args == ProcessArguments(attr, action.args.items)
  IN  IF named = {} \/ ~Found(m, ATTR_ARGUMENTS) THEN Nothing
      ELSE IF action.args = NoList /\ \E j \in 1..attr[1] : Bit(attr[attr[1] + 2], j - 1) = 0
        THEN [what |-> "crash"]
      ELSE IF args.ok THEN [what |-> "action", name |-> action.name, args |-> args.dict]
      ELSE Nothing

(* The case M_ACTION of process_messages: perform_action, then             *)
(* send_success_response.                                                  *)
HandleAction(r, g) ==
  LET m == Received(r)
      u == Understood(m) IN
  /\ learnt' = [from |-> r, got |-> u]
  /\ IF u.what = "crash"
       THEN phase' = "dead" /\ SendsNothing
       ELSE /\ Sends([what |-> "response", to |-> r, garbage |-> g],
                     SuccessResponse(m, << >>, g))
            /\ UNCHANGED phase

(* The case M_STATUS_REQUEST: send_status.                                 *)
HandleStatusRequest(r, g) ==
  LET attr == Attr(ATTR_ARGUMENTS, BuildArguments(device.status.items, g)) IN
  /\ learnt' = [from |-> r, got |-> Nothing]
  /\ IF device.status = NoList
       THEN phase' = "dead" /\ SendsNothing
       ELSE /\ Sends([what |-> "status", to |-> r, garbage |-> g],
                     SuccessResponse(Received(r), <<attr>>, g))
            /\ UNCHANGED phase

(* An error: its code is logged and the server's time sets the clock, each *)
(* if it is there.                                                         *)
HandleError(r) ==
  LET m == Received(r)
      read(code, value) == IF Found(m, code) THEN value ELSE NotThere
      time == ReadU32(m.bytes, GetAttribute(m, ATTR_SERVER_TIME) + 4)
  IN  /\ learnt' = [from |-> r,
                    got |-> [what |-> "error", code |-> read(ATTR_ERROR_CODE, ErrorCode(m)),
                             time |-> read(ATTR_SERVER_TIME, time)]]
      /\ SendsNothing
      /\ UNCHANGED phase

(* process_messages, for a message that is well formed and has a good      *)
(* integrity.                                                              *)
ProcessMessage(r, g) ==
  LET m == Received(r)
      type == GetMethodAndClass(m.bytes) IN
  /\ Idle
  /\ WellFormed(m.bytes, m.length) /\ IntegrityCorrect(m, "lower")
  /\ CASE type.class = CL_ERROR -> HandleError(r)
       [] type = [method |-> M_ACTION, class |-> CL_REQUEST] -> HandleAction(r, g)
       [] type = [method |-> M_STATUS_REQUEST, class |-> CL_REQUEST]
            -> HandleStatusRequest(r, g)
       [] OTHER -> /\ learnt' = [from |-> r, got |-> Nothing]
                   /\ SendsNothing
                   /\ UNCHANGED phase
  /\ UNCHANGED <<device, added, descriptor>>

(* stun_free, and free of the bytes received: nothing is kept of one call  *)
(* for the next.                                                           *)
Release ==
  /\ call' = NoCall /\ wire' = NoMessage /\ learnt' = NothingLearnt
  /\ call # NoCall \/ learnt # NothingLearnt
  /\ UNCHANGED modelVars

Init ==
  /\ ModelInit
  /\ call = NoCall /\ wire = NoMessage
  /\ learnt = NothingLearnt

Next ==
  \/ Setup /\ UNCHANGED <<call, wire, learnt>>
  \/ Release
  \/ \E g \in Garbage :
       \/ SendKeepalive(g)
       \/ StoreStatus(g)
       \/ \E name \in EventNames, text \in Texts, cs \in Payloads :
            SendEvent(name, text, cs, g)
       \/ \E r \in Requests : ProcessMessage(r, g)

Spec == Init /\ [][Next]_vars
-----------------------------------------------------------------------------
(* Properties                                                              *)

IsSent == call.what # "none"
IsResponse == call.what \in {"response", "status"}

EventPayload ==
  IF call.text # NoText THEN <<Attr(ATTR_PAYLOAD, call.text)>>
  ELSE IF call.components = NoComponents THEN << >>
  ELSE <<Attr(ATTR_PAYLOAD, StructuredPayload(call.components))>>

(* The digits of the uuid: of 8, 4, 4, 4 and 12, with dashes between them. *)
UuidDigit(i) ==
  Uuid[i + (IF i <= 8 THEN 0 ELSE IF i <= 12 THEN 1 ELSE IF i <= 16 THEN 2
            ELSE IF i <= 20 THEN 3 ELSE 4)]

(* The attributes that the last message is meant to have.                  *)
Intended ==
  LET uuid == [i \in 1..16 |-> 16 * UuidDigit(2 * i - 1) + UuidDigit(2 * i)]
      status == BuildArguments(device.status.items, call.garbage)
  IN  <<Attr(ATTR_USERNAME, Username), Attr(ATTR_TIMESTAMP, U32(Now)),
        Attr(ATTR_LYNCPORT_ID, uuid)>>
        \o CASE call.what = "event" -> <<Attr(ATTR_NAME, call.name)>> \o EventPayload
             [] call.what \in {"store", "status"} -> <<Attr(ATTR_ARGUMENTS, status)>>
             [] OTHER -> << >>

IntendedType ==
  CASE call.what = "keepalive" -> [method |-> M_KEEP_ALIVE, class |-> CL_REQUEST]
    [] call.what = "event" -> [method |-> M_EVENT, class |-> CL_REQUEST]
    [] call.what = "store" -> [method |-> M_STORE_STATUS, class |-> CL_REQUEST]
    [] OTHER -> [method |-> call.to.method, class |-> CL_SUCCESS]

(* The message that is meant.                                              *)
Meant ==
  MessageLayout(IntendedType.method, IntendedType.class,
                IF IsResponse THEN call.to.trId ELSE OwnTrId, Intended)

(* Its last attribute starts at a place of 8 bits.                         *)
Fits == Len(Meant) - MacAttrLen <= 255

(* The bytes of every message are the ones of the layout, whatever malloc  *)
(* left in its memory and in whatever order the parts are written: a       *)
(* response has the method and the id of its request, the attributes       *)
(* follow one another without a gap and the padding is zero.               *)
WireAsLaidOut ==
  IsSent /\ Fits => Read(wire.bytes, 0, wire.length) = Meant

(* A message is accepted by the test that the device itself makes of what  *)
(* it receives: what was signed is what is verified, with the length that  *)
(* the message has in the end, and nothing is written after signing.       *)
IntegrityVerifies ==
  IsSent /\ Fits =>
    /\ WellFormed(wire.bytes, wire.length)
    /\ IntegrityCorrect(wire, "lower")

(* Each is a string or has the type that is declared under its name.       *)
Declared(cs, declared) ==
  \A j \in DOMAIN cs : IsString(cs[j]) \/ TypeNamed(cs[j].name, declared) = cs[j].type

(* A status that can be told apart from what malloc left in the mask, in   *)
(* which a string that is not the last component is as long as its name,   *)
(* and a number has no name that a component of another type had before.   *)
Orderly(cs, g) ==
  /\ \A j \in DOMAIN cs : cs[j].type # "none" /\ (IsString(cs[j]) \/ Bit(g, j - 1) = 0)
  /\ \A j \in 1..(Len(cs) - 1) : IsString(cs[j]) => Len(cs[j].value) = Len(cs[j].name)
  /\ Declared(cs, cs)

(* Whoever reads a message that tells the status as the device itself      *)
(* reads arguments gets the name and the value of every component.         *)
StatusReadable ==
  call.what \in {"store", "status"} /\ Fits /\ Orderly(device.status.items, call.garbage) =>
    ProcessArguments(AttributeValue(wire, ATTR_ARGUMENTS), device.status.items)
      = [ok |-> TRUE, dict |-> Meaning(device.status.items)]

(* The action that perform_action finds for a request, if any: the first   *)
(* under its name.                                                         *)
Asked(r) ==
  LET named == {i \in DOMAIN device.actions.items : device.actions.items[i].name = r.name}
  IN  {device.actions.items[i] : i \in {k \in named : \A l \in named : k <= l}}

(* An action function gets the arguments the server sent, each under its   *)
(* name, and every good request is understood; an error tells the device   *)
(* the code and the time that are in it.  Method and class are those that  *)
(* the server set, in both of the functions that read them.                *)
LearntIsMeant ==
  LET r == learnt.from
      bytes == Received(r).bytes
      got == learnt.got IN
  r # NoCall =>
    /\ GetMethodAndClass(bytes) = [method |-> r.method, class |-> r.class]
    /\ ProcessMethodAndClass(bytes) = GetMethodAndClass(bytes)
    /\ got.what = "action" => got.name = r.name /\ got.args = Meaning(r.args)
    /\ r.method = M_ACTION /\ r.class = CL_REQUEST /\ r.complete =>
         \A action \in Asked(r) : Declared(r.args, action.args.items) => got.what = "action"
    /\ got.what = "error" => got.code = r.code /\ got.time = r.time

(* The text of the payload of an event fits in its memory.                 *)
PayloadFits ==
  call.what = "event" /\ call.components # NoComponents =>
    PayloadLen(call.components) + 1 <= PayloadAllocated(call.components)

(* stun_message.h, of stun_add_attribute: it makes room for the attribute  *)
(* and updates all the fields of the message.  What was added is found     *)
(* again.                                                                  *)
AttributesAreFound ==
  IsSent => \A i \in DOMAIN Intended :
    LET a == Intended[i]
        p == GetAttribute(wire, a.type)
    IN  p # 0 /\ Read(wire.bytes, p, 4 + Len(a.value)) = SubSeq(AttrLayout(a), 1, 4 + Len(a.value))
=============================================================================
