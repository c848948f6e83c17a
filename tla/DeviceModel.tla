----------------------------- MODULE DeviceModel -----------------------------
(***************************************************************************)
(* What the user's setup() tells the library of the device (core/lhings.c):*)
(* status components, actions and events, in three lists that are made     *)
(* when the first item is added to them; and the descriptor generated from *)
(* them, a text whose length is computed before it is written.             *)
(***************************************************************************)
EXTENDS LhList, Bytes

CONSTANTS
  StatusOptions,  \* the status components setup() may add,
  ActionOptions,  \* the actions
  EventOptions,   \* and the events
  Infos,          \* what it may set this_device.info to
  MaxStatus,      \* bound: status components
  MaxActions,     \* bound: actions
  MaxEvents       \* bound: events

(* The length of a string that is NULL; a text is its length here.         *)
Null == -1
Strlen(s) == IF s = Null THEN 0 ELSE s
Lengths == Nat \cup {Null}

IsComponent(c) ==
  /\ c.name \in Seq(Nat)
  /\ c.type \in {"boolean", "integer", "timestamp", "float", "string", "none"}
  /\ c.type = "string" => c.value \in Seq(Nat)
  /\ c.type \notin {"string", "none"} => c.value \in Uint32
AreComponents(cs) ==
  /\ cs \in Seq({cs[i] : i \in DOMAIN cs})
  /\ \A i \in 1..Len(cs) : IsComponent(cs[i])

IsAction(a) ==
  a.name \in Seq(Nat) /\ a.description \in Lengths /\ AreComponents(a.args.items)
IsEvent(e) == e.name \in Seq(Nat) /\ AreComponents(e.components.items)

ASSUME ModelAssumption ==
  /\ \A c \in StatusOptions : IsComponent(c)
  /\ \A a \in ActionOptions : IsAction(a)
  /\ \A e \in EventOptions : IsEvent(e)
  /\ Infos \subseteq [model : Lengths, manufacturer : Lengths, kind : Lengths, serial : Lengths]

VARIABLES
  phase,      \* "setup", "running", "dead" (a NULL pointer was followed) or
              \* "hung" (in lh_list_add)
  device,     \* the three lists and the info of this_device
  added,      \* per list: what setup() has added, in order
  descriptor  \* the bytes allocated for the descriptor, and those written

modelVars == <<phase, device, added, descriptor>>

(* strlen of the type's name                                               *)
TypeLen(type) ==
  CASE type = "boolean" -> 7 [] type = "integer" -> 7 [] type = "timestamp" -> 9
    [] type = "float" -> 5 [] type = "string" -> 6 [] type = "none" -> 0

-----------------------------------------------------------------------------
(* lh_model_add_status_component, lh_model_add_action, lh_model_add_event. *)
Extended(list, e) == Add(IF list = NoList THEN NewList ELSE list, e)

AddTo(field, e) ==
  LET list == Extended(device[field], e) IN
  /\ device' = [device EXCEPT ![field] = list]
  /\ added' = [added EXCEPT ![field] = Append(@, e)]
  /\ phase' = IF list.stuck THEN "hung" ELSE phase
  /\ UNCHANGED descriptor

AddStatusComponent(c) ==
  /\ phase = "setup" /\ Len(device.status.items) < MaxStatus
  /\ AddTo("status", c)

AddAction(a) ==
  /\ phase = "setup" /\ Len(device.actions.items) < MaxActions
  /\ AddTo("actions", a)

AddEvent(e) ==
  /\ phase = "setup" /\ Len(device.events.items) < MaxEvents
  /\ AddTo("events", e)

-----------------------------------------------------------------------------
(* get_descriptor_len.  The four strings of the info are counted if the    *)
(* first is set.                                                           *)
MAX_STR_TYPE_LEN == 9
MIN_COMP_JSON_LEN == 22
MIN_ACTION_JSON_LEN == 40
MIN_EVENT_JSON_LEN == 27
MIN_DESCRIPTOR_JSON_LEN == 153

ComponentLen(c) == MIN_COMP_JSON_LEN + Len(c.name) + MAX_STR_TYPE_LEN
ActionLen(a) == MIN_ACTION_JSON_LEN + Len(a.name) + Strlen(a.description)
                  + SumOf(ComponentLen, a.args.items)
EventLen(e) == MIN_EVENT_JSON_LEN + Len(e.name) + SumOf(ComponentLen, e.components.items)

InfoLen(info) == IF info.model = Null THEN 0
                 ELSE info.model + info.manufacturer + info.kind + info.serial

DescriptorLen(d) ==
  MIN_DESCRIPTOR_JSON_LEN + InfoLen(d.info) + SumOf(ComponentLen, d.status.items)
    + SumOf(ActionLen, d.actions.items) + SumOf(EventLen, d.events.items)

(* malloc(json_len * sizeof str_json): the size of a pointer.  As if it    *)
(* was the size of a character, and as it is.                              *)
AllocatedChars(d) == DescriptorLen(d)
Allocated(d) == 8 * DescriptorLen(d)

(* add_components, add_actions, add_events, generate_descriptor: the       *)
(* characters written, with the commas between the items of a list.        *)
Commas(s) == IF s = << >> THEN 0 ELSE Len(s) - 1
ComponentText(c) == 21 + Len(c.name) + TypeLen(c.type)
ComponentsText(cs) == SumOf(ComponentText, cs) + Commas(cs)
ActionText(a) == 40 + Len(a.name) + Strlen(a.description) + ComponentsText(a.args.items)
EventText(e) == 27 + Len(e.name) + ComponentsText(e.components.items)

Written(d) ==
  134 + Strlen(d.info.model) + Strlen(d.info.manufacturer) + Strlen(d.info.kind)
    + Strlen(d.info.serial) + ComponentsText(d.status.items)
    + SumOf(ActionText, d.actions.items) + Commas(d.actions.items)
    + SumOf(EventText, d.events.items) + Commas(d.events.items) + 1

(* strlen of a NULL in get_descriptor_len, or the size of a NULL list in   *)
(* add_actions or add_events.                                              *)
FollowsNull(d) ==
  \/ d.info.model # Null /\ Null \in {d.info.manufacturer, d.info.kind, d.info.serial}
  \/ d.actions = NoList \/ d.events = NoList

(* setup() returns: the descriptor is generated.                           *)
GenerateDescriptor ==
  /\ phase = "setup"
  /\ IF FollowsNull(device)
       THEN phase' = "dead" /\ UNCHANGED descriptor
       ELSE /\ phase' = "running"
            /\ descriptor' = [allocated |-> Allocated(device), written |-> Written(device)]
  /\ UNCHANGED <<device, added>>

ModelInit ==
  /\ phase = "setup"
  /\ \E info \in Infos :
       device = [status |-> NoList, actions |-> NoList, events |-> NoList, info |-> info]
  /\ added = [status |-> << >>, actions |-> << >>, events |-> << >>]
  /\ descriptor = [allocated |-> 0, written |-> 0]

Setup ==
  \/ \E c \in StatusOptions : AddStatusComponent(c)
  \/ \E a \in ActionOptions : AddAction(a)
  \/ \E e \in EventOptions : AddEvent(e)
  \/ GenerateDescriptor
-----------------------------------------------------------------------------
(* Properties                                                              *)

(* The descriptor fits in the memory allocated for it, with its final      *)
(* zero.  The length computed is too small as soon as there are strings    *)
(* without a model name or many actions; what saves it is that the length  *)
(* is multiplied by the size of a pointer.                                 *)
DescriptorFits == descriptor.written <= descriptor.allocated

(* A list holds what was added to it, in order.  One whose capacity has    *)
(* wrapped around loses items, or nothing can be added to it any more, but *)
(* only if it had at least half of what 16 bits can count: below that no   *)
(* item is lost or refused, through any number of doublings.               *)
ListsGrow ==
  \A field \in {"status", "actions", "events"} :
    LET list == device[field] IN
    IF list.stuck \/ list.cut THEN Len(list.items) >= CapacityMod \div 2
    ELSE list.items = added[field]
=============================================================================
