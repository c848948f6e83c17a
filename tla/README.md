# Lhings C library: a TLA+ verification project

`src/` is the library that makes a Linux program a *device* of the Lhings
service. The application calls `lh_start_device`, which registers the device
over HTTP, tells the service what the device can do, and then runs a
single-threaded loop that exchanges authenticated STUN messages over UDP: it
sends keepalives, executes the actions the service asks for and reports the
status. This directory holds TLA+ models of that library, TLC configurations
that check them on small instances and TLAPS proofs of what matters most.

All line numbers below are of files under `src/`.

## 1. Inventory

| Component | Code | State | Operations |
|---|---|---|---|
| Device start-up | `core/lhings.c:186-218, 544-590` | `LH_Device` (name, API key, uuid), the `static int delay` of each retry function | get the key, look the uuid up or register and save it, `setup()`, descriptor loop, session loop, first keepalive |
| uuid storage | `abstraction/permanent-storage/storage_api.c` | the file `uuid.list`, shared by every device started in a directory; it survives the process | `lh_storage_get_uuid`, `lh_storage_save_uuid` |
| HTTP API | `core/http-comm/lhings_api.c`, `core/utils/lhings_json_api.c` | none here; the server's account | API key, register, descriptor, start and end session, store status, event |
| HTTP transport | `abstraction/http-comm/http_api.c` | none | `http_execute_request` |
| Main loop and handlers | `core/lhings.c:220-247, 332-375, 457-542, 592-596` | `last_keepalive`, `last_loop_execution`, the status components the user's code changes | keepalive when due, `process_messages`, `loop_driver` |
| Clock | `abstraction/timing/lhings_time.c` | `static uint32_t offset`, `init_time` | time with offset, correction from the server, milliseconds since start |
| UDP transport | `abstraction/udp-comm/udp_api.c` | `destination_addr`, `str_client_port`, `listener_sock_fd`; the process's descriptors | `lh_send_to_server`, `lh_receive_from_server` |
| STUN messages | `core/stun-messaging/stun_message.c` | a message being built | build, parse, add an attribute, integrity |
| Arguments and status payload | `core/lhings.c:249-330, 377-455` | none | decode the arguments of an action, encode the status |
| Device model and descriptor | `core/lhings.c:27-184, 601-741` | lists of actions, events and status components | add to the model, generate the JSON |
| List and dictionary | `core/utils/data_structures.c` | array with capacity; open-addressing hash table | add, get; put, get, remove, rehash |
| Logging, byte utilities, SHA-1/HMAC/base64, examples, tests | the rest | none that a property needs | |

How they interact:

- Start-up calls the HTTP API and the storage, in one order; the API keeps
  nothing, so what connects two launches of a device is `uuid.list` on one
  side and the server's account on the other. A fault between an effect on
  the server and its record in the file is what makes start-up hard.
- The loop calls the UDP transport for each datagram. The transport has three
  statics that outlive the calls, and every send opens a second socket on the
  listener's port.
- `process_messages` calls the user's action function between reading a
  request and answering it, and `loop_driver` calls the user's `loop()`; both
  may change the status which a later `send_status` reports.
- An error message that carries the server's time sets the static clock offset
  that every later message is stamped with.
- The API key is lower-cased in place when the first message is built
  (`stun_message.c:246-251`), and the integrity of messages received is
  computed with the key as it is then.

The hard parts are therefore: crashes, refusals and lost replies at every step
of start-up, followed by another launch; several devices on one file; retry
loops that must end and whose delays are static; a network that loses, delays,
duplicates, reorders and damages datagrams, against a device that does not
remember transaction ids (`lhings.c:496` says so); requests repeated across a
crash; late clock corrections in unsigned 32-bit arithmetic; early returns that
leave a descriptor open or a stale number in a static; two timers on
milliseconds that wrap and that can be set back; messages put together by hand
in memory that was not cleared, with places and capacities of 8 and 16 bits and
buffers whose size is counted apart from what is written to them.
`PROJECT.json` lists each of them under `hazards`, at the line where it bites.

What makes each component correct:

- *start-up and storage*: a device keeps one identity over all its launches and
  registers no more often than a fault made it lose a uuid; it is in its main
  loop only if the server knows its uuid, descriptor and session; it gets there
  in the end; the delays follow the back-off;
- *loop and handlers*: what was answered was done; calls of an action are no
  more than copies of its request; a status in an answer is not older than the
  question; every request is answered in the end; the server learns the
  device's address in the end;
- *clock*: a correction never leaves the device ahead of the server nor behind
  it by more than a datagram's life, and the clocks agree in the end;
- *UDP transport*: the listener is bound to the port that sends use, is never
  confused with another socket, does not block, and is not deprived of
  datagrams; descriptors are lost only in ways that are counted;
- *timers*: keepalives and calls of `loop()` come neither too early nor too
  late, across the wrap of the milliseconds and a change of the time of day;
- *messages, arguments, status*: what is sent is what the layout demands, what
  is signed is what is sent, a receiver that reads as the device does gets the
  names and values that were meant, and so does an action function;
- *device model*: lists keep what was added; the texts fit in their memory.

## 2. Plan

In order of importance. The models and the proofs named here are done.

1. `DeviceIdentity` (abstract registry), `DeviceStartup` (implements it),
   `DeviceStartupProofs`.
2. `MessageLoop`, which implements `RequestService`; `MessageLoopProofs`.
3. `UdpSockets`, `UdpSocketsProofs`.
4. `DictMap` (abstract map), `LhDict` (the open-addressing table, implements
   it), `LhDictProofs`; `LhList`.
5. `LoopTimers`, `LoopTimersProofs`.
6. `Bytes`, `StunMessage`, `ArgsCodec`, `DeviceModel`, composed in
   `DeviceMessages`; `DeviceDataProofs`, `DeviceMessagesProofs`.

Every invariant and action property that a run checks is proved; liveness is
not, since it is beyond the prover.

Left out of the plan: a composition of `DeviceStartup` and `MessageLoop` over
one process and its crashes. They share only the uuid and the API key, which
`RunningIsOnline` settles before the loop begins, so that the product would
multiply the states and add no interaction.

Abstract specifications: the registry, the map and the request service.

## 3. Modules

### DeviceIdentity

What the server may see of a set of devices: a device announces itself under
one identity, once and for all; no two share one; only an announced device
serves requests. It has no notion of files, retries or crashes.

### DeviceStartup

One process per device name. `at[d]` is the place in `lh_start_device`; there
is one action per step:

| Action | Code |
|---|---|
| `GetApiKey` | `lhings.c:547-555`, `lhings_api.c:93-124`; a failure returns 0, and the program ends |
| `LookupUuid` | `storage_api.c:26-49` |
| `Register` | `lhings.c:560-563`, `lhings_api.c:125-157` |
| `SaveUuid` | `storage_api.c:51-61`, result ignored at `lhings.c:565` |
| `Configure` | `setup()` and `generate_descriptor`, `lhings.c:572-577` |
| `SendDescriptor`, `StartSession` | one round of a retry loop, `lhings.c:186-218, 579-587` |
| `FirstKeepalive` | `lhings.c:590`: the key is lower-cased |
| `Launch`, `Crash` | whoever starts the program; its death at any point |

Each exchange with the server succeeds, is refused or does not arrive
(`http`), takes effect though the reply is lost (`lost_reply`), or has a reply
that cannot be parsed (`bad_body`); the file may be impossible to open
(`no_file`). Each fault costs one of the device's budget, and nothing else
fails. A uuid is the device and the number of the registration that granted
it, with its length; a device name is its length. That is what decides what
`fgets(buffer, 79, ...)` returns: a piece of 78 characters holds the name, the
`=` and 77 minus the length of the name of what follows, which `Room` and
`ReadBack` compute. Lines of two devices are taken not to interfere, so the file
is one sequence of lines per device and the last one counts; section 6 says for
which names that is not so.

### MessageLoop

One process, its loop unrolled in one action per call: `FirstKeepalive`,
`KeepaliveIfNeeded`, `Receive` (one datagram of `process_messages` up to the
switch over the method), `PerformAction`, `Respond` (`send_success_response`
and `send_status`), `LoopDriver`. The network delivers datagrams in any order
(`Deliver`), loses (`Lose`), duplicates (`Duplicate`) and damages (`Damage`)
them; any send may fail; the process may die and start again between any two
steps (`Crash`), on another port, with the statics of a new process. `Tick`
advances both clocks and the age of every datagram that carries a time.

The server (`Ask`, `HearKeepalive`, `HearAnswer`) is not in `src/`. It is
modelled from the messages the device understands and builds: it knows an
address from a keepalive, answers one with a bad timestamp with an error that
carries its time, and repeats a request that is not answered.

Data is abstracted to what the properties tell apart: a request has one of four
kinds (executed, refused by one of the early returns of `perform_action`,
status, a method the switch does not have); the status is the number of its
changes; a damaged datagram is noise, since well-formedness and HMAC detect the
damage; clocks are integers modulo `TimeMod`.

### RequestService

What the server may rely on, without datagrams, loop or crashes: an action is
performed at least once before its answer and no more often than copies of its
request were made; the answer to a status request is a status that the device
has had since it was asked; an answer stays. `MessageLoop` implements it
(`ServesRequests`) with `executed` for `done` and the server's `answer` for
`told`: a crash is at most a change of the status, everything the network does
is a stutter, but for a duplicate, which is another copy.

### LoopTimers

The two tests on unsigned differences of milliseconds
(`KeepaliveIfNeeded`, `lhings.c:228-237`; `LoopDriver`, `lhings.c:240-247`)
around `Receive`, each one step; `Tick` lets a millisecond pass, `Jump` sets
the time of day (`lh_get_absolute_time_millis` follows it). User code, called
in `Receive` and `LoopDriver`, may change the interval through
`lh_set_loop_frequency_secs`, whose product is taken modulo `Wrap`, or
`lh_set_loop_frequency_hz`; the interval is a `float`: `AsFloat` rounds to even
as the conversion does, in the assignment and in the comparison. `sinceLoop`,
`sinceKeepalive`, `asked` and the others below the comment are history.

### Bytes, StunMessage, ArgsCodec

Operators, no state. `Bytes` has memory as functions from positions to bytes,
the conversions of `utils.c` (always in network order, since `is_big_endian` is
tested without being called) and `malloc`, whose memory holds the byte that was
left in it. `StunMessage` has every function of `stun_message.c`: building
(`NewMessage`, `AddAttribute` with the place in 8 bits, `SetMethodAndClass`,
`SetIntegrity`) and reading (`WellFormed`, `GetAttribute`, `IntegrityCorrect`,
the two functions that read the type). A signature is the key and the bytes
that went into it, and where it was put. The search for an attribute goes on for
as long as it is before the end of the message, as in the code; where it would
read beyond it, it gets zeros. `ArgsCodec` has
`build_arguments_attribute` (`BuildArguments`) and
`process_arguments_attribute` (`ProcessArguments`), and the reference they are
compared with: `Layout`, the payload as it is meant, and `Meaning`, the values
by name. Bytes that `PutComponent` puts beyond the memory that was allocated are
dropped (section 6). Loops are recursive functions, one argument per round: `Filled` puts
the components into memory one after another, `ArgumentPlace` adds up the
lengths on the way to an argument.

### LhList, DeviceModel, DeviceMessages

`LhList` is the list of `data_structures.c:21-58`; a list that was cut or can
take no more because its capacity has wrapped says so. `DeviceModel` is what
`setup()` does to `this_device`: one action per `lh_model_add_*`, and
`GenerateDescriptor`, which computes the bytes allocated and the characters
written. `DeviceMessages` composes it with the other two: a device that was set
up sends a keepalive, an event or its status, or handles one message of the
server (`ProcessMessage`, with `HandleAction`, `HandleStatusRequest`,
`HandleError`), and then frees the message. `wire` is the message as it was
given to `lh_send_to_server`, `learnt` what was read out of the one received.
The server is not in `src/`: what it means by a message (a name and arguments,
a code and a time) goes with the message, and `ServerAssumption` relates it to
the attributes, none of which has to be there.
When and how often these calls are made, and what the network does, is in
`MessageLoop`; here it is what the bytes are.

### UdpSockets

The descriptors of the process and every system call of
`lh_send_to_server` (`SendOpen`, `SendBind`, `SendClose`) and
`lh_receive_from_server` (`Listen`, `Read`) with its failure. `open`,
`nonBlocking`, `onPort`, `elsewhere` are sets of descriptors, `listener` is the
static `listener_sock_fd`. `socket()` hands out the lowest free number; that is
how a number kept after a `close` comes to mean another socket. A datagram
(`Arrive`) goes to the socket bound last to the port. `misbound`, `failures`
and `leaked` count, for the properties, what has failed.

### DictMap, LhDict

`DictMap` is a map from keys to values. `LhDict` is the table of
`data_structures.c:60-211`: `items` maps slot numbers to a key and a value,
`size` is the counter, `crashed` says that a put has written through the NULL
that `dict_get_entry` returns in a table without room, or has divided by a
capacity of 0. `Entry` is the linear probing of `dict_get_entry`. `Rehashed` is
the growth: `Collected` is what the arrays of `dict_increase_and_rehash` hold,
`Doubled` the new capacity in `CapacityBits` bits (`data_structures.h:48`), and
`PutAgain` the `lh_dict_put` of one of the keys, which grows the new table in its
turn if that is overloaded. So it is if the capacity has wrapped: the default
table of 10 slots comes to 40960, the 20481st live key makes that 16384, the
rehashes nested in it 32768 and then 0, and the next put divides by it.
`KeysListed` lists the keys, slot after slot. `lh_dict_remove` leaves the
empty string in the slot (`Removed`), which is no longer counted and never
reused; that is why puts may run out of slots although the load factor of the
counted keys never passes one half. `Visited` is the loop over the first `size`
keys that both `free_args_dictionary` and `http_execute_request` make.

### MC modules

`MCDeviceStartup`, `MCMessageLoop`, `MCUdpSockets`, `MCLhDict`, `MCLoopTimers` and
`MCDeviceMessages` define the constants of the small instances.

### Proof modules

`DeviceStartupProofs`, `UdpSocketsProofs`, `MessageLoopProofs`, `LoopTimersProofs`,
`LhDictProofs` and `DeviceMessagesProofs` hold the theorems about the module they
are named after. `DeviceDataProofs` has what `DeviceMessagesProofs` uses of the
data a message is made of: the lemmas about lists, lengths of texts and `setup()`
with the invariant of `DeviceModel`, and those about the operators of `Bytes` and
`ArgsCodec`, up to the decoding of what was encoded.
`NumberTheorems` has the facts about remainders that counters and clocks need,
and two forms of induction over the numbers (section 5).

## 4. Runs

| Run | Question | Result |
|---|---|---|
| `startup_restart` | Two devices, names of 12 and 41 characters, two faults each of crash, refusal, lost reply, launched again whenever they stop: do they keep one identity, implement `DeviceIdentity` and come online for good? | holds |
| `startup_edge` | Three devices with all kinds of faults, with names of 12, 42 (the uuid is cut short when it is read back) and 78 (no uuid is left), one without actions: is what runs online, are registrations accounted for, do delays follow the law, and does the newest of several lines count? | holds |
| `startup_long_name` | Does the lookup return what was saved? | no, from 42 characters on |
| `loop_requests` | An action and a status request, up to two copies each besides duplicates, any two faults: was what was answered done, no more often than asked for, is the status fresh, and is it all the abstract service? | holds |
| `loop_liveness` | A status request and an action that is refused, three copies, one fault: are they answered, does the server learn the address? | holds |
| `loop_clock` | Clocks modulo 16, the device 5 ahead, datagrams live up to 2 ticks, one fault: is the lag bounded, do the clocks agree in the end? | holds |
| `sockets` | Four descriptors, any four failures: what does it take for the listener's number to mean another socket, does it hear, are descriptors accounted for, does the device keep sending? | holds |
| `dict` | Six keys that collide, a capacity of 4 bits for 16, tables of 1, 2 or 11 slots that grow, wrap or lose all their slots: is the table a map, does it count and list its keys, and what does it take to crash? | holds |
| `sockets_port` | Is the listener on the port of the sends? | no, if the first lookup of the server fails |
| `timers` | Milliseconds of 5 bits, floats of 3, intervals from 1 ms to more than the clock can count, the clock set by -9 to 5: are keepalives and `loop()` neither early nor late? | holds |
| `messages` | Devices of up to two status components, two actions and five events, every message they send, eleven kinds of message they get: do texts fit, lists keep what is added, messages have their layout and integrity, are statuses and arguments what was meant? | holds |
| `messages_long` | Are the attributes that were added to a message found in it? | no, in one longer than 255 bytes |

The three violations are the findings of `PROJECT.json`, each with the line of
the documentation that says otherwise:

1. *Names longer than 41 characters* (`storage_api.c:38`): the uuid saved is
   not the one looked up. With the uuid cut short, the server refuses every
   descriptor and the device retries for ever; from 77 characters on the
   lookup dereferences NULL.
2. *The listener can be on the wrong port* (`udp_api.c:144`): opened before a
   client port was chosen, it is never opened again.
3. *Messages longer than 255 bytes* (`stun_message.c:279`): the place of an
   attribute is a `uint8_t`, so that the next one, the integrity at the latest,
   is written over the header. In `messages` the properties about bytes are
   therefore stated for messages whose last attribute starts below 256
   (`Fits`, which looks at the message as it is meant), and events of exactly that length are among its inputs.

Other places where the code does not do what it says, on which no run is
spent:

- a registration whose reply holds no uuid counts as a success
  (`lhings_api.c:151`, `lhings.c:565`), and `fprintf` writes `(null)` as the
  uuid, which every later launch finds; `storage_api.h:56` promises a uuid. It
  is the fault `bad_body`, accounted for in `RunningIsOnline`;
- an action that was refused is answered with success (`lhings.c:531`);
  `AnsweredWasExecuted` is about those that are not refused;
- after a failure of the listener's `bind` and of a later send, the listener's
  number may belong to a blocking socket which that send left open, and
  `recvfrom` blocks (`udp_api.c:167`; `udp_api.h:51` rules it out);
  `ListenerIsItself` says that it takes both failures, and `KeepsSending` that
  short of them, and of running out of descriptors, the device goes on;
- a string component displaces those that follow it, unless its value is as
  long as its name (`lhings.c:445`; if the value is longer they end beyond the
  memory that was allocated, and what is written there is dropped in the model),
  and a component of four bytes may be told to be a string, as the mask is not
  cleared (`lhings.c:396`, the arguments of `memset` are swapped), against
  `lhings.h:60-61`: the real time value of a component can be checked.
  `StatusReadable` is what holds nevertheless, of statuses without the one and
  memory without the other (`Orderly`): it says under which conditions a status
  can be read, and that nothing else misplaces a component. Its third condition is the reader's: a number is decoded by the type of the
  first component of its name (`lhings.c:253-263`), so that one under the name
  of an earlier string makes the reader refuse the whole status. In the run,
  a string and a number share a name, and are added in either order;
- `lh_send_event` returns 1 though the event was not sent (`lhings.c:766`,
  against `lhings.h:319`); what it returns is not modelled.

### Bounds, and why they are enough

- *Devices*: two, in the runs where they interact; they share the file and the
  server only, so a third adds no kind of interaction. The proofs cover any
  number.
- *Fault budgets*: two or three where recovery is in question, so that a fault
  can be followed by another during the recovery from it. In `startup_edge` only
  the device with the ordinary name has three; the others are there for their
  names and have one and none, which keeps the run small.
- *Names*: 41 is the longest name whose uuid survives, 42 the shortest that
  does not, 78 is where no uuid is left in the piece.
- *Copies, InboxSize, MaxChanges*: two copies of a request are a repeat, and a
  duplicate makes a third; two datagrams in the inbox can be in either order;
  one change of the status before, between or after is what `StatusIsFresh`
  tells apart, and each crash makes another. In `loop_liveness` the number of
  copies must exceed what one fault can take away (a crash takes the copy in
  flight, the one in the inbox and the one in hand), so it is three.
- *TimeMod = 16* for 2^32: the skew of 5, the tolerance and the lives of
  datagrams are all far below half of it, and the clocks wrap many times in a
  run. `MaxLife = 2` lets two errors of different age be in flight together.
- *KeepaliveTicks*: 1 or 2 where keepalives after the first matter
  (`loop_liveness`, `loop_clock`), so that several rounds of the loop pass
  without one; 0 where they do not.
- *Dictionary*: `CapacityBits = 4` stands for 16. The tables of 1 and 2 slots come
  to 8, where a fifth live key makes the capacity 0; that of 11 slots gets 6 at
  the sixth live key, and 12 as the keys are put again, so that it survives.
  Keys collide in every size of the table and their search wraps around its end.
  One of the keys is removed (`Removable`) and put again, as often as there are
  slots; another has two values (`Puts`). To do both with each of the six would
  make the run too long; the proofs have no such bound. States are finite.
- *Timers*: `Wrap = 32`, `Period = 5`, `Second = 3` and `FloatExact = 4` keep the
  order of the real constants (a period is a few rounds and far below the wrap;
  11 seconds are more than the clock can count, 6 are more than half of it, so
  that signed differences would show; intervals above 8 are rounded). A step of
  the loop takes up to `MaxStep = 1`, a round up to 3. The clock is set at most
  once between two keepalives and two calls of `loop()`, on or back, by less or
  more than a period.
- *Lists*: `CapacityBits = 3` and an initial capacity of 2 for 16 and 10: the
  third item doubles the capacity, the fifth wraps it.
- *Components and messages*: two status components give every pair of a number,
  a boolean, a string as long as its name and one that is not, in either order;
  the action has three arguments, which arrive in another order than they are
  declared in, and other requests lack an attribute, have an argument that is
  not declared or name an action the device does not have. `malloc` leaves zeros
  or 165, which has four bits set. Methods,
  attributes and header are those of the code, in full width.
- *Fds*: four, as many as there are failures, so that they may all be lost; the
  proofs cover any finite set.

### Deadlock

`CHECK_DEADLOCK FALSE` is said for `DeviceStartup`, whose devices all run their
main loop in the end and take no further step there, for `UdpSockets`, whose
loop stops in a blocked `recvfrom`, for `LhDict`, where the process dies in
a put without room or slots, and for `DeviceMessages`, where it dies of a NULL pointer or
is caught in `lh_list_add`. `MessageLoop` and `LoopTimers` are checked for
deadlock: the loop never stops.

### Fairness, and why the code justifies it

- `DeviceStartup`: weak fairness of each process's next step. Nothing in
  `lh_start_device` blocks for ever, if libcurl returns from each exchange (the
  code sets no timeout, so this is an assumption on libcurl and the peer), and
  `lh_sleep` ends. `RelaunchSpec` adds that somebody starts a device that has
  stopped; only `ComesOnline` needs it. There is no fairness on success: an
  exchange succeeds because the fault budget is spent.
- `MessageLoop`: weak fairness of the loop as a whole (one thread; the user's
  functions return), of the passing of time, of the server's repeats, and of
  delivery: a datagram that is not lost arrives. Delivery of a request is fair
  by request, since otherwise errors could overtake it for ever. Loss,
  duplication, damage, failure to send and crash have no fairness.
- `UdpSockets`: system calls return (weak fairness of `Progress`); a keepalive
  is due again and again (strong fairness of `SendOpen`, as the loop passes
  `send_keepalive_if_needed` again and again and time passes).

## 5. Proofs

Assumed are only the named assumptions on the constants, which TLC evaluates in
each run, and one hypothesis that `DescriptorAlwaysFits` names. What they ask:

| Assumption | Asks for | In the code |
|---|---|---|
| `ConstantsAssumption`, `SocketsAssumption`, `LoopAssumption` | types only; a finite set of descriptors, a clock that counts to some number | |
| `TimersAssumption` | a second is below `Wrap`; `Wrap <= 512 * FloatExact`; a period and a round are below `Wrap` | 2^32 milliseconds are 49 days, and 2^32 is 512 times the `FloatExact` = 2^23 of a float, which counts exactly up to twice that |
| `DictAssumption` | the hash of a key is any number; an initial capacity from 1 to what the capacity's bits count; NULL and the empty string are no keys, and NULL is not a value | `src/` makes dictionaries of the default capacity 10 only; `lh_dict_new_custom_capacity` truncates an `int`, so that 65536 gives a table that the first put divides by 0 in. See section 6 for the empty string |
| `ListAssumption` | an initial capacity from 1 to what the counter holds | 16 and 10 in 16 bits |
| `ModelAssumption` | types only | |
| `MessagesAssumption` | uuids of 36 characters with their dashes in place, ids of 12 bytes, methods of 12 bits, classes of 2, types of attributes of 16 bits, a time of 32 bits, bytes in the memory of `malloc`, at most eight status components | the form the service gives, the layout of STUN, the types in C, and the limit that the documentation states |
| `ServerAssumption` | a message of the server has at most 2047 bytes; what it means by the request of an action is at most eight arguments, each with a length that a byte holds; what is in its attributes is what it means | the buffer of `MAXBUFLEN` (`udp_api.h:36`), into which one byte less is received; the layout of `ATTR_ARGUMENTS`. Whether a name, arguments, a code or a time are there at all is left open |
| `UnnamedAreShort` (hypothesis) | manufacturer, type and serial number of a device *without a model name* have at most 1089 characters together | the code does not count them; 1089 is what its eightfold allocation has to spare |

`DeviceStartupProofs`, for any set of devices, names, faults and budgets:

| Theorem | Says | By |
|---|---|---|
| `TypeCorrect` | `Spec => []TypeOK` | induction over the actions |
| `RunningOnline` | `Spec => []RunningIsOnline` | `AllRecorded`: whole uuids in memory and file were granted to the device, and the server has what the place in the code presumes. `RunningIsOnline` alone is not inductive: it says nothing of the uuid that is about to be used for a session, nor of the file it is read from. |
| `RegistrationsBounded` | `Spec => []RegistrationsAccounted` | `AllAccounted`: a device without a line that is not about to save one has a fault for each registration, and all lines but one have theirs |
| `RetriesPaced` | `Spec => []BackoffLaw` | the doubling stays in the set of delays; the law is inductive with `TypeOK` |
| `IdentityUnique` | `Spec => []OneIdentity` | `AllOneLine`: while the file can be opened a device has at most one line, and its process past the lookup and its sessions hold the uuid of that line |
| `NotRegisteredAgain` | `Spec => NoReRegistration` | if the file can be opened, the same invariant: at `register` the device has no line; if not, `AllAccounted`, which counts the lines against the faults |
| `NewestCounts` | `Spec => []NewestIdentity` | `AllOrdered`: lines are in the order of registration, but for those without a uuid, and what a process past the lookup holds is not older than any. A line without a uuid may be the last, so that "the last is the newest" is not inductive. |
| `ImplementsIdentity` | the start-up implements `DeviceIdentity` if no name is of length 0 or above 78 and the file can be opened | each step announces, enters, leaves or stutters (`StepRefines`), with `Inv`, the conjunction of the invariants above |

The lemma `MoveFrame` states once what the action of one device leaves alone of
another's state, so that the preservation of each invariant is proved device by
device.

`UdpSocketsProofs`, for any finite set of descriptors and any failures:

| Theorem | Says | By |
|---|---|---|
| `SocketsTypeCorrect` | `Spec => []TypeOK` | together with `Roles` (`TypeOK` says that `onPort` and the others are subsets of `open`, which needs `Roles` to be preserved) |
| `ListenerAlwaysHears` | no socket a send left open is on the listener's port | `Roles`: only the listener and the socket of the send in progress are ever on the port |
| `ListenerStaysItself` | the listener's number is stale only after its own bind failed; between sends it means another socket, and reading blocks, only if a send left its socket open too | `Roles`, and `DescriptorsAccounted` for the second: a socket that is open between sends and is not the listener was counted as leaked |
| `DescriptorsCounted` | `Cardinality(open)` is the listener, the send in progress and the leaked sends | `AccountedNext`, with the cardinality of a set with one element more or less |

`MessageLoopProofs`, for any requests, numbers of copies and faults, lives of
datagrams and width of the clock. All six theorems follow from one invariant,
`Inv`:

| Part of `Inv` | Says | Why it is needed |
|---|---|---|
| `TypeOK`, `ExecutionsAccounted` | as checked | the accounts count copies in flight, in the inbox and in hand, which only their types make finite |
| `Bounded` | no counter is beyond its bound, no answer in flight tells a status of the future, and a step that works on a request has one | the bounds of `TypeOK` are not inductive: a crash changes the status, a duplicate makes a copy |
| `PresentWasSent` | of a request that is in flight, in hand or answered, a copy was sent | so that a request seen for the first time has no answer yet, and the status when it was asked is the one of `Ask` |
| `AnswersAreDue` | an answer in flight, taken or about to be sent is due: the action was executed, the status is from the time between question and now | `AnsweredWasExecuted` and `StatusIsFresh` speak of answers that were taken only |
| `ErrorsAreRecent` | the time in an error is no older than its age, the device's clock no farther behind than the life of a datagram | `LagIsBounded` says nothing of the corrections that are still under way |

| Theorem | Says |
|---|---|
| `LoopTypeCorrect` | `Spec => []TypeOK` |
| `AnswersFollowExecution` | `Spec => []AnsweredWasExecuted`, from `AnswersAreDue` |
| `ExecutionsBounded` | `Spec => []ExecutionsAccounted`, inductive with `TypeOK` |
| `StatusAlwaysFresh` | `Spec => []StatusIsFresh`, from `AnswersAreDue` |
| `LagAlwaysBounded` | `Spec => []LagIsBounded`, from `ErrorsAreRecent`, with the arithmetic of `NumberTheorems` for the wrap |
| `ImplementsService` | `Spec => ServesRequests`: each step performs, tells, asks again, changes the status or stutters |

`LoopTimersProofs`, for milliseconds and floats of any width, any period and
intervals, and a time of day that is set any number of times:

| Theorem | Says | By |
|---|---|---|
| `KeepalivesStaySpaced` | never two keepalives within a period | `ClockLags`: a difference modulo `Wrap` is at most the time that has passed |
| `KeepalivesStayFrequent` | no keepalive later than a period and a round, and as much again for each time that the clock was set | `KeepaliveOnTime`: a keepalive is due, or the clock shows all the time that may not be lost; it counts what may pass until the next look at the clock (`ToKeepalive`) |
| `LoopIsNotEarly` | `loop()` not before its interval, up to what the float rounds | `ClockLags`, `IntervalIsAsked`, and that rounding keeps the order |
| `LoopIsNotLate` | `loop()` within the interval and a round, if this is below the wrap | `LoopOnTime` |

`LhDictProofs`, for any keys, hash, initial capacity and number of bits that the
capacity is kept in:

| Theorem | Says | By |
|---|---|---|
| `DictTypeCorrect`, `SizeCountsLive`, `LoopsMissNoMore` | `TypeOK`, `SizeIsLive` and `LoopsMissRemoved` always hold | `Inv`, below |
| `OnlyRemovalsOrWrapCrash` | a crash takes removed keys in half of the slots, or more live keys than a quarter of what the capacity counts: 16384 in 16 bits | `Inv`; while the keys are fewer, a table that is overloaded has a capacity below half of what can be counted, so that doubling does not wrap |
| `TableIsMap` | `Spec => ImplementsMap`, with the map `DictMap` | `Findable`, part of `Inv` |

The bound of `OnlyRemovalsOrWrapCrash` is for any initial capacity; from 10 slots
it is the 20481st live key, and not the 16385th, that wraps.

`Inv` says that there is a capacity for which the table is good: every slot has
a key and a value or none, `size` is the number of live keys and at most half of
the capacity, a crash needs what is said above, and the table is `Findable`:
from the hash of each key in it, the search comes to its slot without stopping
at an empty one. Without `Findable` a put might add a key that is there, and
nothing could be said of the map. That `Entry` returns the first slot where the
search stops, and that `Rehashed` loses no key, is proved by the least slot that
would break it.

`DeviceMessagesProofs`, for any account, device, texts, requests, and bytes left
in memory, with lists of any width:

| Theorem | Says | By |
|---|---|---|
| `ListsAlwaysGrow` | lists below half of what their counter holds lose and refuse nothing | `ModelInv` (of `DeviceDataProofs`): a list is what was added as long as the counter cannot have wrapped |
| `DescriptorAlwaysFits` | under `UnnamedAreShort` the descriptor is no longer than its memory | a bound per component, argument, action and event, and for sums of them |
| `PayloadAlwaysFits` | neither is the payload of an event | the same lemmas |
| `WireAlwaysAsLaidOut` | `Spec => []WireAsLaidOut` | `WireInv`, below |
| `IntegrityAlwaysVerifies` | `Spec => []IntegrityVerifies` | `WireInv` |
| `HeadersAreRead` | both functions that read the type of a message get the method and class that any message was laid out with, and its id | the twelve bits of the method, in quotients and remainders |
| `AttributesAreRead` | the search for a type in a message of the server finds an attribute of that type and gets the value it was sent with, or finds none as there is none | `Spread` and `FirstIsFound`, below |
| `StatusAlwaysReadable` | `Spec => []StatusReadable` | `StatusInv`, `BuildEncodes`, `EncodedIsRead`, and `WireInv` for the message around it |
| `LearntAlwaysMeant` | `Spec => []LearntIsMeant` | `LearntInv`, `LayoutEncodes`, `EncodedIsRead`, `AttributesAreRead`, `HeadersAreRead` |

`WireInv` says that the message sent last is `Sound`: if it is one that fits, its
bytes are the layout of its type, its id and its attributes, and its own test
of integrity passes. It is kept because every function of `stun_message.c` keeps
a message that `Carries` a type, an id and attributes up to a place, whatever
is in its memory beyond: `NewMessage` makes one that carries none,
`AddAttribute` adds one at the end, with room for it or after `realloc`,
`SetMethodAndClass` and the id change only the header, and `SetIntegrity` turns
what is carried into what is laid out. The two other conjuncts of `WireInv` say
that nothing is sent while `setup()` runs and that the components of an event
are components.

*Encoding and decoding.* `Encodes` (of `DeviceDataProofs`) says what bytes are an
encoding of components: their number, their lengths, the mask with the bit of
every string and of nothing else, and each component at the place where the
lengths before it add up to. `BuildEncodes` shows it of what the device builds,
by an invariant over the rounds of the loop (`Partly`: what was put in stays
when the next is put in behind it, and `n` bits of the mask are set so far),
provided that strings leave the position where it belongs (`Orderly`);
`LayoutEncodes` shows it of the layout that the server sends. `EncodedIsRead`
is the other half: whatever `Encodes` the components is decoded into their
names and values. An argument whose name is declared under another type is
refused as a whole, so that `LearntIsMeant` says of every request that is
executed that it has the right arguments, and only of the requests whose
numbers are declared (`Declared`) that they are executed.

*Searching.* `Spread` says that attributes lie in a message one after another
from the end of the header on, each with its padding, up to the end.
`SkippedAttributes` follows `GetAttribute` over those of another type, by
induction over their number, and `FirstIsFound` is what it comes to. The search
never reads a value for a type, since no step ends within an attribute; that the
message fits in 2047 bytes keeps the lengths in their 16 bits.

*The invariants.* `StatusReadable` is not inductive: it takes that a device has
no more components than the mask has bits, also while they are added, and that
the message was made in memory of bytes (`StatusInv`). `LearntIsMeant` is
about what is learnt in the step itself; `LearntInv` keeps, next to it, that
nothing is learnt while `setup()` can still change what the device declares.

Recursion over lists and slots is written with recursive functions, and what
they compute is proved for every length by `LeastNatural` and
`NaturalInduction` (`NumberTheorems`), which are about sets of numbers: the
library's induction theorems take an operator, which the provers cannot
instantiate.

### Only model-checked

- Every liveness property (`ComesOnline`, `EveryRequestAnswered`,
  `BecomesReachable`, `ClockSettles`, `KeepsSending`): liveness under fairness and `ENABLED` are beyond the prover.

No module uses a `RECURSIVE` operator.

## 6. What the models leave out

- *HTTP and JSON text*, formatting and logging: exchanges are modelled by their
  outcomes and effects.
- *HMAC*: a signature is symbolic, so that a damaged datagram is always
  detected. The messages that arrive in `DeviceMessages` are those a correct
  server sends (`ServerAssumption`): none lacks the integrity attribute, and none
  has attributes or components that reach beyond its end. So `IntegrityCorrect`
  is about messages of at least 24 bytes; in a shorter one the `uint16_t inlen`
  (`stun_message.c:104`) wraps. What `stun_get_attribute` reads beyond the end of
  a malformed message is taken for zeros.
- *Memory*: leaks, and the sizes of buffers other than the one that decides
  what the uuid lookup returns and the two that are computed before a text is
  written. The bytes that `malloc` leaves are all the same. Writes beyond the
  block of the status (`lhings.c:445`) are dropped, where the code
  overwrites what is behind it on the heap.
- *The text of descriptors and payloads*: only lengths; a number takes the 15
  characters its buffer has. With a NULL model name the other strings of the
  device's information are not counted in the length, and what they may add is
  limited by the eightfold allocation: about a thousand characters.
- *The clock's fractions of a millisecond*, which may make a reading one
  millisecond longer or shorter.
- *The moment before the listener is open*: it is opened after the first
  keepalive was sent, so that an answer that comes at once finds no socket.
  `MessageLoop` counts that as a loss.
- *More than eight status components*: `build_arguments_attribute` then returns
  NULL without setting the length; the models presume a device with at most
  eight, as the documentation demands.
- *Keepalives of a dead process*: dropped by `Crash`; they would announce a
  port that nobody listens on, until the next keepalive.
- *User code that sends*: `lh_send_event` and `lh_store_status` called from
  `loop()` or an action are further sends; a send between two receives is
  modelled as an answer or a keepalive. Other users of the process's
  descriptors are ignored.
- *The empty string as a key* of a dictionary, which the table uses as the mark
  of a removed key.
- *Names with a `=`* are given length 0, as they never match a line; a
  registration of such a device at each launch is what the code does, and
  `Matches` excludes it from the accounting. But a line is split at its first
  `=` (`storage_api.c:39-44`): what a device `a=b` writes is read as a line of a
  device `a`, if there is one, and gives it a piece of the other's line for its
  uuid. The models presume that there is none.
- *Second pieces of long lines*: a line longer than 78 characters is read in two
  pieces, and the second is taken for a line too. If it holds a `=`, after a part
  of a name of more than 78 characters, it is one of a device named like that
  part; otherwise its name is the end of the uuid with the newline behind it.
  The models presume that no device has such a name.
- *Capacities of a dictionary of 65536 and more*, which nothing in `src/` asks for.
