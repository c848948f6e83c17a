---------------------------- MODULE DeviceStartup ----------------------------
(***************************************************************************)
(* lh_start_device (core/lhings.c) up to the door of its endless loop: the *)
(* API key, the uuid looked up in the file uuid.list or obtained by        *)
(* registering the device, setup(), the descriptor, the session, the first *)
(* keepalive.  Every device is a process that is launched, may stop at any *)
(* point and may be launched again; what survives is the file and what the *)
(* Lhings server has recorded.                                             *)
(*                                                                         *)
(* The server is not in src/: Accepts and the three server variables are   *)
(* modelled from the requests of http-comm/lhings_api.c and the replies it *)
(* expects.                                                                *)
(***************************************************************************)
EXTENDS Integers, Sequences

CONSTANTS
  Devices,      \* device names; one process runs under each
  NameLen,      \* strlen of each name; 0 also stands for a name with a '='
  Complete,     \* devices whose setup() adds at least one action and one event
  Faults,       \* the kinds of fault that may happen
  FaultBudget   \* bound on the faults that hit each device

FaultKinds == {"crash", "http", "lost_reply", "bad_body", "no_file"}

ASSUME ConstantsAssumption ==
  /\ NameLen \in [Devices -> Nat]
  /\ Complete \subseteq Devices
  /\ Faults \subseteq FaultKinds
  /\ FaultBudget \in [Devices -> Nat]

FgetsMax == 78      \* fgets(buffer, 79, ...) returns at most 78 characters
UuidLen == 36
NullTextLen == 6    \* fprintf of a NULL uuid writes "(null)"
MaxDelay == 120     \* MAX_DELAY_BETWEEN_RETRIES_SECS
Delays == {1, 2, 4, 8, 16, 32, 64, MaxDelay}

Places == {"off", "apiKey", "lookup", "register", "save", "setup",
           "descriptor", "session", "keepalive", "running"}

(***************************************************************************)
(* A uuid string: the device it was granted to, the number of the          *)
(* registration that granted it (0: none did) and its length (0: NULL).    *)
(***************************************************************************)
Uuid == [dev : Devices, n : Nat, len : 0..UuidLen]
NoUuid(d) == [dev |-> d, n |-> 0, len |-> 0]

VARIABLES
  at,           \* per device: where its process is in lh_start_device
  key,          \* per device: the API key, as sent by the server or lower-cased
  uuid,         \* per device: the uuid in memory
  descDelay,    \* per device: the static of retry_send_device_descriptor
  sessDelay,    \* per device: the static of retry_start_session
  file,         \* per device: the uuids of its lines in uuid.list, in order
  regs,         \* server: registrations granted to each device
  described,    \* server: uuids that have a descriptor
  sessions,     \* server: uuids that have been put online
  faults,       \* per device: faults so far
  lost          \* per device: those that kept its uuid from uuid.list

memory == <<key, uuid, descDelay, sessDelay>>
server == <<regs, described, sessions>>
vars == <<at, key, uuid, descDelay, sessDelay,
          file, regs, described, sessions, faults, lost>>

hits == <<faults, lost>>

(* A fault that keeps the uuid of the device from being put in uuid.list,  *)
(* or one that is in it from being found there.                            *)
Loses(d, kind) ==
  \/ kind = "lost_reply" /\ at[d] = "register"
  \/ kind = "no_file" /\ at[d] = "lookup" /\ file[d] # << >>
  \/ at[d] = "save"

Fault(d, kind) ==
  /\ kind \in Faults
  /\ faults[d] < FaultBudget[d]
  /\ faults' = [faults EXCEPT ![d] = @ + 1]
  /\ lost' = [lost EXCEPT ![d] = IF Loses(d, kind) THEN @ + 1 ELSE @]

GoTo(d, place) == at' = [at EXCEPT ![d] = place]

(* The process ends: its memory is gone.                                   *)
Stop(d) ==
  /\ GoTo(d, "off")
  /\ key' = [key EXCEPT ![d] = "none"]
  /\ uuid' = [uuid EXCEPT ![d] = NoUuid(d)]
  /\ descDelay' = [descDelay EXCEPT ![d] = 1]
  /\ sessDelay' = [sessDelay EXCEPT ![d] = 1]

Accepts(u) == u.len = UuidLen /\ u.n \in 1..regs[u.dev]

(* As it would be without the cap.                                         *)
DoubleDelayUncapped(delay) == 2 * delay

DoubleDelay(delay) == IF 2 * delay > MaxDelay THEN MaxDelay ELSE 2 * delay

-----------------------------------------------------------------------------
(* uuid.list                                                               *)

(* A line is "name=uuid\n" and is read in pieces of FgetsMax characters:   *)
(* a longer name never equals the piece before the '='.  Only a device's   *)
(* own lines are taken to match its name.  Not modelled: a device "a=b"    *)
(* writes lines that are read as lines of a device "a", and the second     *)
(* piece of a line that is too long may be one of a device named like it.  *)
Matches(d) == NameLen[d] \in 1..FgetsMax

(* As if the piece had to hold the newline too.                            *)
RoomShort(d) == FgetsMax - NameLen[d] - 2

Room(d) == FgetsMax - NameLen[d] - 1

(* As if a line had to be shorter than the buffer.                         *)
FoundWhole(d) == Matches(d) /\ file[d] # << >> /\ Room(d) > UuidLen

Found(d) == Matches(d) /\ file[d] # << >>

(* As if the first line of the device counted, and as it is.               *)
LatestFirst(d) == file[d][1]
Latest(d) == file[d][Len(file[d])]

ReadBack(d) ==
  [Latest(d) EXCEPT !.len = IF @ <= Room(d) THEN @ ELSE Room(d)]

Written(u) == IF u.len = 0 THEN [u EXCEPT !.len = NullTextLen] ELSE u

-----------------------------------------------------------------------------
(* The calls of the HTTP API.  A call fails if the request does not reach  *)
(* the server or is refused ("http"), or if the server has done its part   *)
(* and the reply is lost ("lost_reply") or cannot be parsed ("bad_body").  *)

ApiGetApiKey(d, success) ==
  \/ success /\ UNCHANGED hits
  \/ ~success /\ \E kind \in {"http", "bad_body"} : Fault(d, kind)

(* A reply that cannot be parsed leaves the uuid NULL and is a success.    *)
ApiRegisterDevice(d, success) ==
  \/ /\ success
     /\ regs' = [regs EXCEPT ![d] = @ + 1]
     /\ \/ /\ uuid' = [uuid EXCEPT ![d] =
                 [dev |-> d, n |-> regs[d] + 1, len |-> UuidLen]]
           /\ UNCHANGED hits
        \/ Fault(d, "bad_body") /\ UNCHANGED uuid
  \/ /\ ~success
     /\ \/ Fault(d, "lost_reply") /\ regs' = [regs EXCEPT ![d] = @ + 1]
        \/ Fault(d, "http") /\ UNCHANGED regs

ApiSendDescriptor(d, success) ==
  \/ /\ Accepts(uuid[d])
     /\ described' = described \cup {uuid[d]}
     /\ IF success THEN UNCHANGED hits ELSE Fault(d, "lost_reply")
  \/ /\ ~success /\ UNCHANGED described
     /\ Fault(d, "http") \/ (~Accepts(uuid[d]) /\ UNCHANGED hits)

ApiStartSession(d, success) ==
  \/ /\ Accepts(uuid[d])
     /\ sessions' = sessions \cup {uuid[d]}
     /\ IF success THEN UNCHANGED hits ELSE Fault(d, "lost_reply")
  \/ /\ ~success /\ UNCHANGED sessions
     /\ Fault(d, "http") \/ (~Accepts(uuid[d]) /\ UNCHANGED hits)

-----------------------------------------------------------------------------
Init ==
  /\ at = [d \in Devices |-> "off"]
  /\ key = [d \in Devices |-> "none"]
  /\ uuid = [d \in Devices |-> NoUuid(d)]
  /\ descDelay = [d \in Devices |-> 1]
  /\ sessDelay = [d \in Devices |-> 1]
  /\ file = [d \in Devices |-> << >>]
  /\ regs = [d \in Devices |-> 0]
  /\ described = {}
  /\ sessions = {}
  /\ faults = [d \in Devices |-> 0]
  /\ lost = [d \in Devices |-> 0]

Launch(d) ==
  /\ at[d] = "off"
  /\ GoTo(d, "apiKey")
  /\ UNCHANGED <<memory, file, server, hits>>

GetApiKey(d) ==
  /\ at[d] = "apiKey"
  /\ \/ /\ ApiGetApiKey(d, TRUE)
        /\ GoTo(d, "lookup")
        /\ key' = [key EXCEPT ![d] = "asSent"]
        /\ UNCHANGED <<uuid, descDelay, sessDelay>>
     \/ ApiGetApiKey(d, FALSE) /\ Stop(d)
  /\ UNCHANGED <<file, server>>

(* Without the test for a line that holds no uuid.                         *)
LookupUuidUnguarded(d) ==
  /\ at[d] = "lookup"
  /\ \/ ~Found(d) /\ GoTo(d, "register") /\ UNCHANGED memory
     \/ /\ Found(d)
        /\ GoTo(d, "setup")
        /\ uuid' = [uuid EXCEPT ![d] = ReadBack(d)]
        /\ UNCHANGED <<key, descDelay, sessDelay>>
  /\ UNCHANGED <<file, server, hits>>

(* A file that cannot be opened reads like a device that was never         *)
(* registered; a name of 77 or 78 characters leaves no uuid in the piece   *)
(* and strlen(NULL) kills the process.                                     *)
LookupUuid(d) ==
  /\ at[d] = "lookup"
  /\ \/ /\ \/ Fault(d, "no_file")
           \/ ~Found(d) /\ UNCHANGED hits
        /\ GoTo(d, "register")
        /\ UNCHANGED memory
     \/ /\ Found(d) /\ Room(d) > 0
        /\ GoTo(d, "setup")
        /\ uuid' = [uuid EXCEPT ![d] = ReadBack(d)]
        /\ UNCHANGED <<key, descDelay, sessDelay, hits>>
     \/ /\ Found(d) /\ Room(d) <= 0
        /\ Stop(d)
        /\ UNCHANGED hits
  /\ UNCHANGED <<file, server>>

Register(d) ==
  /\ at[d] = "register"
  /\ \/ /\ ApiRegisterDevice(d, TRUE)
        /\ GoTo(d, "save")
        /\ UNCHANGED <<key, descDelay, sessDelay>>
     \/ ApiRegisterDevice(d, FALSE) /\ Stop(d)
  /\ UNCHANGED <<file, described, sessions>>

(* With the uuid kept in memory only.                                      *)
SaveUuidNowhere(d) ==
  /\ at[d] = "save"
  /\ GoTo(d, "setup")
  /\ UNCHANGED <<memory, file, server, hits>>

(* What lh_storage_save_uuid returns is not looked at.                     *)
SaveUuid(d) ==
  /\ at[d] = "save"
  /\ \/ /\ file' = [file EXCEPT ![d] = Append(@, Written(uuid[d]))]
        /\ UNCHANGED hits
     \/ Fault(d, "no_file") /\ UNCHANGED file
  /\ GoTo(d, "setup")
  /\ UNCHANGED <<memory, server>>

(* setup(), then generate_descriptor, which reads the sizes of the lists   *)
(* of actions and of events: they are NULL if setup() adds none.           *)
Configure(d) ==
  /\ at[d] = "setup"
  /\ \/ d \in Complete /\ GoTo(d, "descriptor") /\ UNCHANGED memory
     \/ d \notin Complete /\ Stop(d)
  /\ UNCHANGED <<file, server, hits>>

(* One round of the loop around retry_send_device_descriptor: the URL is   *)
(* built from the uuid, which kills the process if it is NULL.             *)
SendDescriptor(d) ==
  /\ at[d] = "descriptor"
  /\ \/ uuid[d].len = 0 /\ Stop(d) /\ UNCHANGED <<described, hits>>
     \/ /\ uuid[d].len # 0
        /\ \/ ApiSendDescriptor(d, TRUE) /\ GoTo(d, "session")
           \/ ApiSendDescriptor(d, FALSE) /\ UNCHANGED at
        /\ descDelay' = [descDelay EXCEPT ![d] = DoubleDelay(@)]
        /\ UNCHANGED <<key, uuid, sessDelay>>
  /\ UNCHANGED <<file, regs, sessions>>

(* With one attempt, whatever its result.                                  *)
StartSessionOnce(d) ==
  /\ at[d] = "session"
  /\ \E success \in BOOLEAN : ApiStartSession(d, success)
  /\ GoTo(d, "keepalive")
  /\ sessDelay' = [sessDelay EXCEPT ![d] = DoubleDelay(@)]
  /\ UNCHANGED <<key, uuid, descDelay, file, regs, described>>

StartSession(d) ==
  /\ at[d] = "session"
  /\ \/ ApiStartSession(d, TRUE) /\ GoTo(d, "keepalive")
     \/ ApiStartSession(d, FALSE) /\ UNCHANGED at
  /\ sessDelay' = [sessDelay EXCEPT ![d] = DoubleDelay(@)]
  /\ UNCHANGED <<key, uuid, descDelay, file, regs, described>>

(* Building the message lower-cases the API key in place; whether it could *)
(* be sent is not looked at.                                               *)
FirstKeepalive(d) ==
  /\ at[d] = "keepalive"
  /\ GoTo(d, "running")
  /\ key' = [key EXCEPT ![d] = "lower"]
  /\ UNCHANGED <<uuid, descDelay, sessDelay, file, server, hits>>

Crash(d) ==
  /\ at[d] # "off"
  /\ Fault(d, "crash")
  /\ Stop(d)
  /\ UNCHANGED <<file, server>>

Step(d) ==
  \/ GetApiKey(d) \/ LookupUuid(d) \/ Register(d) \/ SaveUuid(d)
  \/ Configure(d) \/ SendDescriptor(d) \/ StartSession(d) \/ FirstKeepalive(d)

Move(d) == Launch(d) \/ Step(d) \/ Crash(d)

Next == \E d \in Devices : Move(d)

Spec == Init /\ [][Next]_vars

(* The process takes the next step of lh_start_device: nothing in it       *)
(* blocks for ever but the retry loops, whose sleeps end.                  *)
FairSpec == Spec /\ \A d \in Devices : WF_vars(Step(d))

(* Somebody, a person or a supervisor, launches a device that has stopped. *)
RelaunchSpec == FairSpec /\ \A d \in Devices : WF_vars(Launch(d))
-----------------------------------------------------------------------------
(* Properties                                                              *)

TypeOK ==
  /\ at \in [Devices -> Places]
  /\ key \in [Devices -> {"none", "asSent", "lower"}]
  /\ uuid \in [Devices -> Uuid]
  /\ descDelay \in [Devices -> Nat]
  /\ sessDelay \in [Devices -> Nat]
  /\ file \in [Devices -> Seq(Uuid)]
  /\ regs \in [Devices -> Nat]
  /\ described \subseteq Uuid
  /\ sessions \subseteq Uuid
  /\ faults \in [Devices -> Nat]
  /\ lost \in [Devices -> Nat]

Online(d) == at[d] = "keepalive" \/ at[d] = "running"

(* A device leaves the retry loops of lh_start_device only when the server *)
(* has recorded the very uuid it holds: a uuid granted to this device and  *)
(* not to another one or to a line of the file cut short, with its         *)
(* descriptor and its session.  From then on the key that process_messages *)
(* verifies messages with is the lower-case one.  No uuid is ever online   *)
(* without a descriptor, whatever crashes and lost replies happened.       *)
RunningIsOnline ==
  /\ sessions \subseteq described
  /\ \A d \in Devices : Online(d) =>
       /\ uuid[d].dev = d /\ Accepts(uuid[d])
       /\ uuid[d] \in sessions
  /\ \A d \in Devices : at[d] = "running" => key[d] = "lower"

(* The server never holds more than one registration of a device besides   *)
(* those whose uuid a fault kept from uuid.list: a crash or a refusal at   *)
(* any other point of lh_start_device never costs the account a device.    *)
RegistrationsAccounted ==
  \A d \in Devices : Matches(d) => regs[d] <= lost[d] + 1

(* As long as uuid.list can be opened, a device is online under one        *)
(* identity in all its lives, though orphan registrations may exist.       *)
OneIdentity ==
  "no_file" \notin Faults =>
    \A u, v \in sessions : u.dev = v.dev /\ Matches(u.dev) => u = v

(* As long as uuid.list can be opened, no step registers a device whose    *)
(* uuid is in it.  If it cannot, a device that has lines in it is          *)
(* registered only after as many faults kept its uuid from being saved or  *)
(* found.                                                                  *)
NoReRegistration ==
  [][\A d \in Devices : Matches(d) /\ regs'[d] # regs[d] =>
       IF "no_file" \in Faults THEN Len(file[d]) <= lost[d] ELSE file[d] = << >>]_vars

(* A device that is online holds the newest of the uuids that it has in    *)
(* uuid.list, however often it was registered: the last line counts, and   *)
(* no earlier identity of the device comes back.                           *)
NewestIdentity ==
  \A d \in Devices : Online(d) => \A i \in DOMAIN file[d] : file[d][i].n <= uuid[d].n

(* The sleep before a retry is one of 2, 4, ..., 64 and 120 seconds, never *)
(* more; the first attempt of a process does not sleep and every later one *)
(* does, and the delay of the descriptor is not taken over by the session. *)
BackoffLaw ==
  \A d \in Devices :
    /\ descDelay[d] \in Delays /\ sessDelay[d] \in Delays
    /\ at[d] = "session" \/ Online(d) => descDelay[d] # 1
    /\ Online(d) <=> sessDelay[d] # 1 /\ at[d] # "session"
    /\ descDelay[d] # 1 =>
         at[d] = "descriptor" \/ at[d] = "session" \/ Online(d)

(* The whole start-up, crashes and restarts included, implements the       *)
(* abstract registry DeviceIdentity: a device is announced by its first    *)
(* session and is never announced under a second uuid.                     *)
Identity == INSTANCE DeviceIdentity WITH
  identity <- [d \in Devices |-> {u \in sessions : u.dev = d}],
  running <- {d \in Devices : at[d] = "running"}

KeepsIdentity == Identity!Spec

(* storage_api.h, of lh_storage_save_uuid: the uuid is saved so that it    *)
(* can be retrieved later with lh_storage_get_uuid.  The lookup returns    *)
(* what the last save wrote.                                               *)
SavedIsRetrievable ==
  \A d \in Devices : file[d] # << >> => Found(d) /\ ReadBack(d) = Latest(d)

(* Once the faults are over, a device that is launched whenever it is      *)
(* stopped reaches its main loop and stays there.                          *)
ComesOnline ==
  \A d \in Devices : d \in Complete => <>[](at[d] = "running")
-----------------------------------------------------------------------------
(* Inductive forms of the invariants, device by device                     *)

(* Whole uuids, in memory and in the file, are those the server granted to *)
(* the device, and the server has recorded what the place of the process   *)
(* in lh_start_device lets it believe.                                     *)
Granted(u) == u.len = UuidLen => u.n \in 1..regs[u.dev]

Recorded(d) ==
  /\ uuid[d].dev = d /\ Granted(uuid[d])
  /\ \A i \in DOMAIN file[d] : file[d][i].dev = d /\ Granted(file[d][i])
  /\ at[d] = "session" => Accepts(uuid[d]) /\ uuid[d] \in described
  /\ Online(d) => Accepts(uuid[d]) /\ uuid[d] \in sessions
  /\ at[d] = "running" => key[d] = "lower"

AllRecorded ==
  /\ sessions \subseteq described
  /\ \A u \in described : Accepts(u)
  /\ \A d \in Devices : Recorded(d)

(* The lines of a device are in the order of its registrations, but for    *)
(* those without a uuid, and what it runs under is none of the older ones. *)
Ordered(d) ==
  /\ uuid[d].n <= regs[d]
  /\ \A i \in DOMAIN file[d] : file[d][i].n <= regs[d]
  /\ \A i, j \in DOMAIN file[d] :
       i < j => file[d][j].n = 0 \/ file[d][i].n <= file[d][j].n
  /\ at[d] \in {"off", "apiKey", "lookup", "register"} => uuid[d].n = 0
  /\ uuid[d].n = 0 \/ \A i \in DOMAIN file[d] : file[d][i].n <= uuid[d].n

AllOrdered == \A d \in Devices : Ordered(d)

(* A registration that is not on file is one counted as lost, but for the  *)
(* one about to be saved; so is every line but one, and whoever is about   *)
(* to get another has lost them all.                                       *)
Accounted(d) ==
  /\ Len(file[d]) <= lost[d] + 1
  /\ at[d] = "register" \/ at[d] = "save" => Len(file[d]) <= lost[d]
  /\ regs[d] <= lost[d] + 1
  /\ at[d] = "register" \/ (file[d] = << >> /\ at[d] # "save")
       => regs[d] <= lost[d]

AllAccounted == \A d \in Devices : Matches(d) => Accounted(d)

(* While uuid.list can be opened a device has at most one line in it, and  *)
(* whoever is past the lookup holds the uuid of that line, or a part.      *)
OneLine(d) ==
  /\ Len(file[d]) <= 1
  /\ at[d] \in {"register", "save"} => file[d] = << >>
  /\ at[d] \in {"setup", "descriptor", "session", "keepalive", "running"} =>
       /\ file[d] # << >>
       /\ uuid[d].len = UuidLen => uuid[d] = file[d][1]
  /\ \A u \in sessions : u.dev = d => file[d] # << >> /\ u = file[d][1]

AllOneLine ==
  "no_file" \notin Faults => \A d \in Devices : Matches(d) => OneLine(d)
=============================================================================
