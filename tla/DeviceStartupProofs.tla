------------------------ MODULE DeviceStartupProofs ------------------------
(***************************************************************************)
(* Theorems about DeviceStartup for any set of devices, any names, any     *)
(* kinds and any number of faults.                                         *)
(***************************************************************************)
EXTENDS DeviceStartup, TLAPS

-----------------------------------------------------------------------------
(* What the lookup returns is a uuid, and a whole one only if the line     *)
(* holds a whole one.                                                      *)
LEMMA ReadBackType ==
  ASSUME TypeOK, NEW d \in Devices, Found(d), Room(d) > 0
  PROVE  /\ Latest(d) \in Uuid
         /\ ReadBack(d) \in Uuid
         /\ ReadBack(d).len = UuidLen => ReadBack(d) = Latest(d)
<1>1. Latest(d) \in Uuid
  BY DEF TypeOK, Found, Latest
<1>2. Room(d) \in Nat
  BY ConstantsAssumption DEF Room, FgetsMax
<1> QED
  BY <1>1, <1>2 DEF ReadBack, Uuid, UuidLen

(* What is written to the file, and what the server grants, are uuids.     *)
LEMMA WrittenType == ASSUME NEW u \in Uuid PROVE Written(u) \in Uuid
BY DEF Written, Uuid, UuidLen, NullTextLen

(* A uuid that is granted is one.                                          *)
LEMMA GrantType ==
  ASSUME NEW d \in Devices, NEW n \in Nat
  PROVE  [dev |-> d, n |-> n + 1, len |-> UuidLen] \in Uuid
BY DEF Uuid, UuidLen

(* The pieces of an action keep the types of what they assign.             *)
LEMMA GoToType ==
  ASSUME TypeOK, NEW d \in Devices, NEW place \in Places, GoTo(d, place)
  PROVE  at' \in [Devices -> Places]
BY DEF TypeOK, GoTo

(* A fault is counted.                                                     *)
LEMMA FaultType ==
  ASSUME TypeOK, NEW d \in Devices, NEW kind, Fault(d, kind)
  PROVE  faults' \in [Devices -> Nat] /\ lost' \in [Devices -> Nat]
<1>1. faults \in [Devices -> Nat] /\ lost \in [Devices -> Nat]
  BY DEF TypeOK
<1> QED
  BY <1>1 DEF Fault

(* A program that stops keeps nothing.                                     *)
LEMMA StopType ==
  ASSUME TypeOK, NEW d \in Devices, Stop(d)
  PROVE  /\ at' \in [Devices -> Places]
         /\ key' \in [Devices -> {"none", "asSent", "lower"}]
         /\ uuid' \in [Devices -> Uuid]
         /\ descDelay' \in [Devices -> Nat]
         /\ sessDelay' \in [Devices -> Nat]
BY DEF TypeOK, Stop, GoTo, NoUuid, Uuid, UuidLen, Places

(* Twice a delay is a number.                                              *)
LEMMA DelayType == \A n \in Nat : DoubleDelay(n) \in Nat
BY DEF DoubleDelay, MaxDelay

(* The places in lh_start_device.                                          *)
LEMMA PlacesType ==
  /\ "apiKey" \in Places /\ "lookup" \in Places /\ "register" \in Places
  /\ "save" \in Places /\ "setup" \in Places /\ "descriptor" \in Places
  /\ "session" \in Places /\ "keepalive" \in Places /\ "running" \in Places
BY DEF Places

(* Every step keeps the types.                                             *)
LEMMA TypeNext == TypeOK /\ [Next]_vars => TypeOK'
<1> SUFFICES ASSUME TypeOK, [Next]_vars PROVE TypeOK'
  OBVIOUS
<1> USE PlacesType DEF TypeOK, memory, server, hits
<1>1. ASSUME NEW d \in Devices, Launch(d) PROVE TypeOK'
  BY <1>1, GoToType DEF Launch
<1>2. ASSUME NEW d \in Devices, GetApiKey(d) PROVE TypeOK'
  BY <1>2, GoToType, StopType, FaultType DEF GetApiKey, ApiGetApiKey
<1>3. ASSUME NEW d \in Devices, LookupUuid(d) PROVE TypeOK'
  BY <1>3, GoToType, StopType, FaultType, ReadBackType DEF LookupUuid
<1>4. ASSUME NEW d \in Devices, Register(d) PROVE TypeOK'
  <2>1. regs' \in [Devices -> Nat] /\ uuid' \in [Devices -> Uuid]
    <3> HIDE DEF TypeOK
    <3>1. regs \in [Devices -> Nat] /\ uuid \in [Devices -> Uuid]
      BY DEF TypeOK
    <3> QED
      BY <1>4, <3>1, GrantType, StopType DEF Register, ApiRegisterDevice
  <2> QED
    BY <1>4, <2>1, GoToType, StopType, FaultType
       DEF Register, ApiRegisterDevice
<1>5. ASSUME NEW d \in Devices, SaveUuid(d) PROVE TypeOK'
  <2>1. file' \in [Devices -> Seq(Uuid)]
    <3> HIDE DEF TypeOK
    <3>1. file \in [Devices -> Seq(Uuid)] /\ Written(uuid[d]) \in Uuid
      BY WrittenType DEF TypeOK
    <3>2. Append(file[d], Written(uuid[d])) \in Seq(Uuid)
      BY <3>1
    <3> QED
      BY <1>5, <3>1, <3>2 DEF SaveUuid
  <2> QED
    BY <1>5, <2>1, GoToType, FaultType DEF SaveUuid
<1>6. ASSUME NEW d \in Devices, Configure(d) PROVE TypeOK'
  BY <1>6, GoToType, StopType DEF Configure
<1>7. ASSUME NEW d \in Devices, SendDescriptor(d) PROVE TypeOK'
  <2>1. /\ at' \in [Devices -> Places]
        /\ faults' \in [Devices -> Nat] /\ lost' \in [Devices -> Nat]
    BY <1>7, GoToType, StopType, FaultType
       DEF SendDescriptor, ApiSendDescriptor
  <2>2. descDelay' \in [Devices -> Nat]
    <3> HIDE DEF TypeOK
    <3>1. descDelay \in [Devices -> Nat]
      BY DEF TypeOK
    <3> QED
      BY <1>7, <3>1, DelayType, StopType DEF SendDescriptor, ApiSendDescriptor
  <2>3. described' \subseteq Uuid
    BY <1>7 DEF SendDescriptor, ApiSendDescriptor
  <2> QED
    BY <1>7, <2>1, <2>2, <2>3, StopType DEF SendDescriptor, ApiSendDescriptor
<1>8. ASSUME NEW d \in Devices, StartSession(d) PROVE TypeOK'
  BY <1>8, DelayType, GoToType, FaultType DEF StartSession, ApiStartSession
<1>9. ASSUME NEW d \in Devices, FirstKeepalive(d) PROVE TypeOK'
  BY <1>9, GoToType DEF FirstKeepalive
<1>10. ASSUME NEW d \in Devices, Crash(d) PROVE TypeOK'
  BY <1>10, StopType, FaultType DEF Crash
<1>11. CASE UNCHANGED vars
  BY <1>11 DEF vars
<1> QED
  BY <1>1, <1>2, <1>3, <1>4, <1>5, <1>6, <1>7, <1>8, <1>9, <1>10, <1>11
     DEF Next, Move, Step

(* The value of every variable stays in its type, whatever fails.          *)
THEOREM TypeCorrect == Spec => []TypeOK
<1>1. Init => TypeOK
  BY DEF TypeOK, Init, NoUuid, Uuid, UuidLen, Places
<1> QED
  BY <1>1, TypeNext, PTL DEF Spec

-----------------------------------------------------------------------------
(* What every move of a device has in common                               *)

Domains ==
  /\ DOMAIN at = Devices /\ DOMAIN key = Devices /\ DOMAIN uuid = Devices
  /\ DOMAIN descDelay = Devices /\ DOMAIN sessDelay = Devices
  /\ DOMAIN file = Devices /\ DOMAIN regs = Devices /\ DOMAIN faults = Devices
  /\ DOMAIN lost = Devices

(* The state has a value for each device.                                  *)
LEMMA TypeDomains == TypeOK => Domains
BY DEF TypeOK, Domains

Keeps(e) ==
  /\ at'[e] = at[e] /\ key'[e] = key[e] /\ uuid'[e] = uuid[e]
  /\ descDelay'[e] = descDelay[e] /\ sessDelay'[e] = sessDelay[e]
  /\ file'[e] = file[e] /\ regs'[e] = regs[e] /\ faults'[e] = faults[e]
  /\ lost'[e] = lost[e]

(* A device's move leaves what belongs to the other devices alone; the     *)
(* server only ever adds, and only what it accepts.                        *)
LEMMA MoveFrame ==
  ASSUME TypeOK, NEW d \in Devices, Move(d)
  PROVE  /\ \A e \in Devices \ {d} : Keeps(e)
         /\ regs'[d] \in {regs[d], regs[d] + 1}
         /\ \/ described' = described
            \/ described' = described \cup {uuid[d]} /\ Accepts(uuid[d])
         /\ \/ sessions' = sessions
            \/ /\ sessions' = sessions \cup {uuid[d]} /\ Accepts(uuid[d])
               /\ at[d] = "session" /\ at'[d] \in {"session", "keepalive"}
         /\ regs'[d] # regs[d] => at[d] = "register"
         /\ at'[d] = "running" => at[d] \in {"keepalive", "running"}
<1> USE TypeDomains DEF Domains, Keeps, memory, server, hits, GoTo, Stop, Fault
<1>1. CASE Launch(d)
  BY <1>1 DEF Launch
<1>2. CASE GetApiKey(d)
  BY <1>2 DEF GetApiKey, ApiGetApiKey
<1>3. CASE LookupUuid(d)
  BY <1>3 DEF LookupUuid
<1>4. CASE Register(d)
  BY <1>4 DEF Register, ApiRegisterDevice
<1>5. CASE SaveUuid(d)
  BY <1>5 DEF SaveUuid
<1>6. CASE Configure(d)
  BY <1>6 DEF Configure
<1>7. CASE SendDescriptor(d)
  BY <1>7 DEF SendDescriptor, ApiSendDescriptor
<1>8. CASE StartSession(d)
  BY <1>8 DEF StartSession, ApiStartSession
<1>9. CASE FirstKeepalive(d)
  BY <1>9 DEF FirstKeepalive
<1>10. CASE Crash(d)
  BY <1>10 DEF Crash
<1> QED
  BY <1>1, <1>2, <1>3, <1>4, <1>5, <1>6, <1>7, <1>8, <1>9, <1>10 DEF Move, Step

-----------------------------------------------------------------------------
(* What the server accepted once it accepts for ever.                      *)
LEMMA AcceptsForEver ==
  ASSUME TypeOK, NEW d \in Devices, Move(d), NEW u, u.dev \in Devices
  PROVE  /\ Accepts(u) => Accepts(u)'
         /\ Granted(u) => Granted(u)'
<1>1. regs[u.dev] \in Nat /\ regs[d] \in Nat
  BY DEF TypeOK
<1>2. regs'[u.dev] \in {regs[u.dev], regs[u.dev] + 1}
  BY MoveFrame DEF Keeps
<1> QED
  BY <1>1, <1>2 DEF Accepts, Granted

(* A step of a device keeps what the server and the file have recorded of  *)
(* it.                                                                     *)
LEMMA RecordedStep ==
  ASSUME TypeOK, AllRecorded, NEW d \in Devices, Move(d)
  PROVE  Recorded(d)'
<1> USE TypeDomains DEF Domains, memory, server, hits, GoTo, Stop, Fault
<1>0. Recorded(d) /\ \A u \in described \cup sessions : Accepts(u)
  BY DEF AllRecorded
<1>1. CASE Launch(d)
  BY <1>0, <1>1, AcceptsForEver DEF Launch, Recorded, Online
<1>2. CASE GetApiKey(d)
  BY <1>0, <1>2, AcceptsForEver
     DEF GetApiKey, ApiGetApiKey, Recorded, Online, NoUuid, Granted, UuidLen
<1>3. CASE LookupUuid(d)
  <2>1. ASSUME Found(d), Room(d) > 0
        PROVE  ReadBack(d).dev = d /\ Granted(ReadBack(d))
    <3>1. file[d] \in Seq(Uuid) /\ file[d] # << >>
      BY <2>1 DEF TypeOK, Found
    <3>2. Latest(d).dev = d /\ Granted(Latest(d))
      BY <1>0, <3>1 DEF Recorded, Latest
    <3>3. ReadBack(d).dev = Latest(d).dev
      BY ReadBackType, <2>1 DEF ReadBack, Uuid
    <3> QED
      BY <2>1, <3>2, <3>3, ReadBackType DEF Granted
  <2>3. regs' = regs /\ file' = file
    BY <1>3 DEF LookupUuid
  <2>4. at'[d] \in {"register", "setup", "off"}
    BY <1>3 DEF LookupUuid
  <2>5. uuid'[d].dev = d /\ Granted(uuid[d])'
    BY <1>0, <1>3, <2>1, <2>3
       DEF LookupUuid, Recorded, NoUuid, Granted, UuidLen
  <2> QED
    BY <1>0, <2>3, <2>4, <2>5 DEF Recorded, Online, Granted
<1>4. CASE Register(d)
  <2>1. at'[d] \in {"save", "off"} /\ file' = file
    BY <1>4 DEF Register, ApiRegisterDevice
  <2>2. uuid'[d].dev = d
    BY <1>0, <1>4 DEF Register, ApiRegisterDevice, Recorded, NoUuid
  <2>3. regs[d] \in Nat
    BY DEF TypeOK
  <2>4. Granted(uuid[d])'
    BY <1>0, <1>4, <2>3
       DEF Register, ApiRegisterDevice, Recorded, Granted, NoUuid, UuidLen
  <2>5. \A i \in DOMAIN file[d] : Granted(file[d][i])'
    BY <1>0, <2>1, AcceptsForEver DEF Recorded
  <2> QED
    BY <1>0, <2>1, <2>2, <2>4, <2>5 DEF Recorded, Online
<1>5. CASE SaveUuid(d)
  <2>1. regs' = regs /\ uuid' = uuid /\ at'[d] = "setup"
    BY <1>5 DEF SaveUuid
  <2>2. Written(uuid[d]).dev = d /\ Granted(Written(uuid[d]))
    <3>1. uuid[d] \in Uuid
      BY DEF TypeOK
    <3> QED
      BY <1>0, <3>1 DEF Recorded, Written, Granted, Uuid, UuidLen, NullTextLen
  <2>3. \/ file'[d] = file[d]
        \/ file'[d] = Append(file[d], Written(uuid[d]))
    BY <1>5 DEF SaveUuid
  <2>4. file[d] \in Seq(Uuid) /\ Written(uuid[d]) \in Uuid
    BY WrittenType DEF TypeOK
  <2>5. \A i \in DOMAIN file'[d] :
          file'[d][i] = Written(uuid[d]) \/ (i \in DOMAIN file[d] /\ file'[d][i] = file[d][i])
    BY <2>3, <2>4
  <2> QED
    BY <1>0, <2>1, <2>2, <2>5 DEF Recorded, Online, Granted
<1>6. CASE Configure(d)
  BY <1>0, <1>6, AcceptsForEver
     DEF Configure, Recorded, Online, NoUuid, Granted, UuidLen
<1>7. CASE SendDescriptor(d)
  BY <1>0, <1>7, AcceptsForEver
     DEF SendDescriptor, ApiSendDescriptor, Recorded, Online, NoUuid,
         Granted, UuidLen
<1>8. CASE StartSession(d)
  BY <1>0, <1>8, AcceptsForEver
     DEF StartSession, ApiStartSession, Recorded, Online, NoUuid, Granted,
         UuidLen
<1>9. CASE FirstKeepalive(d)
  BY <1>0, <1>9, AcceptsForEver DEF FirstKeepalive, Recorded, Online
<1>10. CASE Crash(d)
  BY <1>0, <1>10, AcceptsForEver
     DEF Crash, Recorded, Online, NoUuid, Granted, UuidLen
<1> QED
  BY <1>1, <1>2, <1>3, <1>4, <1>5, <1>6, <1>7, <1>8, <1>9, <1>10 DEF Move, Step

(* What is recorded stays so, for the device that moves and the others.    *)
LEMMA RecordedNext == TypeOK /\ AllRecorded /\ [Next]_vars => AllRecorded'
<1> SUFFICES ASSUME TypeOK, AllRecorded, [Next]_vars PROVE AllRecorded'
  OBVIOUS
<1>1. ASSUME NEW d \in Devices, Move(d) PROVE AllRecorded'
  <2>1. \A u \in described \cup {uuid[d]} : u.dev \in Devices
    BY DEF TypeOK, Uuid
  <2>2. \A u \in described' : Accepts(u)'
    BY <1>1, <2>1, MoveFrame, AcceptsForEver DEF AllRecorded
  <2>3. sessions' \subseteq described'
    BY <1>1, MoveFrame DEF AllRecorded, Recorded
  <2>4. ASSUME NEW e \in Devices \ {d} PROVE Recorded(e)'
    <3>1. Recorded(e) /\ Keeps(e)
      BY <1>1, MoveFrame DEF AllRecorded
    <3>2. /\ described \subseteq described' /\ sessions \subseteq sessions'
      BY <1>1, MoveFrame
    <3>3. /\ Granted(uuid[e])' /\ (Accepts(uuid[e]) => Accepts(uuid[e])')
          /\ \A i \in DOMAIN file[e] : Granted(file[e][i])'
      BY <1>1, <3>1, AcceptsForEver DEF Recorded, Keeps, Granted, Accepts
    <3> QED
      BY <3>1, <3>2, <3>3 DEF Recorded, Keeps, Online
  <2> QED
    BY <1>1, <2>2, <2>3, <2>4, RecordedStep DEF AllRecorded
<1>2. CASE UNCHANGED vars
  BY <1>2 DEF vars, AllRecorded, Recorded, Granted, Online, Accepts
<1> QED
  BY <1>1, <1>2 DEF Next

(* A device past the retry loops is online, under a whole uuid of its own, *)
(* and its key is in lower case when the main loop starts.                 *)
THEOREM RunningOnline == Spec => []RunningIsOnline
<1>1. Init => AllRecorded
  BY DEF Init, AllRecorded, Recorded, Granted, Online, NoUuid, UuidLen
<1>2. AllRecorded => RunningIsOnline
  BY DEF AllRecorded, Recorded, RunningIsOnline
<1> QED
  BY <1>1, <1>2, RecordedNext, TypeCorrect, PTL DEF Spec

-----------------------------------------------------------------------------
(* Registrations and faults, one move at a time.                           *)
LEMMA AccountedStep ==
  ASSUME TypeOK, NEW d \in Devices, Matches(d), Accounted(d), Move(d)
  PROVE  Accounted(d)'
<1> USE TypeDomains
   DEF Domains, Accounted, memory, server, hits, GoTo, Stop, Fault, Loses
<1>0. regs[d] \in Nat /\ lost[d] \in Nat /\ file[d] \in Seq(Uuid) /\ Len(file[d]) \in Nat
  BY DEF TypeOK
<1>1. CASE Launch(d)
  BY <1>0, <1>1 DEF Launch
<1>2. CASE GetApiKey(d)
  BY <1>0, <1>2 DEF GetApiKey, ApiGetApiKey
<1>3. CASE LookupUuid(d)
  BY <1>0, <1>3 DEF LookupUuid, Found
<1>4. CASE Register(d)
  BY <1>0, <1>4 DEF Register, ApiRegisterDevice
<1>5. CASE SaveUuid(d)
  <2>1. Written(uuid[d]) \in Uuid
    BY WrittenType DEF TypeOK
  <2>2. Append(file[d], Written(uuid[d])) # << >>
        /\ Len(Append(file[d], Written(uuid[d]))) = Len(file[d]) + 1
    BY <1>0, <2>1
  <2> QED
    BY <1>0, <1>5, <2>2 DEF SaveUuid
<1>6. CASE Configure(d)
  BY <1>0, <1>6 DEF Configure
<1>7. CASE SendDescriptor(d)
  BY <1>0, <1>7 DEF SendDescriptor, ApiSendDescriptor
<1>8. CASE StartSession(d)
  BY <1>0, <1>8 DEF StartSession, ApiStartSession
<1>9. CASE FirstKeepalive(d)
  BY <1>0, <1>9 DEF FirstKeepalive
<1>10. CASE Crash(d)
  BY <1>0, <1>10 DEF Crash
<1> QED
  BY <1>1, <1>2, <1>3, <1>4, <1>5, <1>6, <1>7, <1>8, <1>9, <1>10 DEF Move, Step

(* So they are accounted for in every state.                               *)
LEMMA AccountedInvariant == Spec => []AllAccounted
<1>1. Init => AllAccounted
  BY DEF Init, AllAccounted, Accounted
<1>2. TypeOK /\ AllAccounted /\ [Next]_vars => AllAccounted'
  <2> SUFFICES ASSUME TypeOK, AllAccounted, [Next]_vars,
                      NEW e \in Devices, Matches(e)
               PROVE  Accounted(e)'
    BY DEF AllAccounted, Matches
  <2>0. Accounted(e)
    BY DEF AllAccounted
  <2>1. ASSUME NEW d \in Devices, Move(d), d # e PROVE Accounted(e)'
    BY <2>0, <2>1, MoveFrame DEF Keeps, Accounted
  <2>2. CASE Move(e)
    BY <2>0, <2>2, AccountedStep
  <2>3. CASE UNCHANGED vars
    BY <2>0, <2>3 DEF vars, Accounted
  <2> QED
    BY <2>1, <2>2, <2>3 DEF Next
<1> QED
  BY <1>1, <1>2, TypeCorrect, PTL DEF Spec

(* A device is registered at most once more often than a fault kept its    *)
(* uuid from uuid.list.                                                    *)
THEOREM RegistrationsBounded == Spec => []RegistrationsAccounted
<1>1. AllAccounted => RegistrationsAccounted
  BY DEF AllAccounted, Accounted, RegistrationsAccounted
<1> QED
  BY <1>1, AccountedInvariant, PTL

-----------------------------------------------------------------------------
(* The order of the lines of a device in uuid.list, one move at a time.    *)
LEMMA OrderedStep ==
  ASSUME TypeOK, NEW d \in Devices, Ordered(d), Move(d)
  PROVE  Ordered(d)'
<1> USE TypeDomains DEF Domains, memory, server, hits, GoTo, Stop, Fault
<1>0. /\ regs[d] \in Nat /\ file[d] \in Seq(Uuid) /\ uuid[d] \in Uuid
      /\ \A i \in DOMAIN file[d] : file[d][i].n \in Nat
      /\ uuid[d].n \in Nat /\ NoUuid(d).n = 0
  <2>1. regs[d] \in Nat /\ file[d] \in Seq(Uuid) /\ uuid[d] \in Uuid
    BY DEF TypeOK
  <2>2. \A i \in DOMAIN file[d] : file[d][i] \in Uuid
    BY <2>1
  <2>3. \A u \in Uuid : u.n \in Nat
    BY DEF Uuid
  <2> QED
    BY <2>1, <2>2, <2>3 DEF NoUuid
<1>1. CASE Launch(d)
  BY <1>1 DEF Launch, Ordered
<1>2. CASE GetApiKey(d)
  BY <1>0, <1>2 DEF GetApiKey, ApiGetApiKey, Ordered
<1>3. CASE LookupUuid(d)
  <2>1. file' = file /\ regs' = regs
    BY <1>3 DEF LookupUuid
  <2>2. CASE at'[d] = "register"
    BY <1>3, <2>1, <2>2 DEF LookupUuid, Ordered
  <2>3. CASE at'[d] = "setup"
    <3>1. Found(d) /\ uuid'[d] = ReadBack(d) /\ Room(d) > 0
      BY <1>3, <2>3 DEF LookupUuid
    <3>2. PICK l \in DOMAIN file[d] : Latest(d) = file[d][l] /\ l = Len(file[d])
      BY <1>0, <3>1 DEF Found, Latest
    <3>3. uuid'[d].n = file[d][l].n
      BY <3>1, <3>2, ReadBackType DEF ReadBack, Uuid
    <3>4. \A i \in DOMAIN file[d] : i < l \/ i = l
      BY <1>0, <3>2
    <3>5. uuid'[d].n = 0 \/ \A i \in DOMAIN file[d] : file[d][i].n <= uuid'[d].n
      BY <1>0, <3>2, <3>3, <3>4 DEF Ordered
    <3>6. uuid'[d].n <= regs[d]
      BY <3>2, <3>3 DEF Ordered
    <3> QED
      BY <2>1, <2>3, <3>5, <3>6 DEF Ordered
  <2>4. CASE at'[d] = "off"
    BY <1>0, <1>3, <2>1, <2>4 DEF LookupUuid, Ordered
  <2> QED
    BY <1>3, <2>2, <2>3, <2>4 DEF LookupUuid
<1>4. CASE Register(d)
  <2>1. file' = file /\ at'[d] \in {"save", "off"}
    BY <1>4 DEF Register, ApiRegisterDevice
  <2>2. regs'[d] \in {regs[d], regs[d] + 1}
    BY <1>4, MoveFrame
  <2>3. uuid'[d].n = 0 \/ uuid'[d].n = regs[d] + 1
    BY <1>0, <1>4 DEF Register, ApiRegisterDevice, Ordered
  <2>4. at'[d] = "off" => uuid'[d].n = 0
    BY <1>0, <1>4 DEF Register
  <2>5. \A i \in DOMAIN file[d] : file[d][i].n <= regs'[d] /\ file[d][i].n <= regs[d] + 1
    BY <1>0, <2>2 DEF Ordered
  <2>6. uuid'[d].n <= regs'[d]
    BY <1>0, <1>4 DEF Register, ApiRegisterDevice, Ordered
  <2> QED
    BY <2>1, <2>3, <2>4, <2>5, <2>6 DEF Ordered
<1>5. CASE SaveUuid(d)
  <2>1. uuid' = uuid /\ regs' = regs /\ at'[d] = "setup"
    BY <1>5 DEF SaveUuid
  <2>2. CASE file'[d] = file[d]
    BY <2>1, <2>2 DEF Ordered
  <2>3. CASE file'[d] = Append(file[d], Written(uuid[d]))
    <3>1. PICK w \in Uuid : w = Written(uuid[d])
      BY <1>0, WrittenType
    <3>2. w.n = uuid[d].n
      BY <1>0, <3>1 DEF Written, Uuid
    <3> DEFINE l == Len(file[d]) + 1
    <3>3. /\ DOMAIN file'[d] = 1..l /\ file'[d][l] = w /\ DOMAIN file[d] = 1..(l - 1)
          /\ \A i \in 1..(l - 1) : file'[d][i] = file[d][i]
          /\ l \in Nat
      BY <1>0, <2>3, <3>1
    <3> HIDE DEF l
    <3>4. \A i \in 1..l : i = l \/ i \in DOMAIN file[d]
      BY <3>3
    <3>5. uuid[d].n <= regs[d]
      BY <1>5 DEF SaveUuid, Ordered
    <3>6. \A i \in 1..l : file'[d][i].n <= regs[d]
      BY <3>2, <3>3, <3>4, <3>5 DEF Ordered
    <3>7. uuid[d].n = 0 \/ \A i \in 1..l : file'[d][i].n <= uuid[d].n
      <4>1. uuid[d].n = 0 \/ \A i \in 1..(l - 1) : file'[d][i].n <= uuid[d].n
        BY <3>3 DEF Ordered
      <4>2. file'[d][l].n <= uuid[d].n
        BY <1>0, <3>2, <3>3
      <4> QED
        BY <3>3, <3>4, <4>1, <4>2
    <3>8. \A i, j \in 1..l :
            i < j => file'[d][j].n = 0 \/ file'[d][i].n <= file'[d][j].n
      <4> SUFFICES ASSUME NEW i \in 1..l, NEW j \in 1..l, i < j
                   PROVE  file'[d][j].n = 0 \/ file'[d][i].n <= file'[d][j].n
        OBVIOUS
      <4>1. CASE j = l
        BY <3>2, <3>3, <3>7, <4>1
      <4>2. CASE j # l
        <5>1. i \in 1..(l - 1) /\ j \in 1..(l - 1)
          BY <3>3, <4>2
        <5>2. file[d][j].n = 0 \/ file[d][i].n <= file[d][j].n
          BY <3>3, <5>1 DEF Ordered
        <5> QED
          BY <3>3, <5>1, <5>2
      <4> QED
        BY <4>1, <4>2
    <3> QED
      BY <2>1, <3>3, <3>6, <3>7, <3>8 DEF Ordered
  <2> QED
    BY <1>5, <2>2, <2>3 DEF SaveUuid
<1>6. CASE Configure(d)
  BY <1>0, <1>6 DEF Configure, Ordered
<1>7. CASE SendDescriptor(d)
  BY <1>0, <1>7 DEF SendDescriptor, ApiSendDescriptor, Ordered
<1>8. CASE StartSession(d)
  BY <1>8 DEF StartSession, ApiStartSession, Ordered
<1>9. CASE FirstKeepalive(d)
  BY <1>9 DEF FirstKeepalive, Ordered
<1>10. CASE Crash(d)
  BY <1>0, <1>10 DEF Crash, Ordered
<1> QED
  BY <1>1, <1>2, <1>3, <1>4, <1>5, <1>6, <1>7, <1>8, <1>9, <1>10 DEF Move, Step

(* A device that is online holds the newest of its uuids in uuid.list,     *)
(* however often uuid.list could not be opened before.                     *)
THEOREM NewestCounts == Spec => []NewestIdentity
<1>1. Init => AllOrdered
  <2> SUFFICES ASSUME Init, NEW d \in Devices PROVE Ordered(d)
    BY DEF AllOrdered
  <2>1. file[d] = << >> /\ uuid[d].n = 0 /\ regs[d] = 0
    BY DEF Init, NoUuid
  <2> QED
    BY <2>1 DEF Ordered
<1>2. TypeOK /\ AllOrdered /\ [Next]_vars => AllOrdered'
  <2> SUFFICES ASSUME TypeOK, AllOrdered, [Next]_vars, NEW e \in Devices
               PROVE  Ordered(e)'
    BY DEF AllOrdered
  <2>0. Ordered(e)
    BY DEF AllOrdered
  <2>1. ASSUME NEW d \in Devices, Move(d), d # e PROVE Ordered(e)'
    BY <2>0, <2>1, MoveFrame DEF Keeps, Ordered
  <2>2. CASE Move(e)
    BY <2>0, <2>2, OrderedStep
  <2>3. CASE UNCHANGED vars
    BY <2>0, <2>3 DEF vars, Ordered
  <2> QED
    BY <2>1, <2>2, <2>3 DEF Next
<1>3. AllOrdered /\ RunningIsOnline => NewestIdentity
  <2> SUFFICES ASSUME AllOrdered, RunningIsOnline, NEW d \in Devices, Online(d),
                      NEW i \in DOMAIN file[d]
               PROVE  file[d][i].n <= uuid[d].n
    BY DEF NewestIdentity
  <2>1. uuid[d].n # 0
    BY DEF RunningIsOnline, Accepts
  <2> QED
    BY <2>1 DEF AllOrdered, Ordered
<1> QED
  BY <1>1, <1>2, <1>3, RunningOnline, TypeCorrect, PTL DEF Spec

-----------------------------------------------------------------------------
(* The sleeps between retries, one move at a time.                         *)
Paced(d) ==
  /\ descDelay[d] \in Delays /\ sessDelay[d] \in Delays
  /\ at[d] = "session" \/ Online(d) => descDelay[d] # 1
  /\ Online(d) <=> (sessDelay[d] # 1 /\ at[d] # "session")
  /\ descDelay[d] # 1 => at[d] = "descriptor" \/ at[d] = "session" \/ Online(d)

(* Doubling leads from a delay to another, and never to the first.         *)
LEMMA DoubleStaysDelay == \A n \in Delays : DoubleDelay(n) \in Delays \ {1}
BY DEF Delays, DoubleDelay, MaxDelay

(* A step of a device keeps its delays in step with its failures.          *)
LEMMA PacedStep ==
  ASSUME TypeOK, NEW d \in Devices, Paced(d), Move(d)
  PROVE  Paced(d)'
<1> USE TypeDomains
   DEF Domains, Paced, Online, memory, server, hits, GoTo, Stop, Fault
<1>0. 1 \in Delays
  BY DEF Delays
<1>1. CASE Launch(d)
  BY <1>1 DEF Launch
<1>2. CASE GetApiKey(d)
  BY <1>0, <1>2 DEF GetApiKey, ApiGetApiKey
<1>3. CASE LookupUuid(d)
  BY <1>0, <1>3 DEF LookupUuid
<1>4. CASE Register(d)
  BY <1>0, <1>4 DEF Register, ApiRegisterDevice
<1>5. CASE SaveUuid(d)
  BY <1>5 DEF SaveUuid
<1>6. CASE Configure(d)
  BY <1>0, <1>6 DEF Configure
<1>7. CASE SendDescriptor(d)
  BY <1>0, <1>7, DoubleStaysDelay DEF SendDescriptor, ApiSendDescriptor
<1>8. CASE StartSession(d)
  BY <1>8, DoubleStaysDelay DEF StartSession, ApiStartSession
<1>9. CASE FirstKeepalive(d)
  BY <1>9 DEF FirstKeepalive
<1>10. CASE Crash(d)
  BY <1>0, <1>10 DEF Crash
<1> QED
  BY <1>1, <1>2, <1>3, <1>4, <1>5, <1>6, <1>7, <1>8, <1>9, <1>10 DEF Move, Step

(* Every sleep is a power of two up to 64 seconds or 120 seconds, and only *)
(* the first attempt of a process goes without one.                        *)
THEOREM RetriesPaced == Spec => []BackoffLaw
<1>1. Init => BackoffLaw
  BY DEF Init, BackoffLaw, Online, Delays
<1>2. TypeOK /\ BackoffLaw /\ [Next]_vars => BackoffLaw'
  <2> SUFFICES ASSUME TypeOK, BackoffLaw, [Next]_vars, NEW e \in Devices
               PROVE  Paced(e)'
    BY DEF BackoffLaw, Paced
  <2>0. Paced(e)
    BY DEF BackoffLaw, Paced
  <2>1. ASSUME NEW d \in Devices, Move(d), d # e PROVE Paced(e)'
    BY <2>0, <2>1, MoveFrame DEF Keeps, Paced, Online
  <2>2. CASE Move(e)
    BY <2>0, <2>2, PacedStep
  <2>3. CASE UNCHANGED vars
    BY <2>0, <2>3 DEF vars, Paced, Online
  <2> QED
    BY <2>1, <2>2, <2>3 DEF Next
<1> QED
  BY <1>1, <1>2, TypeCorrect, PTL DEF Spec

-----------------------------------------------------------------------------
(* The one line of a device in uuid.list, one move at a time.              *)
LEMMA OneLineStep ==
  ASSUME TypeOK, NEW d \in Devices, "no_file" \notin Faults,
         Matches(d), OneLine(d), Recorded(d), Move(d)
  PROVE  OneLine(d)'
<1> USE TypeDomains DEF Domains, memory, server, hits, GoTo, Stop, Fault
<1>0. file[d] \in Seq(Uuid) /\ uuid[d] \in Uuid
  BY DEF TypeOK
<1>1. CASE Launch(d)
  BY <1>1 DEF Launch, OneLine
<1>2. CASE GetApiKey(d)
  BY <1>2 DEF GetApiKey, ApiGetApiKey, OneLine
<1>3. CASE LookupUuid(d)
  <2>1. file' = file /\ sessions' = sessions
    BY <1>3 DEF LookupUuid
  <2>2. CASE at'[d] = "register"
    BY <1>3, <2>1, <2>2 DEF LookupUuid, OneLine, Found
  <2>3. CASE at'[d] = "setup"
    <3>1. Found(d) /\ Room(d) > 0 /\ uuid'[d] = ReadBack(d)
      BY <1>3, <2>3 DEF LookupUuid
    <3>2. Latest(d) = file[d][1] /\ file[d] # << >>
      BY <1>0, <3>1 DEF OneLine, Found, Latest
    <3> QED
      BY <2>1, <2>3, <3>1, <3>2, ReadBackType DEF OneLine
  <2>4. CASE at'[d] = "off"
    BY <2>1, <2>4 DEF OneLine
  <2> QED
    BY <1>3, <2>2, <2>3, <2>4 DEF LookupUuid
<1>4. CASE Register(d)
  BY <1>4 DEF Register, ApiRegisterDevice, OneLine
<1>5. CASE SaveUuid(d)
  <2>1. file[d] = << >> /\ sessions' = sessions /\ uuid' = uuid /\ at'[d] = "setup"
    BY <1>5 DEF SaveUuid, OneLine
  <2>2. file'[d] = << Written(uuid[d]) >>
    BY <1>5, <2>1 DEF SaveUuid
  <2>3. \A u \in sessions : u.dev # d
    BY <2>1 DEF OneLine
  <2>4. uuid[d].len = UuidLen => Written(uuid[d]) = uuid[d]
    BY DEF Written, UuidLen
  <2> QED
    BY <2>1, <2>2, <2>3, <2>4 DEF OneLine
<1>6. CASE Configure(d)
  BY <1>6 DEF Configure, OneLine
<1>7. CASE SendDescriptor(d)
  BY <1>7 DEF SendDescriptor, ApiSendDescriptor, OneLine
<1>8. CASE StartSession(d)
  <2>1. file' = file /\ uuid' = uuid /\ at'[d] \in {"session", "keepalive"}
    BY <1>8 DEF StartSession, ApiStartSession
  <2>2. /\ file[d] # << >> /\ at[d] = "session"
        /\ uuid[d].len = UuidLen => uuid[d] = file[d][1]
    BY <1>8 DEF StartSession, ApiStartSession, OneLine
  <2>3. \A u \in sessions' : u.dev = d => u = file[d][1]
    BY <2>2, MoveFrame DEF OneLine, Accepts
  <2> QED
    BY <2>1, <2>2, <2>3 DEF OneLine
<1>9. CASE FirstKeepalive(d)
  BY <1>9 DEF FirstKeepalive, OneLine
<1>10. CASE Crash(d)
  BY <1>10 DEF Crash, OneLine
<1> QED
  BY <1>1, <1>2, <1>3, <1>4, <1>5, <1>6, <1>7, <1>8, <1>9, <1>10 DEF Move, Step

(* The invariant everything about identities follows from.                 *)
Inv == TypeOK /\ AllRecorded /\ AllOneLine

(* The invariant holds before any device is started,                       *)
LEMMA InvInit == Init => Inv
<1> SUFFICES ASSUME Init PROVE Inv
  OBVIOUS
<1>1. TypeOK
  BY DEF TypeOK, Init, NoUuid, Uuid, UuidLen, Places
<1>2. AllRecorded
  BY DEF Init, AllRecorded, Recorded, Granted, Online, NoUuid, UuidLen
<1>3. AllOneLine
  BY DEF Init, AllOneLine, OneLine
<1> QED
  BY <1>1, <1>2, <1>3 DEF Inv

(* a step keeps the one line of each device in the file,                   *)
LEMMA OneLineNext ==
  ASSUME Inv, [Next]_vars
  PROVE  AllOneLine'
<1> SUFFICES ASSUME "no_file" \notin Faults, NEW e \in Devices, Matches(e)
             PROVE  OneLine(e)'
  BY DEF AllOneLine, Matches
<1>0. TypeOK /\ OneLine(e) /\ \A d \in Devices : Recorded(d)
  BY DEF Inv, AllOneLine, AllRecorded
<1>1. ASSUME NEW d \in Devices, Move(d), d # e PROVE OneLine(e)'
  <2>1. Keeps(e)
    BY <1>0, <1>1, MoveFrame
  <2>2. \A u \in sessions' : u \in sessions \/ u.dev = d
    BY <1>0, <1>1, MoveFrame DEF Recorded
  <2> QED
    BY <1>0, <1>1, <2>1, <2>2 DEF Keeps, OneLine
<1>2. CASE Move(e)
  BY <1>0, <1>2, OneLineStep
<1>3. CASE UNCHANGED vars
  BY <1>0, <1>3 DEF vars, OneLine
<1> QED
  BY <1>1, <1>2, <1>3 DEF Next

(* and so it always holds.                                                 *)
LEMMA InvInvariant == Spec => []Inv
<1>1. Inv /\ [Next]_vars => Inv'
  BY TypeNext, RecordedNext, OneLineNext DEF Inv
<1> QED
  BY <1>1, InvInit, PTL DEF Spec

(* While uuid.list can be opened, a device goes online under one uuid.     *)
THEOREM IdentityUnique == Spec => []OneIdentity
<1>1. Inv => OneIdentity
  BY DEF Inv, AllOneLine, OneLine, OneIdentity, TypeOK, Uuid
<1> QED
  BY <1>1, InvInvariant, PTL

(* While uuid.list can be opened, a device on file is not registered, and  *)
(* otherwise only after as many faults as it has lines.                    *)
THEOREM NotRegisteredAgain == Spec => NoReRegistration
<1> DEFINE Step0 == \A d \in Devices :
      Matches(d) /\ regs'[d] # regs[d] =>
        IF "no_file" \in Faults THEN Len(file[d]) <= lost[d] ELSE file[d] = << >>
<1>1. Inv /\ AllAccounted /\ [Next]_vars => [Step0]_vars
  <2> SUFFICES ASSUME Inv, AllAccounted, NEW d \in Devices, Move(d), NEW e \in Devices,
                      Matches(e), regs'[e] # regs[e]
               PROVE  IF "no_file" \in Faults THEN Len(file[e]) <= lost[e]
                      ELSE file[e] = << >>
    BY DEF Next
  <2>1. TypeOK /\ Accounted(e) /\ ("no_file" \in Faults \/ OneLine(e))
    BY DEF Inv, AllOneLine, AllAccounted
  <2>2. e = d
    BY <2>1, MoveFrame DEF Keeps
  <2>3. at[e] = "register"
    BY <2>1, <2>2, MoveFrame
  <2> QED
    BY <2>1, <2>3 DEF OneLine, Accounted
<1> QED
  BY <1>1, InvInvariant, AccountedInvariant, PTL DEF Spec, NoReRegistration

-----------------------------------------------------------------------------
(* Refinement                                                              *)

IdOf(d) == {u \in sessions : u.dev = d}

(* Every step of the start-up is a step of the registry, or none: only     *)
(* the first session of a device announces it.                             *)
LEMMA StepRefines ==
  ASSUME Inv, [Next]_vars, "no_file" \notin Faults,
         \A d \in Devices : Matches(d)
  PROVE  [Identity!Next]_(Identity!vars)
<1>0. TypeOK /\ AllRecorded /\ \A d \in Devices : OneLine(d)
  BY DEF Inv, AllOneLine
<1>1. CASE UNCHANGED vars
  BY <1>1 DEF vars, Identity!vars
<1>2. ASSUME NEW d \in Devices, Move(d) PROVE [Identity!Next]_(Identity!vars)
  <2> DEFINE id == [e \in Devices |-> IdOf(e)]
             run == {e \in Devices : at[e] = "running"}
  <2>1. \A e \in Devices \ {d} : at'[e] = at[e]
    BY <1>0, <1>2, MoveFrame DEF Keeps
  <2>2. CASE sessions' # sessions
    <3>0. sessions' = sessions \cup {uuid[d]} /\ at[d] = "session"
      BY <1>0, <1>2, <2>2, MoveFrame
    <3>1. /\ sessions' = sessions \cup {uuid[d]} /\ at[d] = "session"
          /\ uuid[d] \notin sessions /\ uuid[d].dev = d
      BY <1>0, <2>2, <3>0 DEF AllRecorded, Recorded
    <3>2. at'[d] \in {"session", "keepalive"}
      BY <1>0, <1>2, <2>2, MoveFrame
    <3>3. run' = run
      BY <2>1, <3>1, <3>2
    <3>4. IdOf(d) = {}
      BY <1>0, <1>2, <2>2, <3>1, MoveFrame DEF IdOf, OneLine, Accepts
    <3>5. id' = [id EXCEPT ![d] = {uuid[d]}]
      BY <3>1, <3>4 DEF IdOf
    <3>6. \A e \in Devices : uuid[d] \notin id[e]
      BY <3>1 DEF IdOf
    <3>7. id[d] = {} /\ uuid[d] \in id'[d]
      BY <3>4, <3>5
    <3>8. Identity!Announce(d)
      BY <3>3, <3>5, <3>6, <3>7 DEF Identity!Announce, IdOf
    <3> QED
      BY <3>8 DEF Identity!Next
  <2>3. CASE sessions' = sessions
    <3>1. id' = id
      BY <2>3 DEF IdOf
    <3>2. CASE at'[d] = "running" /\ at[d] # "running"
      <4>1. at[d] = "keepalive"
        BY <1>0, <1>2, <3>2, MoveFrame
      <4>2. uuid[d] \in id[d]
        BY <1>0, <4>1 DEF AllRecorded, Recorded, Online, IdOf
      <4>3. run' = run \cup {d}
        BY <2>1, <3>2
      <4>4. Identity!Enter(d)
        BY <3>1, <4>2, <4>3 DEF Identity!Enter, IdOf
      <4> QED
        BY <4>4 DEF Identity!Next
    <3>3. CASE at'[d] # "running" /\ at[d] = "running"
      <4>1. run' = run \ {d}
        BY <2>1, <3>3
      <4>2. Identity!Leave(d)
        BY <3>1, <4>1 DEF Identity!Leave, IdOf
      <4> QED
        BY <4>2 DEF Identity!Next
    <3>4. CASE at'[d] = "running" <=> at[d] = "running"
      <4>1. run' = run
        BY <2>1, <3>4
      <4> QED
        BY <3>1, <4>1 DEF Identity!vars, IdOf
    <3> QED
      BY <3>2, <3>3, <3>4
  <2> QED
    BY <2>2, <2>3
<1> QED
  BY <1>1, <1>2 DEF Next

(* The start-up implements the registry for every set of devices whose     *)
(* names fit a line, whatever crashes, refusals and lost replies happen.   *)
THEOREM ImplementsIdentity ==
  ASSUME "no_file" \notin Faults, \A d \in Devices : Matches(d)
  PROVE  Spec => KeepsIdentity
<1>1. Init => Identity!Init
  BY DEF Init, Identity!Init
<1>2. Inv /\ [Next]_vars => [Identity!Next]_(Identity!vars)
  BY StepRefines
<1> QED
  BY <1>1, <1>2, InvInvariant, PTL DEF Spec, Identity!Spec, KeepsIdentity
=============================================================================
