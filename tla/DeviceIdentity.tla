--------------------------- MODULE DeviceIdentity ---------------------------
(***************************************************************************)
(* What lh_start_device and uuid.list promise together, seen from the      *)
(* Lhings server: a device announces itself under one identity, once and   *)
(* for all, no two devices share one, and a device only ever serves        *)
(* requests (runs its main loop) under an identity it has announced.       *)
(***************************************************************************)
CONSTANT Devices

VARIABLES
  identity,   \* per device: the set of identities it has announced
  running     \* the devices in their main loop

vars == <<identity, running>>

Init ==
  /\ identity = [d \in Devices |-> {}]
  /\ running = {}

Announce(d) ==
  /\ identity[d] = {}
  /\ \E u \in identity'[d] :
       /\ \A e \in Devices : u \notin identity[e]
       /\ identity' = [identity EXCEPT ![d] = {u}]
  /\ UNCHANGED running

Enter(d) ==
  /\ identity[d] # {}
  /\ running' = running \cup {d}
  /\ UNCHANGED identity

Leave(d) ==
  /\ running' = running \ {d}
  /\ UNCHANGED identity

Next == \E d \in Devices : Announce(d) \/ Enter(d) \/ Leave(d)

Spec == Init /\ [][Next]_vars
=============================================================================
