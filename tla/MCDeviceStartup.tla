-------------------------- MODULE MCDeviceStartup --------------------------
(***************************************************************************)
(* Small instances of DeviceStartup.                                       *)
(***************************************************************************)
EXTENDS DeviceStartup, TLC

CONSTANTS thermo, lamp, pump   \* model values: device names

(* Two devices share the file and the server; 41 is the longest name whose *)
(* line still holds a whole uuid when it is read back.                     *)
RestartDevices == {thermo, lamp}
RestartNameLen == (thermo :> 12) @@ (lamp :> 41)
RestartBudget == (thermo :> 2) @@ (lamp :> 2)
RestartFaults == {"crash", "http", "lost_reply"}

(* A device hit by any three faults, one whose uuid is cut short when read *)
(* back, so that it retries up to the longest sleep, and one whose setup() *)
(* adds no action and whose line is read back without a uuid.              *)
EdgeDevices == {thermo, lamp, pump}
EdgeNameLen == (thermo :> 12) @@ (lamp :> 42) @@ (pump :> 78)
EdgeBudget == (thermo :> 3) @@ (lamp :> 1) @@ (pump :> 0)
EdgeComplete == {thermo, lamp}

(* One device whose name is longer than 41 characters.                     *)
OneDevice == {thermo}
LongNameLen == (thermo :> 42)
OneBudget == (thermo :> 2)
=============================================================================
