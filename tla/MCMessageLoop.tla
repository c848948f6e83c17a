---------------------------- MODULE MCMessageLoop ----------------------------
(***************************************************************************)
(* Small instances of MessageLoop.                                         *)
(***************************************************************************)
EXTENDS MessageLoop, TLC

CONSTANTS act, bad, ask, odd   \* model values: requests of the server

KindOf == (act :> "run") @@ (bad :> "refused") @@ (ask :> "status")
          @@ (odd :> "other")

(* What the device does for a request and what it tells of itself.         *)
Handled == {act, ask}
KindOfHandled == [r \in Handled |-> KindOf[r]]

(* What must be answered all the same.                                     *)
RefusedToo == {bad, ask}
KindOfRefusedToo == [r \in RefusedToo |-> KindOf[r]]

(* What is dropped, and a clock that is ahead of the server's by more than *)
(* the server tolerates.                                                   *)
Dropped == {odd}
KindOfDropped == [r \in Dropped |-> KindOf[r]]
Ahead == -5
=============================================================================
