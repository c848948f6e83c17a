---------------------------- MODULE RequestService ----------------------------
(***************************************************************************)
(* What the Lhings server may rely on when it asks something of a device:  *)
(* an action is performed at least once before it is answered, and no more *)
(* often than copies of its request were made; the answer to a question    *)
(* for the status is a status the device has had since; an answer stays.   *)
(* There are no datagrams, no loop, no crashes.                            *)
(***************************************************************************)
EXTENDS Integers

CONSTANTS
  Requests,
  Actions,   \* the requests for an action that the device can perform,
  Questions  \* and those for its status

VARIABLES
  status,  \* of the device: the number of its changes
  copies,  \* per request: copies made of it
  asked,   \* per request: the status when it was made first
  done,    \* per request: how often its action was performed
  told     \* per request: the status in its answer, or NoAnswer

vars == <<status, copies, asked, done, told>>

NoAnswer == -1

Change == status' \in {status, status + 1}

(* A request is made, or a copy of it.                                     *)
Ask(r) ==
  /\ copies' = [copies EXCEPT ![r] = @ + 1]
  /\ asked' = [asked EXCEPT ![r] = IF copies[r] = 0 THEN status ELSE @]
  /\ UNCHANGED <<status, done, told>>

Perform(r) ==
  /\ r \in Actions /\ done[r] < copies[r]
  /\ done' = [done EXCEPT ![r] = @ + 1]
  /\ Change
  /\ UNCHANGED <<copies, asked, told>>

Answer(r) ==
  /\ copies[r] > 0 /\ told[r] = NoAnswer
  /\ r \in Actions => done[r] > 0
  /\ \E s \in IF r \in Questions THEN asked[r]..status ELSE {0} :
       told' = [told EXCEPT ![r] = s]
  /\ UNCHANGED <<status, copies, asked, done>>

Init ==
  /\ status = 0
  /\ copies = [r \in Requests |-> 0]
  /\ asked = [r \in Requests |-> 0]
  /\ done = [r \in Requests |-> 0]
  /\ told = [r \in Requests |-> NoAnswer]

Next ==
  \/ \E r \in Requests : Ask(r) \/ Perform(r) \/ Answer(r)
  \/ Change /\ UNCHANGED <<copies, asked, done, told>>

Spec == Init /\ [][Next]_vars
=============================================================================
