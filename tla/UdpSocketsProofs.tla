--------------------------- MODULE UdpSocketsProofs ---------------------------
(***************************************************************************)
(* Theorems about UdpSockets for any number of descriptors, any calls that *)
(* may fail and any number of failures.                                    *)
(***************************************************************************)
EXTENDS UdpSockets, FiniteSetTheorems, TLAPS

(* The number that is no descriptor is none that can be had.               *)
LEMMA NoFdIsFree == NoFd \notin Fds
BY SocketsAssumption DEF NoFd

(* A failure is counted.                                                   *)
LEMMA FailsType ==
  ASSUME TypeOK
  PROVE  /\ \A call : Fails(call) => failures' \in Nat /\ failures' = failures + 1
         /\ SocketFails => failures' \in Nat /\ failures' >= failures
<1>1. failures \in Nat
  BY DEF TypeOK
<1> QED
  BY <1>1 DEF Fails, SocketFails

(* Every step keeps the types and the roles of the descriptors.            *)
LEMMA RolesNext == TypeOK /\ Roles /\ [Next]_vars => TypeOK' /\ Roles'
<1> SUFFICES ASSUME TypeOK, Roles, [Next]_vars PROVE TypeOK' /\ Roles'
  OBVIOUS
<1> USE NoFdIsFree DEF TypeOK, Roles, Sending, Places, sockets, send, history
<1>1. CASE SendOpen
  BY <1>1, FailsType
     DEF SendOpen, SendCalls, ReturnPlace, Free
<1>2. CASE SendBind
  BY <1>2, FailsType DEF SendBind, Return
<1>3. CASE SendClose
  BY <1>3, FailsType DEF SendClose, Close, Return
<1>4. CASE KeepaliveNotDue
  BY <1>4 DEF KeepaliveNotDue
<1>5. CASE Listen
  <2>1. ASSUME Fails("getaddrinfo") \/ SocketFails, at' = "keepalive",
               UNCHANGED <<listener, sockets, misbound>>,
               UNCHANGED <<back, sendFd, clientPort, buffer, leaked>>
        PROVE  TypeOK' /\ Roles'
    BY <1>5, <2>1, FailsType DEF Listen
  <2>2. ASSUME NEW fd \in Free, listener' = fd, listener = NoFd,
               at' = "keepalive", ListenFailed(fd),
               UNCHANGED <<back, sendFd, clientPort, buffer, leaked>>
        PROVE  TypeOK' /\ Roles'
    BY <1>5, <2>2, FailsType DEF Listen, ListenFailed, ListenerOpened, Free
  <2>3. ASSUME NEW fd \in Free, listener' = fd, listener = NoFd,
               at' = "read", ListenBound(fd),
               UNCHANGED <<back, sendFd, clientPort, buffer, leaked>>
        PROVE  TypeOK' /\ Roles'
    BY <1>5, <2>3 DEF Listen, ListenBound, ListenerOpened, Free
  <2> QED
    BY <1>5, <2>1, <2>2, <2>3 DEF Listen
<1>6. CASE Read
  BY <1>6 DEF Read
<1>7. CASE Arrive
  BY <1>7 DEF Arrive
<1>8. CASE UNCHANGED vars
  BY <1>8 DEF vars
<1> QED
  BY <1>1, <1>2, <1>3, <1>4, <1>5, <1>6, <1>7, <1>8 DEF Next, Progress

(* Types and roles, which need each other.                                 *)
LEMMA RolesInvariant == Spec => [](TypeOK /\ Roles)
<1>1. Init => TypeOK /\ Roles
  BY NoFdIsFree DEF Init, TypeOK, Roles, Sending, Places
<1> QED
  BY <1>1, RolesNext, PTL DEF Spec

(* The value of every variable stays in its type, whatever call fails.     *)
THEOREM SocketsTypeCorrect == Spec => []TypeOK
BY RolesInvariant, PTL

(* No socket left open by a send takes the listener's datagrams.           *)
THEOREM ListenerAlwaysHears == Spec => []ListenerHears
<1>1. TypeOK /\ Roles => ListenerHears
  BY DEF Roles, ListenerHears, Sending
<1> QED
  BY <1>1, RolesInvariant, PTL

-----------------------------------------------------------------------------
(* Counting descriptors                                                    *)

(* The open descriptors can be counted.                                    *)
LEMMA OpenIsFinite == TypeOK => IsFiniteSet(open) /\ Cardinality(open) \in Nat
BY SocketsAssumption, FS_Subset, FS_CardinalityType DEF TypeOK

(* One that is opened makes them one more,                                 *)
LEMMA OpenOneMore ==
  ASSUME TypeOK, NEW fd \in Free, open' = open \cup {fd}
  PROVE  Cardinality(open') = Cardinality(open) + 1
BY OpenIsFinite, FS_AddElement DEF Free

(* one that is closed one less.                                            *)
LEMMA OpenOneLess ==
  ASSUME TypeOK, NEW fd \in open, open' = open \ {fd}
  PROVE  Cardinality(open') = Cardinality(open) - 1
BY OpenIsFinite, FS_RemoveElement

(* What is open, counted, one step at a time.                              *)
LEMMA AccountedNext ==
  TypeOK /\ Roles /\ DescriptorsAccounted /\ [Next]_vars
    => DescriptorsAccounted'
<1> SUFFICES ASSUME TypeOK, Roles, DescriptorsAccounted, [Next]_vars
             PROVE  DescriptorsAccounted'
  OBVIOUS
<1> USE DEF DescriptorsAccounted, Sending, sockets, history, send
<1>0. leaked \in Nat /\ NoFd \notin nonBlocking
  BY NoFdIsFree DEF TypeOK
<1>1. CASE SendOpen
  <2>1. CASE open' = open
    BY <1>1, <2>1, NoFdIsFree
       DEF SendOpen, SendCalls, ReturnPlace, Free, TypeOK
  <2>2. CASE \E fd \in Free : open' = open \cup {fd}
    <3>1. Cardinality(open') = Cardinality(open) + 1
      BY <2>2, OpenOneMore
    <3> QED
      BY <1>0, <1>1, <2>2, <3>1 DEF SendOpen, SendCalls, ReturnPlace, Free
  <2> QED
    BY <1>1, <2>1, <2>2 DEF SendOpen
<1>2. CASE SendBind
  <2>1. back \in {"receive", "keepalive"}
    BY DEF TypeOK
  <2> QED
    BY <1>0, <1>2, <2>1 DEF SendBind, Return
<1>3. CASE SendClose
  <2>1. sendFd \in open \ nonBlocking /\ at' \in {"receive", "keepalive"}
    BY <1>3 DEF SendClose, Return, Roles, TypeOK
  <2>2. Cardinality(open') = Cardinality(open) - 1
    BY <1>3, <2>1, OpenOneLess DEF SendClose, Close
  <2>3. nonBlocking' = nonBlocking
    BY <1>3, <2>1 DEF SendClose, Close
  <2> QED
    BY <1>0, <1>3, <2>1, <2>2, <2>3 DEF SendClose
<1>4. CASE KeepaliveNotDue
  BY <1>4 DEF KeepaliveNotDue
<1>5. CASE Listen
  <2>1. at = "receive" /\ at' \in {"keepalive", "read"} /\ leaked' = leaked
    BY <1>5 DEF Listen
  <2>2. CASE UNCHANGED sockets
    <3>1. listener \notin nonBlocking /\ listener' \notin nonBlocking
      BY <1>0, <1>5, <2>2 DEF Listen, Free, TypeOK
    <3> QED
      BY <2>1, <2>2, <3>1
  <2>3. ASSUME NEW fd \in Free, listener' = fd, ListenerOpened(fd)
        PROVE  DescriptorsAccounted'
    <3>1. Cardinality(open') = Cardinality(open) + 1
      BY <2>3, OpenOneMore DEF ListenerOpened
    <3>2. listener \notin nonBlocking /\ listener' \in nonBlocking'
      BY <1>0, <1>5, <2>3 DEF Listen, ListenerOpened
    <3> QED
      BY <1>0, <2>1, <3>1, <3>2
  <2> QED
    BY <1>5, <2>2, <2>3 DEF Listen, ListenFailed, ListenBound
<1>6. CASE Read
  BY <1>6 DEF Read
<1>7. CASE Arrive
  BY <1>7 DEF Arrive
<1>8. CASE UNCHANGED vars
  BY <1>8 DEF vars
<1> QED
  BY <1>1, <1>2, <1>3, <1>4, <1>5, <1>6, <1>7, <1>8 DEF Next, Progress

(* A descriptor is lost by a send that fails after its socket was opened,  *)
(* and by nothing else.                                                    *)
THEOREM DescriptorsCounted == Spec => []DescriptorsAccounted
<1>1. Init => DescriptorsAccounted
  BY FS_EmptySet DEF Init, DescriptorsAccounted, Sending
<1> QED
  BY <1>1, AccountedNext, RolesInvariant, PTL DEF Spec

(* The number of the listener becomes another socket's only if its bind    *)
(* failed, and between sends only if a send lost its socket as well; the   *)
(* loop blocks in recvfrom only then.  By the count of what is open.       *)
THEOREM ListenerStaysItself == Spec => []ListenerIsItself
<1>1. ASSUME TypeOK, Roles, DescriptorsAccounted PROVE ListenerIsItself
  <2>1. /\ listener # NoFd /\ misbound = 0 => listener \in nonBlocking
        /\ listener \in open \ nonBlocking => misbound = 1
    BY <1>1, NoFdIsFree DEF TypeOK, Roles
  <2>2. ASSUME listener \in open \ nonBlocking, sendFd # listener PROVE leaked > 0
    <3>1. listener \notin nonBlocking /\ leaked \in Nat
      BY <1>1, <2>2 DEF TypeOK
    <3>2. IsFiniteSet(open) /\ Cardinality(open) \in Nat
      BY <1>1, OpenIsFinite
    <3>3. CASE Sending
      <4>1. sendFd \in open /\ listener \in open \ {sendFd}
        BY <1>1, <2>2, <3>3 DEF Roles
      <4>2. /\ IsFiniteSet(open \ {sendFd})
            /\ Cardinality(open \ {sendFd}) = Cardinality(open) - 1
        BY <3>2, <4>1, FS_RemoveElement
      <4>3. Cardinality(open \ {sendFd}) # 0
        BY <4>1, <4>2, FS_EmptySet
      <4> QED
        BY <1>1, <3>1, <3>2, <3>3, <4>2, <4>3 DEF DescriptorsAccounted
    <3>4. CASE ~Sending
      <4>1. Cardinality(open) # 0
        BY <2>2, <3>2, FS_EmptySet
      <4> QED
        BY <1>1, <3>1, <3>2, <3>4, <4>1 DEF DescriptorsAccounted
    <3> QED
      BY <3>3, <3>4
  <2>3. at = "blocked" => listener \in open \ nonBlocking /\ sendFd # listener
    BY <1>1, NoFdIsFree DEF TypeOK, Roles, Sending
  <2> QED
    BY <2>1, <2>2, <2>3 DEF ListenerIsItself
<1> QED
  BY <1>1, RolesInvariant, DescriptorsCounted, PTL
=============================================================================
