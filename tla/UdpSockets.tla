------------------------------ MODULE UdpSockets ------------------------------
(***************************************************************************)
(* The descriptors of abstraction/udp-comm/udp_api.c.  lh_send_to_server   *)
(* opens a socket, binds it to the client port, sends and closes;          *)
(* lh_receive_from_server opens one listener at its first call and keeps   *)
(* it.  Any call of the system may fail.  The calls come in the order the  *)
(* loop of lh_start_device makes them: a keepalive first, then receive,    *)
(* perhaps an answer, perhaps a keepalive, receive, ...                    *)
(*                                                                         *)
(* The system is not in src/: it hands out the lowest free descriptor,     *)
(* gives a datagram to the socket bound last to its port, and blocks a     *)
(* recvfrom on an empty socket that is not set to non-blocking.            *)
(***************************************************************************)
EXTENDS Integers, FiniteSets

CONSTANTS
  Fds,          \* the descriptors the process may have open
  BufferSize,   \* bound: datagrams a socket holds
  Faults,       \* the system calls that may fail
  FaultBudget   \* bound: failures

Calls == {"dns", "socket", "setsockopt", "getaddrinfo", "bind", "sendto"}

ASSUME SocketsAssumption ==
  /\ Fds \subseteq Nat /\ IsFiniteSet(Fds)
  /\ BufferSize \in Nat /\ FaultBudget \in Nat
  /\ Faults \subseteq Calls

NoFd == -1

VARIABLES
  at,          \* where the loop is
  back,        \* where the send in progress returns to
  clientPort,  \* str_client_port: "empty" or "chosen", with destination_addr
  sendFd,      \* send_socket_fd, while a send is in progress
  listener,    \* the static listener_sock_fd
  open,        \* the open descriptors
  nonBlocking, \* those set to non-blocking
  onPort,      \* those bound to the client port
  elsewhere,   \* those bound to a port chosen by the system
  buffer,      \* datagrams in the listener's buffer
  misbound,    \* failures of the bind of a listener
  failures,    \* failures so far
  leaked       \* sends that returned without closing their socket

send == <<at, back, sendFd>>
sockets == <<open, nonBlocking, onPort, elsewhere>>
history == <<misbound, failures, leaked>>
vars == <<send, clientPort, listener, sockets, buffer, history>>

Fails(call) ==
  /\ call \in Faults
  /\ failures < FaultBudget
  /\ failures' = failures + 1

Free == Fds \ open
Lowest(fd) == \A other \in Free : fd <= other

SocketFails == Fails("socket") \/ (Free = {} /\ UNCHANGED failures)

Close(fd) ==
  /\ open' = open \ {fd}
  /\ nonBlocking' = nonBlocking \ {fd}
  /\ onPort' = onPort \ {fd}
  /\ elsewhere' = elsewhere \ {fd}

-----------------------------------------------------------------------------
(* lh_send_to_server                                                       *)

Return == at' = back

SendCalls == at = "first" \/ at = "keepalive" \/ at = "answer"
ReturnPlace == IF at = "answer" THEN "keepalive" ELSE "receive"

(* Without the test for -1.                                                *)
SendOpenUnchecked ==
  /\ SendCalls
  /\ back' = ReturnPlace
  /\ clientPort' = "chosen" /\ at' = "opened"
  /\ \/ /\ \E fd \in Free : Lowest(fd) /\ sendFd' = fd /\ open' = open \cup {fd}
        /\ UNCHANGED failures
     \/ SocketFails /\ UNCHANGED <<sendFd, open>>
  /\ UNCHANGED <<listener, nonBlocking, onPort, elsewhere, buffer, misbound, leaked>>

(* The first send looks the server up and chooses the client port; every   *)
(* one opens a socket.                                                     *)
SendOpen ==
  /\ SendCalls
  /\ back' = ReturnPlace
  /\ \/ /\ clientPort = "empty" /\ Fails("dns")
        /\ at' = ReturnPlace
        /\ UNCHANGED <<clientPort, sendFd, open>>
     \/ /\ clientPort' = "chosen"
        /\ SocketFails
        /\ at' = ReturnPlace
        /\ UNCHANGED <<sendFd, open>>
     \/ /\ clientPort' = "chosen"
        /\ \E fd \in Free : Lowest(fd) /\ sendFd' = fd /\ open' = open \cup {fd}
        /\ at' = "opened"
        /\ UNCHANGED failures
  /\ UNCHANGED <<listener, nonBlocking, onPort, elsewhere, buffer, misbound, leaked>>

(* setsockopt, getaddrinfo and bind: the early returns leave the socket    *)
(* open.                                                                   *)
SendBind ==
  /\ at = "opened"
  /\ \/ /\ at' = "bound"
        /\ onPort' = onPort \cup {sendFd}
        /\ UNCHANGED <<sendFd, failures, leaked>>
     \/ /\ \E call \in {"setsockopt", "getaddrinfo", "bind"} : Fails(call)
        /\ Return
        /\ sendFd' = NoFd
        /\ leaked' = leaked + 1
        /\ UNCHANGED onPort
  /\ UNCHANGED <<back, clientPort, listener, open, nonBlocking, elsewhere,
                 buffer, misbound>>

(* With an early return, like the others, if sendto fails.                 *)
SendCloseUnlessFailed ==
  /\ at = "bound"
  /\ \/ UNCHANGED failures /\ Close(sendFd)
     \/ Fails("sendto") /\ UNCHANGED sockets
  /\ Return /\ sendFd' = NoFd
  /\ UNCHANGED <<back, clientPort, listener, buffer, misbound, leaked>>

(* With no close at all.                                                   *)
SendCloseNever ==
  /\ at = "bound"
  /\ (UNCHANGED failures \/ Fails("sendto"))
  /\ Return /\ sendFd' = NoFd
  /\ UNCHANGED <<back, clientPort, listener, sockets, buffer, misbound, leaked>>

(* sendto and close: a failure to send is logged.                          *)
SendClose ==
  /\ at = "bound"
  /\ (UNCHANGED failures \/ Fails("sendto"))
  /\ Close(sendFd)
  /\ Return /\ sendFd' = NoFd
  /\ UNCHANGED <<back, clientPort, listener, buffer, misbound, leaked>>

KeepaliveNotDue ==
  /\ at = "keepalive" /\ at' = "receive"
  /\ UNCHANGED <<back, sendFd, clientPort, listener, sockets, buffer, history>>

-----------------------------------------------------------------------------
(* lh_receive_from_server                                                  *)

ListenerOpened(fd) ==
  /\ open' = open \cup {fd}
  /\ nonBlocking' = nonBlocking \cup {fd}

(* With the socket closed, and its number kept, if setsockopt fails.       *)
ListenFailedClosing(fd) ==
  \/ /\ Fails("setsockopt") /\ UNCHANGED misbound
     /\ UNCHANGED sockets
  \/ /\ Fails("bind") /\ misbound' = misbound + 1
     /\ UNCHANGED sockets

(* If setsockopt fails the socket stays open and unbound, if bind fails it *)
(* is closed; listener_sock_fd keeps the number either way.                *)
ListenFailed(fd) ==
  \/ /\ Fails("setsockopt") /\ UNCHANGED misbound
     /\ ListenerOpened(fd)
     /\ UNCHANGED <<onPort, elsewhere>>
  \/ /\ Fails("bind") /\ misbound' = misbound + 1
     /\ UNCHANGED sockets

(* Before a client port is chosen str_client_port is the empty string, and *)
(* the system chooses one.                                                 *)
ListenBound(fd) ==
  /\ ListenerOpened(fd)
  /\ IF clientPort = "chosen"
       THEN onPort' = onPort \cup {fd} /\ UNCHANGED elsewhere
       ELSE elsewhere' = elsewhere \cup {fd} /\ UNCHANGED onPort
  /\ UNCHANGED <<failures, misbound>>

(* The listener is opened when listener_sock_fd is -1.                     *)
Listen ==
  /\ at = "receive" /\ listener = NoFd
  /\ \/ /\ Fails("getaddrinfo") \/ SocketFails
        /\ at' = "keepalive"
        /\ UNCHANGED <<listener, sockets, misbound>>
     \/ \E fd \in Free :
          /\ Lowest(fd)
          /\ listener' = fd
          /\ \/ at' = "keepalive" /\ ListenFailed(fd)
             \/ at' = "read" /\ ListenBound(fd)
  /\ UNCHANGED <<back, sendFd, clientPort, buffer, leaked>>

(* recvfrom on whatever has the number listener_sock_fd now.               *)
Read ==
  /\ at = "read" \/ (at = "receive" /\ listener # NoFd)
  /\ \/ /\ listener \in open \cap nonBlocking /\ buffer > 0
        /\ buffer' = buffer - 1
        /\ at' \in {"answer", "keepalive"}
     \/ /\ listener \in open \cap nonBlocking /\ buffer = 0
        /\ at' = "keepalive" /\ UNCHANGED buffer
     \/ /\ listener \notin open
        /\ at' = "keepalive" /\ UNCHANGED buffer
     \/ /\ listener \in open \ nonBlocking
        /\ at' = "blocked" /\ UNCHANGED buffer
  /\ UNCHANGED <<back, sendFd, clientPort, listener, sockets, history>>

(* A datagram for the client port; lost if a socket bound to it later than *)
(* the listener, as every other one is, takes it, or if there is no room.  *)
Arrive ==
  /\ onPort = {listener}
  /\ buffer < BufferSize
  /\ buffer' = buffer + 1
  /\ UNCHANGED <<send, clientPort, listener, sockets, history>>

-----------------------------------------------------------------------------
Init ==
  /\ at = "first" /\ back = "receive" /\ sendFd = NoFd
  /\ clientPort = "empty" /\ listener = NoFd
  /\ open = {} /\ nonBlocking = {} /\ onPort = {} /\ elsewhere = {}
  /\ buffer = 0
  /\ misbound = 0 /\ failures = 0 /\ leaked = 0

Progress == SendBind \/ SendClose \/ Listen \/ Read

Next == SendOpen \/ KeepaliveNotDue \/ Progress \/ Arrive

Spec == Init /\ [][Next]_vars

(* The calls return; a keepalive is due again and again, an answer at once. *)
FairSpec == Spec /\ WF_vars(Progress) /\ SF_vars(SendOpen)
                 /\ WF_vars(SendOpen \/ KeepaliveNotDue)
-----------------------------------------------------------------------------
(* Properties                                                              *)

Places == {"first", "keepalive", "receive", "answer", "opened", "bound",
           "read", "blocked"}

Sending == at = "opened" \/ at = "bound"

TypeOK ==
  /\ at \in Places /\ back \in {"receive", "keepalive"}
  /\ clientPort \in {"empty", "chosen"}
  /\ sendFd \in Fds \cup {NoFd} /\ (Sending <=> sendFd # NoFd)
  /\ listener \in Fds \cup {NoFd}
  /\ open \subseteq Fds
  /\ nonBlocking \subseteq open /\ onPort \subseteq open /\ elsewhere \subseteq open
  /\ buffer \in Nat /\ misbound \in Nat /\ failures \in Nat /\ leaked \in Nat

(* Sockets that a send has left open do not take the datagrams of the      *)
(* listener away: whenever no send is in progress, no socket but the       *)
(* listener is bound to the client port.                                   *)
ListenerHears == ~Sending => onPort \subseteq {listener}

(* Descriptors are lost one by one, and only by sends that fail after      *)
(* their socket was opened: what is open is the listener, the socket of    *)
(* the send in progress and one socket for each of those.                  *)
DescriptorsAccounted ==
  Cardinality(open) =
    leaked + (IF listener \in nonBlocking THEN 1 ELSE 0) + (IF Sending THEN 1 ELSE 0)

(* listener_sock_fd keeps the number of a socket that was closed only if   *)
(* its bind failed.  Between sends such a number is free, and receiving    *)
(* fails, until a send that opened its socket under that number returns    *)
(* without closing it; only then is it the number of another socket, one   *)
(* that blocks, and the loop blocks on it for ever.                        *)
ListenerIsItself ==
  /\ listener # NoFd /\ misbound = 0 => listener \in nonBlocking
  /\ listener \in open \ nonBlocking => misbound = 1 /\ (leaked > 0 \/ sendFd = listener)
  /\ at = "blocked" => misbound = 1 /\ leaked > 0

(* The loop sends again and again, whatever has failed, unless the bind of *)
(* the listener failed and a descriptor was lost too, or descriptors were  *)
(* lost until all but one were gone.                                       *)
KeepsSending ==
  \/ []<>(at = "bound")
  \/ <>(misbound > 0 /\ leaked > 0)
  \/ <>(leaked + 1 >= Cardinality(Fds))

(* udp_api.h of lh_receive_from_server: listening is done in the port that *)
(* lh_send_to_server uses.                                                 *)
SamePort == clientPort = "chosen" /\ listener \in open => listener \notin elsewhere
-----------------------------------------------------------------------------
(* The inductive invariant: which descriptors can be what                  *)

Roles ==
  /\ nonBlocking \subseteq {listener}
  /\ onPort \subseteq {listener} \cup (IF at = "bound" THEN {sendFd} ELSE {})
  /\ Sending => sendFd \in open \ nonBlocking
  /\ misbound = IF listener \in nonBlocking \cup {NoFd} THEN 0 ELSE 1
  /\ at = "blocked" => listener \in open \ nonBlocking
  /\ at = "read" => listener # NoFd
  /\ leaked <= failures /\ misbound <= failures
=============================================================================
