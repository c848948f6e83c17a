---------------------------- MODULE MCUdpSockets ----------------------------
(***************************************************************************)
(* Small instances of UdpSockets.                                          *)
(***************************************************************************)
EXTENDS UdpSockets

(* Above stdin, stdout and stderr; as many as there are failures, so that  *)
(* sends that fail can use them all up.                                    *)
FourFds == 3..6
DnsOnly == {"dns"}
=============================================================================
