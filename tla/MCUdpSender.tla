---------------------------- MODULE MCUdpSender -----------------------------
(***************************************************************************)
(* Three messages, one of which does not fit into a datagram, and both     *)
(* modes.                                                                  *)
(***************************************************************************)
EXTENDS UdpSender

CONSTANTS a, b, long

MCModes == {"Synchronous", "Asynchronous"}
=============================================================================
