----------------------------- MODULE MCRequests -----------------------------
(***************************************************************************)
(* Requests for TLC: TCP connections and the UDP socket, and an            *)
(* application with commands to log in (TCP only), to log out and to do    *)
(* something that requires authentication.                                 *)
(***************************************************************************)
EXTENDS Requests

MCTransport == [ch \in Chans |-> IF ch = "udp" THEN "UDP" ELSE "TCP"]
MCNeedsAuth == Commands \ {"login"}
MCAllowedOn == [cmd \in Commands |-> IF cmd = "login" THEN "TCP" ELSE "ANY"]
MCEffect == [cmd \in Commands |-> IF cmd = "admin" THEN "keep" ELSE cmd]
=============================================================================
