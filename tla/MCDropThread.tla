---------------------------- MODULE MCDropThread ----------------------------
(* Two addresses, a failure and a crash.                                   *)
EXTENDS DropThread

CONSTANTS ip1, ip2

TwoIPs == {ip1, ip2}
=============================================================================
