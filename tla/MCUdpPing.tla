----------------------------- MODULE MCUdpPing -----------------------------
(* A second is two ticks, a reply may take three and a pause is one, so     *)
(* waits and pauses both are cut by reports. Three datagrams let a late     *)
(* reply be taken twice for the wrong one.                                  *)
EXTENDS UdpPing
=============================================================================
