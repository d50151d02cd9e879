---------------------------- MODULE MCEchoServer ----------------------------
(* Two slots and four connections: both slots are used, one peer is turned  *)
(* away, and a slot is used again.                                          *)
EXTENDS EchoServer
=============================================================================
