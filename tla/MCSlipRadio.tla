---------------------------- MODULE MCSlipRadio -----------------------------
(* Three commands over two channels and two radio frames against an RX pool*)
(* of two packets and a TX pool of one: both pools run dry.                 *)
EXTENDS SlipRadio
=============================================================================
