------------------------------ MODULE MCUartTx ------------------------------
(* Three frames, the longest as long as the buffer, and a UART that takes   *)
(* one or two bytes at a time: a frame needs one to three fills, and the    *)
(* third frame shows what a token left over by the first does to the rest. *)
EXTENDS UartTx

MCLens == <<2, 3, 2>>
=============================================================================
