------------------------------ MODULE MCSlipRx ------------------------------
(* Payloads: one that ends in an escaped byte; the value of SLIP_ESC_END as *)
(* data; and one longer than a packet holds, so that its tail is cut off.    *)
EXTENDS SlipRx

MCPayloads == { <<"data", "END">>, <<"ESC_END">>, <<"data", "data", "ESC">> }
=============================================================================
