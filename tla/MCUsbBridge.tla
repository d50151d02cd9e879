---------------------------- MODULE MCUsbBridge -----------------------------
(* The address, a frame of the radio and two reports share a ring that      *)
(* holds one reply and a byte. A frame of the radio has an escaped byte,    *)
(* begins like a reply, or makes one of the rest of a reply.                *)
EXTENDS UsbBridge

MCContents == {<<"x", "END">>, <<"!", "x">>, <<"M", "x", "x">>}
MCDigits == <<"0", "1">>
=============================================================================
