--------------------------- MODULE MCBlePingPong ---------------------------
(* Two devices that find each other, at once or one after the other, lose   *)
(* the connection and make a second one.                                    *)
EXTENDS BlePingPong, TLC

Symmetry == Permutations(Devices)
=============================================================================
