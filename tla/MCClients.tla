------------------------------ MODULE MCClients -----------------------------
(* Three network events: the network goes down in every phase of an attempt *)
(* and comes back. Three descriptors: the third attempt finds none left for *)
(* its event descriptor.                                                    *)
EXTENDS Clients
=============================================================================
