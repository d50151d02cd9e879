------------------------------- MODULE Clients ------------------------------
(***************************************************************************)
(* The three client programs (apps/echo_client, apps/simple_client,        *)
(* apps/udp_client): which of them runs is chosen at the start. They share *)
(* gate and loop, and differ in who gives the gate and in what they do     *)
(* between connect and stop. The exchange of the UDP client (UdpPing) is   *)
(* here the one step that ends it.                                         *)
(***************************************************************************)
EXTENDS ClientLoop, SequencesExt

CONSTANTS Programs,     \* of "echo", "simple" and "udp"
          MaxSend,      \* most bytes of an exchange of the echo client
          Window        \* messages a connection of the simple client holds

ASSUME ClientsAssumption ==
    /\ Programs \subseteq {"echo", "simple", "udp"}
    /\ MaxSend \in Nat \ {0} /\ Window \in Nat \ {0}

VARIABLES program,
          polled, expecting, received, toServer, toClient, alarms,
          server, waiting, serving, unread, ending

E == INSTANCE EchoClient
S == INSTANCE SimplePair

echo == <<polled, expecting, received, toServer, toClient, alarms>>
simple == <<server, waiting, serving, unread, ending>>
vars == <<program, gate, loop, echo, simple>>

Init ==
    /\ program \in Programs
    /\ LoopInit /\ E!EchoInit /\ S!SimpleInit
    /\ IF program = "simple"
       THEN last \in {"none", "up"} /\ main = "check"
       ELSE last = "none" /\ main = "gate"

-----------------------------------------------------------------------------
(* The UDP client.                                                         *)

UdpConnect ==
    /\ At("connect", "exchange")
    /\ UNCHANGED <<gate, opened, sock, open, eventfds, lost>>

\* process_udp_proto goes on whatever the network does, and ends when poll fails.
ProcessEnds ==
    /\ At("exchange", "stop")
    /\ UNCHANGED <<gate, opened, sock, open, eventfds, lost>>

UdpMain == Attempt \/ UdpConnect

UdpEvent == (Connected \/ Disconnected) /\ UNCHANGED loop

-----------------------------------------------------------------------------
EchoNext == program = "echo" /\ E!Next /\ UNCHANGED <<program, simple>>

SimpleNext == program = "simple" /\ S!Next /\ UNCHANGED <<program, echo>>

UdpNext ==
    /\ program = "udp"
    /\ UdpMain \/ ProcessEnds \/ UdpEvent
    /\ UNCHANGED <<program, echo, simple>>

Next == EchoNext \/ SimpleNext \/ UdpNext

Main ==
    \/ program = "echo" /\ E!Main /\ UNCHANGED simple
    \/ program = "simple" /\ S!Main /\ UNCHANGED echo
    \/ program = "udp" /\ UdpMain /\ UNCHANGED <<echo, simple>>

(* main runs when it can, and so do the work queue and the server once it  *)
(* has begun. The network owes nothing, nor does poll an error.            *)
Spec ==
    /\ Init /\ [][Next]_vars
    /\ WF_vars(Main /\ UNCHANGED program)
    /\ WF_vars(program = "simple" /\ S!Work /\ UNCHANGED <<program, echo>>)
    /\ WF_vars(program = "simple" /\ S!Server /\ UNCHANGED <<program, echo>>)
-----------------------------------------------------------------------------
TypeOK ==
    /\ LoopTyped
    /\ program = "echo" => E!EchoTyped
    /\ program = "simple" => S!SimpleTyped
    /\ program = "udp" => main \in {"gate", "socket", "connect", "exchange", "stop"}

NoFalseAlarm == E!NoFalseAlarm

BacklogServed == S!BacklogServed
=============================================================================
