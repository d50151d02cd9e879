----------------------------- MODULE EchoClient -----------------------------
(***************************************************************************)
(* apps/echo_client/src/echo-client.c, from connect to the end of the      *)
(* attempt: the client sends a random number of bytes, and sends again     *)
(* when as many have come back; any error ends the attempt.                *)
(*                                                                         *)
(* The peer echoes faithfully (apps/echo_server), in any pieces, and may   *)
(* close or vanish. Bytes are counted, their values are not modelled: TCP  *)
(* keeps order, and both ends use the same text. Clients has the           *)
(* specification.                                                          *)
(***************************************************************************)
EXTENDS ClientLoop

CONSTANT MaxSend        \* ipsum_len - 1: most bytes of one exchange

VARIABLES
    polled,         \* socket in fds[1], 0 for none
    expecting, received,
    toServer, toClient,     \* bytes on their way in the connection
    alarms          \* history: compare_tcp_data failed

data == <<expecting, received, alarms>>
wire == <<toServer, toClient>>
echo == <<polled, data, wire>>
rest == <<gate, opened, sock, open, lost>>

EchoInit ==
    /\ polled = 0 /\ expecting = 0 /\ received = 0 /\ alarms = 0
    /\ toServer = 0 /\ toClient = 0

Connect ==
    /\ At("connect", "kick")
    /\ toServer' = 0 /\ toClient' = 0
    /\ UNCHANGED <<rest, eventfds, polled, data>>

\* The bytes of an exchange go out, or sendall fails. What is sent to a peer that
\* has gone reaches nobody.
SendAll ==
    /\ main \in {"kick", "send"}
    /\ expecting' \in 1 .. MaxSend
    /\ \/ /\ toServer' = IF lost THEN toServer ELSE toServer + expecting'
          /\ main' = IF main = "kick" THEN "fds" ELSE "loop"
       \/ main' = "stop" /\ UNCHANGED toServer
    /\ UNCHANGED <<rest, eventfds, toClient, polled, alarms>>

\* Seeded fault: received keeps what the last exchange left.
SendKeepsReceived == SendAll /\ UNCHANGED received

\* send_tcp_data, called by start_tcp ("kick") and by process_tcp_proto ("send")
SendTcpData == SendAll /\ received' = 0

\* Seeded fault: the array of the last attempt is used again.
PrepareFdsOnce ==
    /\ At("fds", "loop")
    /\ OpenEventfd
    /\ polled' = IF polled = 0 THEN sock ELSE polled
    /\ UNCHANGED <<rest, data, wire>>

PrepareFds ==
    /\ At("fds", "loop")
    /\ OpenEventfd
    /\ polled' = sock
    /\ UNCHANGED <<rest, data, wire>>

\* while (connected && (ret == 0))
Loop ==
    /\ At("loop", IF connected THEN "poll" ELSE "stop")
    /\ UNCHANGED <<rest, eventfds, echo>>

\* wait: without a timeout, and nothing ever writes the event descriptor.
Poll ==
    /\ At("poll", "recv")
    /\ polled = sock /\ (toClient > 0 \/ lost)
    /\ UNCHANGED <<rest, eventfds, echo>>

\* Seeded fault: the next exchange starts before the last one is complete.
RecvStartsEarly(n) ==
    /\ main = "recv" /\ n \in 1 .. toClient
    /\ toClient' = toClient - n
    /\ IF received + n > expecting
       THEN main' = "stop" /\ alarms' = alarms + 1 /\ UNCHANGED received
       ELSE received' = received + n /\ main' = "send" /\ UNCHANGED alarms
    /\ UNCHANGED <<rest, eventfds, toServer, polled, expecting>>

\* Too much data ends the attempt; all of it starts the next exchange; less
\* makes process_tcp_proto read again.
Recv(n) ==
    /\ main = "recv" /\ n \in 1 .. toClient
    /\ toClient' = toClient - n
    /\ IF received + n > expecting
       THEN main' = "stop" /\ alarms' = alarms + 1 /\ UNCHANGED received
       ELSE /\ received' = received + n
            /\ main' = IF received' < expecting THEN "recv" ELSE "send"
            /\ UNCHANGED alarms
    /\ UNCHANGED <<rest, eventfds, toServer, polled, expecting>>

\* MSG_DONTWAIT finds nothing: back to poll, or the connection is at its end.
RecvNothing ==
    /\ toClient = 0
    /\ At("recv", IF lost THEN "stop" ELSE "loop")
    /\ UNCHANGED <<rest, eventfds, echo>>

Main ==
    \/ Attempt /\ UNCHANGED echo
    \/ Connect \/ SendTcpData \/ PrepareFds \/ Loop \/ Poll \/ RecvNothing
    \/ \E n \in 1 .. MaxSend : Recv(n)

NetworkEvent == (Connected \/ Disconnected) /\ UNCHANGED <<loop, echo>>

\* The server echoes what has arrived, in pieces.
ServerEchoes ==
    /\ Established
    /\ \E n \in 1 .. toServer : toServer' = toServer - n /\ toClient' = toClient + n
    /\ UNCHANGED <<gate, loop, polled, data>>

\* What was not read may be gone with the connection.
Lost ==
    /\ ConnectionLost
    /\ toClient' \in {toClient, 0}
    /\ UNCHANGED <<polled, data, toServer>>

Next == Main \/ NetworkEvent \/ ServerEchoes \/ Lost

EchoTyped ==
    /\ main \in {"gate", "socket", "connect", "kick", "send", "fds", "loop", "poll", "recv",
                 "stop"}
    /\ polled \in 0 .. opened
    /\ {expecting, received, toServer, toClient} \subseteq 0 .. MaxSend /\ alarms \in Nat

\* Against a faithful server the comparison never fails: no byte of an exchange or
\* of an earlier connection is counted for a later one.
NoFalseAlarm == alarms = 0
=============================================================================
