----------------------------- MODULE SimplePair -----------------------------
(***************************************************************************)
(* apps/simple_client/src/simple-client.c from its start and from connect  *)
(* to the end of an attempt, with its peer,                                *)
(* apps/simple_server/src/simple-server.c, and the connections between     *)
(* them. The client sends for ever and reads nothing; the server has one   *)
(* thread, which reads from one connection until it ends.                  *)
(*                                                                         *)
(* What the client sends waits at the server to be read, at most Window    *)
(* messages in a connection. The end of a connection reaches the server,   *)
(* or never does: the network is down, or the client is gone.              *)
(***************************************************************************)
EXTENDS ClientLoop, SequencesExt

CONSTANT Window         \* messages a connection holds

VARIABLES
    server,         \* where main of the server is
    waiting,        \* connections to be accepted
    serving,        \* client_sock, 0 for none
    unread,         \* messages in each connection
    ending          \* what the server has been told of serving: "no", "fin" or "reset"

simple == <<server, waiting, serving, unread, ending>>
rest == <<opened, sock, open, lost>>

SimpleInit ==
    /\ server = "gate" /\ waiting = <<>> /\ serving = 0
    /\ unread = <<>> /\ ending = "no"

-----------------------------------------------------------------------------
(* The client: init_connection_manager. The event of a network that was up *)
(* before the callback was added does not come, so main looks for itself.  *)

CheckNetwork ==
    /\ At("check", IF last = "up" THEN "signal" ELSE "gate")
    /\ UNCHANGED <<gate, rest, eventfds, simple>>

Signal ==
    /\ At("signal", "mark")
    /\ Give /\ fresh' = (last = "up")
    /\ UNCHANGED <<last, events, connected, work, rest, eventfds, simple>>

\* The network may have gone down meanwhile.
MarkConnected ==
    /\ At("mark", "gate")
    /\ connected' = TRUE
    /\ UNCHANGED <<last, events, run_app, waiter, work, credit, fresh, rest, eventfds,
                   simple>>

-----------------------------------------------------------------------------
(* The client: an attempt.                                                 *)

\* More connections may wait than the one that listen asks for.
Connect ==
    /\ At("connect", "fds")
    /\ server \in {"accept", "recv"}
    /\ waiting' = Append(waiting, sock)
    /\ unread' = [c \in 1 .. opened |-> IF c \in DOMAIN unread THEN unread[c] ELSE 0]
    /\ UNCHANGED <<gate, rest, eventfds, server, serving, ending>>

PrepareFds ==
    /\ At("fds", "loop")
    /\ OpenEventfd
    /\ UNCHANGED <<gate, rest, simple>>

\* process_tcp_proto never returns 0: connected is read once.
Loop ==
    /\ At("loop", IF connected THEN "send" ELSE "stop")
    /\ UNCHANGED <<gate, rest, eventfds, simple>>

\* Blocks while the connection is full.
SendTcpData ==
    /\ main = "send"
    /\ lost \/ unread[sock] < Window
    /\ \/ ~lost /\ unread' = [unread EXCEPT ![sock] = @ + 1] /\ UNCHANGED main
       \/ main' = "stop" /\ UNCHANGED unread
    /\ UNCHANGED <<gate, rest, eventfds, server, waiting, serving, ending>>

Main ==
    \/ Attempt /\ UNCHANGED simple
    \/ CheckNetwork \/ Signal \/ MarkConnected
    \/ Connect \/ PrepareFds \/ Loop \/ SendTcpData

Work == WorkHandler /\ UNCHANGED <<loop, simple>>

NetworkEvent == (ConnectedByWork \/ Disconnected) /\ UNCHANGED <<loop, simple>>

Lost == ConnectionLost /\ UNCHANGED simple

-----------------------------------------------------------------------------
(* The server.                                                             *)

ServerAt(from, to) ==
    /\ server = from /\ server' = to
    /\ UNCHANGED <<gate, loop>>

\* Its first network event, or a network that is up already, lets main pass; a reset
\* of run_app does too, for the result of k_sem_take is not looked at.
PassGate == ServerAt("gate", "bind") /\ UNCHANGED <<waiting, serving, unread, ending>>

\* After a failure start_tcp returns and main waits for a semaphore nobody gives.
StartTcpProto ==
    /\ \E to \in {"accept", "failed"} : ServerAt("bind", to)
    /\ UNCHANGED <<waiting, serving, unread, ending>>

\* An accept that fails is tried again.
Accept ==
    /\ ServerAt("accept", "recv")
    /\ waiting # <<>>
    /\ serving' = Head(waiting) /\ waiting' = Tail(waiting)
    /\ ending' = "no"
    /\ UNCHANGED unread

Recv ==
    /\ ServerAt("recv", "recv")
    /\ unread[serving] > 0
    /\ unread' = [unread EXCEPT ![serving] = @ - 1]
    /\ UNCHANGED <<waiting, serving, ending>>

\* Seeded fault: an error of recv is logged and recv called again.
RecvEndsOnlyByFin ==
    /\ ServerAt("recv", "accept")
    /\ ending = "fin" /\ unread[serving] = 0
    /\ serving' = 0 /\ unread' = [unread EXCEPT ![serving] = 0]
    /\ UNCHANGED <<waiting, ending>>

\* recv answers 0 when all is read, an error at once; either way the socket is closed,
\* and what was not read is gone.
RecvEnds ==
    /\ ServerAt("recv", "accept")
    /\ (ending = "fin" /\ unread[serving] = 0) \/ ending = "reset"
    /\ serving' = 0 /\ unread' = [unread EXCEPT ![serving] = 0]
    /\ UNCHANGED <<waiting, ending>>

Server == StartTcpProto \/ Accept \/ Recv \/ RecvEnds

\* The network delivers that a connection has ended, by a close or otherwise; what
\* comes before it is accepted is there to be found then.
EndArrives ==
    /\ server = "recv" /\ ending = "no"
    /\ serving \notin open \/ lost
    /\ ending' \in {"fin", "reset"}
    /\ UNCHANGED <<gate, loop, server, waiting, serving, unread>>

Next == Main \/ Work \/ NetworkEvent \/ Lost \/ PassGate \/ Server \/ EndArrives

SimpleTyped ==
    /\ main \in {"check", "signal", "mark", "gate", "socket", "connect", "fds", "loop", "send",
                 "stop"}
    /\ server \in {"gate", "bind", "failed", "accept", "recv"}
    /\ waiting \in Seq(1 .. opened)
    /\ serving \in 0 .. opened /\ (serving # 0 <=> server = "recv")
    /\ unread \in Seq(0 .. Window) /\ ending \in {"no", "fin", "reset"}

\* The server is held by a client whose end it has not been told: recv has no timeout.
Held == server = "recv" /\ ending = "no"

\* The backlog is served, however the connections before it ended, unless one of them
\* is never known to have ended.
BacklogServed == <>[]Held \/ []<>(waiting = <<>>)
=============================================================================
