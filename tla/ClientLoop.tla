----------------------------- MODULE ClientLoop -----------------------------
(***************************************************************************)
(* The loop of main that the three clients share: wait at the gate, open a *)
(* socket, connect, exchange, close the socket, and again. The exchange is *)
(* each client's own (EchoClient, SimplePair, Clients).                    *)
(***************************************************************************)
EXTENDS ConnGate, FiniteSets

CONSTANT Descriptors    \* size of the table of file descriptors

ASSUME LoopAssumption == Descriptors \in Nat \ {0}

VARIABLES
    main,           \* where main is
    opened,         \* sockets opened so far; each has its place as identity
    sock,           \* socket of the configuration, 0 for -1
    open,           \* sockets that are open
    eventfds,       \* event descriptors that are open
    lost            \* the connection has ended and the client's stack knows

loop == <<main, opened, sock, open, eventfds, lost>>

LoopInit ==
    /\ GateInit
    /\ opened = 0 /\ sock = 0 /\ open = {} /\ eventfds = 0 /\ lost = FALSE

Free == Descriptors - eventfds - Cardinality(open)

At(from, to) == main = from /\ main' = to

WaitAtGate == main = "gate" /\ Take /\ UNCHANGED loop

Start == At("gate", "socket") /\ Enter /\ UNCHANGED <<opened, sock, open, eventfds, lost>>

Socket ==
    /\ main = "socket"
    /\ \/ /\ Free > 0
          /\ opened' = opened + 1
          /\ sock' = opened' /\ open' = open \cup {opened'} /\ lost' = FALSE
          /\ main' = "connect"
       \/ sock' = 0 /\ main' = "stop" /\ UNCHANGED <<opened, open, lost>>
    /\ UNCHANGED <<gate, eventfds>>

ConnectFails ==
    /\ At("connect", "stop")
    /\ UNCHANGED <<gate, opened, sock, open, eventfds, lost>>

\* prepare_fds: each attempt opens an event descriptor if it can, and nothing closes it.
OpenEventfd == eventfds' = IF Free > 0 THEN eventfds + 1 ELSE eventfds

\* Seeded fault: the socket of an attempt that the network has ended is not closed.
StopOnlyConnected ==
    /\ At("stop", "gate")
    /\ open' = IF connected THEN open \ {sock} ELSE open
    /\ UNCHANGED <<gate, opened, sock, eventfds, lost>>

\* stop_tcp, stop_udp: sock keeps its value.
Stop ==
    /\ At("stop", "gate")
    /\ open' = open \ {sock}
    /\ UNCHANGED <<gate, opened, sock, eventfds, lost>>

Attempt == WaitAtGate \/ Start \/ Socket \/ ConnectFails \/ Stop

Established == sock \in open /\ ~lost /\ main # "connect"

\* The peer closes, or the stack gives the connection up.
ConnectionLost ==
    /\ Established
    /\ lost' = TRUE
    /\ UNCHANGED <<gate, main, opened, sock, open, eventfds>>

LoopTyped ==
    /\ GateTyped
    /\ opened \in Nat /\ sock \in 0 .. opened /\ open \subseteq 1 .. opened
    /\ eventfds \in 0 .. Descriptors /\ lost \in BOOLEAN
-----------------------------------------------------------------------------
(* Properties every client has.                                            *)

\* An attempt that ends on any path, at the gate or by a disconnect in the middle,
\* leaves no socket open, and stop_tcp never closes a number that is not its own. So
\* the event descriptors that prepare_fds leaves behind, one for each attempt, never
\* take the last descriptor: the next attempt finds one for its socket.
SocketsReleased ==
    /\ open \subseteq {sock}
    /\ main = "gate" => open = {}
    /\ main = "stop" /\ sock # 0 => sock \in open
    /\ main = "socket" => Free > 0

\* A connection that has ended is noticed and its socket closed, although poll waits
\* without a timeout and the loop of the simple client never looks at connected.
LossNoticed == lost /\ open # {} ~> open = {}

\* A network that has come up is used: main, when it is back at the gate, begins an
\* attempt, also when the event came in the middle of the last attempt.
ConnectStartsAttempt == fresh /\ main = "gate" ~> ~fresh

\* "On connection, it gives the semaphore to allow the client to run": an attempt
\* needs a token of its own.
RunsOnlyWhenGiven == credit >= 0
=============================================================================
