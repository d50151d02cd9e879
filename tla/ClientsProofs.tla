---------------------------- MODULE ClientsProofs ---------------------------
(***************************************************************************)
(* Proofs about the clients: the state keeps its type, every attempt gives *)
(* its socket back and leaves a descriptor for the next one, and the echo  *)
(* client never counts a byte for an exchange it does not belong to, for   *)
(* any number of events, descriptors and bytes.                            *)
(*                                                                         *)
(* The three programs share the loop. Each step of any of them is a step   *)
(* of the loop, the opening of an event descriptor, or a step that leaves  *)
(* the descriptors alone and stays on its side of the socket (LoopStep);   *)
(* the invariant of the loop is proved from that once.                     *)
(***************************************************************************)
EXTENDS Clients, FiniteSetTheorems, SequenceTheorems, TLAPS

\* Where main has no socket yet, or no longer.
Apart == {"check", "signal", "mark", "gate", "socket"}

\* The socket of the attempt is open from socket to stop, and only then; and an event
\* descriptor is opened beside an open socket only, so they never fill the table.
Sockets ==
    /\ open \subseteq {sock}
    /\ main \in Apart => open = {}
    /\ main \notin Apart => (main = "stop" /\ sock = 0) \/ sock \in open
    /\ eventfds < Descriptors

\* The bytes of an exchange are read, on their way or gone with the connection; none
\* are left of the last exchange when the next one begins.
Exchange ==
    /\ toServer + toClient <= MaxSend
    /\ main = "kick" => toServer + toClient = 0
    /\ main = "send" => received = expecting
    /\ main \in {"send", "fds", "loop", "poll", "recv"} =>
          received + toServer + toClient <= expecting

IInv ==
    /\ TypeOK
    /\ program \in {"echo", "simple", "udp"}
    /\ Sockets
    /\ program = "echo" => Exchange
    /\ alarms = 0

LEMMA ConstantFacts ==
    /\ MaxEvents \in Nat /\ Descriptors \in Nat \ {0}
    /\ Programs \subseteq {"echo", "simple", "udp"}
    /\ MaxSend \in Nat \ {0} /\ Window \in Nat \ {0}
BY GateAssumption, LoopAssumption, ClientsAssumption

-----------------------------------------------------------------------------
(* The loop, as each program has it.                                       *)

LEMMA SameFree == E!Free = Free /\ S!Free = Free
<1>1. E!Cardinality(open) = Cardinality(open)
  BY Zenon DEF E!Cardinality, Cardinality
<1>2. S!Cardinality(open) = Cardinality(open)
  BY Zenon DEF S!Cardinality, Cardinality
<1>3. QED BY <1>1, <1>2 DEF E!Free, S!Free, Free

LEMMA SameAttempt == (E!Attempt <=> Attempt) /\ (S!Attempt <=> Attempt)
<1>1. (E!WaitAtGate <=> WaitAtGate) /\ (S!WaitAtGate <=> WaitAtGate)
  BY Zenon DEF E!WaitAtGate, S!WaitAtGate, WaitAtGate, E!Take, S!Take, Take, E!loop, S!loop, loop
<1>2. (E!Start <=> Start) /\ (S!Start <=> Start)
  BY Zenon DEF E!Start, S!Start, Start, E!At, S!At, At, E!Enter, S!Enter, Enter
<1>3. (E!Socket <=> Socket) /\ (S!Socket <=> Socket)
  BY Zenon, SameFree DEF E!Socket, S!Socket, Socket, E!gate, S!gate, gate
<1>4. (E!ConnectFails <=> ConnectFails) /\ (S!ConnectFails <=> ConnectFails)
  BY Zenon DEF E!ConnectFails, S!ConnectFails, ConnectFails, E!At, S!At, At, E!gate, S!gate, gate
<1>5. (E!Stop <=> Stop) /\ (S!Stop <=> Stop)
  BY Zenon DEF E!Stop, S!Stop, Stop, E!At, S!At, At, E!gate, S!gate, gate
<1>6. QED
  BY Zenon, <1>1, <1>2, <1>3, <1>4, <1>5 DEF E!Attempt, S!Attempt, Attempt

\* A step of main, of an event or of the work item, at the gate.
GateStep ==
    \/ Connected \/ ConnectedByWork \/ Disconnected \/ WorkHandler \/ Take \/ Enter
    \/ UNCHANGED gate
    \/ Give /\ fresh' \in BOOLEAN /\ UNCHANGED <<last, events, connected, work>>
    \/ connected' \in BOOLEAN /\ UNCHANGED <<last, events, run_app, waiter, work, credit, fresh>>

LEMMA GateStays ==
    ASSUME GateTyped, GateStep
    PROVE  GateTyped'
<1>1. ASSUME NEW e \in {"up", "down"}, Event(e)
      PROVE  last' \in {"none", "up", "down"} /\ events' \in 0 .. MaxEvents
             /\ {connected', fresh'} \subseteq BOOLEAN
  BY <1>1, ConstantFacts DEF Event, GateTyped
<1>2. ASSUME Give
      PROVE  run_app' \in {0, 1} /\ waiter' \in {"no", "waiting", "token", "aborted"}
             /\ credit' \in Int
  BY <1>2 DEF Give, GateTyped
<1>3. CASE Connected
  BY <1>1, <1>2, <1>3 DEF Connected, GateTyped
<1>4. CASE ConnectedByWork
  BY <1>1, <1>4 DEF ConnectedByWork, GateTyped
<1>5. CASE Disconnected
  BY <1>1, <1>5 DEF Disconnected, GateTyped
<1>6. CASE WorkHandler
  BY <1>2, <1>6 DEF WorkHandler, GateTyped
<1>7. CASE Take \/ Enter
  <2>1. /\ UNCHANGED <<last, events, connected, work>>
        /\ run_app' \in {0, 1} /\ waiter' \in {"no", "waiting", "token", "aborted"}
        /\ fresh' \in BOOLEAN /\ credit' \in Int
    <3>0. fresh \in BOOLEAN /\ credit \in Int /\ run_app \in {0, 1}
      BY DEF GateTyped
    <3>1. CASE Take
      BY <3>0, <3>1 DEF Take
    <3>2. CASE Enter
      <4>1. /\ UNCHANGED <<last, events, connected, run_app, work>>
            /\ waiter' = "no" /\ fresh' = FALSE /\ credit' = credit - 1
        BY <3>2, Zenon DEF Enter
      <4>2. fresh' \in BOOLEAN /\ UNCHANGED <<last, events, connected, work>>
        BY <4>1, Zenon
      <4>3. /\ run_app' \in {0, 1} /\ waiter' \in {"no", "waiting", "token", "aborted"}
            /\ credit' \in Int
        BY <3>0, <4>1
      <4>4. QED BY <4>2, <4>3
    <3>3. QED BY <1>7, <3>1, <3>2
  <2>2. QED BY <2>1 DEF GateTyped
<1>8. CASE UNCHANGED gate
  BY <1>8 DEF gate, GateTyped
<1>9. CASE Give /\ fresh' \in BOOLEAN /\ UNCHANGED <<last, events, connected, work>>
  BY <1>2, <1>9 DEF GateTyped
<1>10. CASE /\ connected' \in BOOLEAN
            /\ UNCHANGED <<last, events, run_app, waiter, work, credit, fresh>>
  BY <1>10 DEF GateTyped
<1>11. QED
  BY <1>3, <1>4, <1>5, <1>6, <1>7, <1>8, <1>9, <1>10 DEF GateStep

\* What else a step may do to the loop: nothing but a move of main that stays on its
\* side of the socket, or the opening of an event descriptor.
Moves ==
    /\ UNCHANGED <<opened, sock, open, eventfds>> /\ lost' \in BOOLEAN
    /\ \/ UNCHANGED main
       \/ main \in Apart /\ main' \in Apart
       \/ main \notin Apart \cup {"stop"} /\ main' \notin Apart

OpensEventfd ==
    /\ main = "fds" /\ main' = "loop"
    /\ OpenEventfd /\ UNCHANGED <<opened, sock, open, lost>>

LoopStep == Attempt \/ Moves \/ OpensEventfd

LEMMA FreeFacts ==
    ASSUME LoopTyped, Sockets
    PROVE  /\ open = {} \/ (open = {sock} /\ sock # 0)
           /\ open = {} => Free = Descriptors - eventfds
           /\ open # {} => Free = Descriptors - eventfds - 1
<1>1. Cardinality({}) = 0 /\ Cardinality({sock}) = 1
  BY FS_EmptySet, FS_Singleton
<1>2. open = {} \/ open = {sock}
  BY DEF Sockets
<1>3. sock \in open => sock # 0
  BY DEF LoopTyped
<1>4. open = {} => Free = Descriptors - eventfds
  BY <1>1, ConstantFacts DEF Free, LoopTyped
<1>5. open = {sock} => sock # 0 /\ open # {} /\ Free = Descriptors - eventfds - 1
  BY <1>1, <1>3, ConstantFacts DEF Free, LoopTyped
<1>6. QED BY <1>2, <1>4, <1>5

LEMMA LoopStays ==
    ASSUME LoopTyped, Sockets, GateStep, LoopStep
    PROVE  LoopTyped' /\ Sockets'
<1>0. GateTyped'
  BY GateStays DEF LoopTyped
<1>1. /\ opened \in Nat /\ sock \in 0 .. opened /\ open \subseteq 1 .. opened
      /\ eventfds \in 0 .. Descriptors /\ lost \in BOOLEAN
      /\ Descriptors \in Nat
  BY ConstantFacts DEF LoopTyped
<1>2. CASE WaitAtGate
  BY <1>0, <1>1, <1>2 DEF WaitAtGate, loop, LoopTyped, Sockets, Take
<1>3. CASE Start
  BY <1>0, <1>1, <1>3 DEF Start, At, LoopTyped, Sockets, Apart
<1>4. CASE Socket
  <2>1. main = "socket" /\ open = {} /\ UNCHANGED eventfds
    BY <1>4 DEF Socket, Sockets, Apart
  <2>2. CASE /\ opened' = opened + 1 /\ sock' = opened' /\ open' = open \cup {opened'}
             /\ lost' = FALSE /\ main' = "connect"
    <3>1. opened' \in Nat /\ sock' \in 0 .. opened' /\ open' = {sock'} /\ sock' \in 1 .. opened'
      BY <1>1, <2>1, <2>2
    <3>2. LoopTyped'
      BY <1>0, <1>1, <2>1, <2>2, <3>1 DEF LoopTyped
    <3>3. Sockets'
      BY <2>1, <2>2, <3>1 DEF Sockets, Apart
    <3>4. QED BY <3>2, <3>3
  <2>3. CASE sock' = 0 /\ main' = "stop" /\ UNCHANGED <<opened, open, lost>>
    BY <1>0, <1>1, <2>1, <2>3 DEF LoopTyped, Sockets, Apart
  <2>4. QED BY <1>4, <2>2, <2>3 DEF Socket
<1>5. CASE ConnectFails
  BY <1>0, <1>1, <1>5 DEF ConnectFails, At, LoopTyped, Sockets, Apart
<1>6. CASE Stop
  <2>1. main' = "gate" /\ open' = {} /\ UNCHANGED <<opened, sock, eventfds, lost>>
    BY <1>6 DEF Stop, At, Sockets
  <2>2. QED BY <1>0, <1>1, <2>1 DEF LoopTyped, Sockets, Apart
<1>7. CASE Moves
  <2>1. LoopTyped'
    BY <1>0, <1>1, <1>7 DEF Moves, LoopTyped
  <2>2. QED BY <1>7, <2>1 DEF Moves, Sockets
<1>8. CASE OpensEventfd
  <2>1. /\ main \notin Apart /\ main # "stop" /\ main' \notin Apart
        /\ UNCHANGED <<opened, sock, open, lost>>
        /\ eventfds' = IF Free > 0 THEN eventfds + 1 ELSE eventfds
    BY <1>8 DEF OpensEventfd, OpenEventfd, Apart
  <2>2. sock \in open /\ Free = Descriptors - eventfds - 1
    BY <2>1, FreeFacts DEF Sockets
  <2>3. eventfds' \in 0 .. Descriptors /\ eventfds' < Descriptors
    BY <1>1, <2>1, <2>2 DEF Sockets
  <2>4. QED BY <1>0, <1>1, <2>1, <2>2, <2>3 DEF LoopTyped, Sockets
<1>9. QED
  BY <1>2, <1>3, <1>4, <1>5, <1>6, <1>7, <1>8 DEF LoopStep, Attempt

LEMMA AttemptSteps ==
    ASSUME Attempt
    PROVE  GateStep /\ LoopStep
<1>1. CASE WaitAtGate
  BY <1>1 DEF WaitAtGate, GateStep, LoopStep, Attempt
<1>2. CASE Start
  BY <1>2 DEF Start, GateStep, LoopStep, Attempt
<1>3. CASE Socket
  BY <1>3 DEF Socket, GateStep, LoopStep, Attempt
<1>4. CASE ConnectFails
  BY <1>4 DEF ConnectFails, GateStep, LoopStep, Attempt
<1>5. CASE Stop
  BY <1>5 DEF Stop, GateStep, LoopStep, Attempt
<1>6. QED BY <1>1, <1>2, <1>3, <1>4, <1>5 DEF Attempt

-----------------------------------------------------------------------------
(* The echo client.                                                        *)

LEMMA EchoLoop ==
    ASSUME LoopTyped, E!Next
    PROVE  GateStep /\ LoopStep
<1>0. lost \in BOOLEAN
  BY DEF LoopTyped
<1>1. CASE E!Attempt
  BY <1>1, SameAttempt, AttemptSteps
<1>2. ASSUME NEW from \in {"connect", "kick", "send", "fds", "loop", "poll", "recv"},
             main = from, main' \notin Apart, UNCHANGED <<E!rest, eventfds>>
      PROVE  GateStep /\ LoopStep
  <2>1. UNCHANGED <<gate, opened, sock, open, lost, eventfds>>
    BY <1>2, Zenon DEF E!rest, E!gate, gate
  <2>2. lost' \in BOOLEAN
    BY <1>0, <2>1, Zenon
  <2>3. QED BY <1>2, <2>1, <2>2 DEF GateStep, LoopStep, Moves, Apart
<1>3. CASE E!Connect
  BY <1>2, <1>3 DEF E!Connect, E!At, Apart
<1>4. CASE E!SendTcpData
  BY <1>2, <1>4 DEF E!SendTcpData, E!SendAll, Apart
<1>5. CASE E!PrepareFds
  <2>1. main = "fds" /\ main' = "loop" /\ OpenEventfd
        /\ UNCHANGED <<gate, opened, sock, open, lost>>
    BY <1>5, SameFree, Zenon
       DEF E!PrepareFds, E!At, E!OpenEventfd, OpenEventfd, E!rest, E!gate, gate
  <2>2. QED BY <2>1 DEF GateStep, LoopStep, OpensEventfd
<1>6. CASE E!Loop
  BY <1>2, <1>6 DEF E!Loop, E!At, Apart
<1>7. CASE E!Poll
  BY <1>2, <1>7 DEF E!Poll, E!At, Apart
<1>8. CASE E!RecvNothing
  BY <1>2, <1>8 DEF E!RecvNothing, E!At, Apart
<1>9. CASE \E n \in 1 .. MaxSend : E!Recv(n)
  BY <1>2, <1>9 DEF E!Recv, Apart
<1>10. CASE E!NetworkEvent
  <2>1. (Connected \/ Disconnected) /\ UNCHANGED loop
    BY <1>10, Zenon DEF E!NetworkEvent, E!Connected, E!Disconnected, E!Event, E!Give,
                        Connected, Disconnected, Event, Give, E!loop, loop
  <2>2. QED BY <1>0, <2>1 DEF GateStep, LoopStep, Moves, loop
<1>11. CASE E!ServerEchoes
  <2>1. UNCHANGED <<gate, loop>>
    BY <1>11, Zenon DEF E!ServerEchoes, E!gate, gate, E!loop, loop
  <2>2. QED BY <1>0, <2>1 DEF GateStep, LoopStep, Moves, loop
<1>12. CASE E!Lost
  <2>1. UNCHANGED <<gate, main, opened, sock, open, eventfds>> /\ lost' = TRUE
    BY <1>12, Zenon DEF E!Lost, E!ConnectionLost, E!gate, gate
  <2>2. QED BY <2>1 DEF GateStep, LoopStep, Moves
<1>13. QED
  BY <1>1, <1>3, <1>4, <1>5, <1>6, <1>7, <1>8, <1>9, <1>10, <1>11, <1>12
     DEF E!Next, E!Main

\* Bytes are only moved, read or lost: what is on its way never exceeds what is expected.
LEMMA EchoStays ==
    ASSUME LoopTyped, Sockets, LoopTyped', Sockets', E!EchoTyped, Exchange, alarms = 0, E!Next
    PROVE  E!EchoTyped' /\ Exchange' /\ alarms' = 0
<1> DEFINE Mains == {"gate", "socket", "connect", "kick", "send", "fds", "loop", "poll", "recv",
                     "stop"}
           Quiet == UNCHANGED <<polled, expecting, received, toServer, toClient, alarms>>
           Bytes(a, b, c, d) == a \in 0 .. MaxSend /\ b \in 0 .. MaxSend /\ c \in 0 .. MaxSend
                                  /\ d \in 0 .. MaxSend
<1>0. /\ main \in Mains /\ polled \in 0 .. opened
      /\ Bytes(expecting, received, toServer, toClient)
      /\ opened \in Nat /\ sock \in 0 .. opened /\ MaxSend \in Nat
      /\ opened' \in Nat
  BY ConstantFacts DEF E!EchoTyped, LoopTyped
<1>01. /\ expecting \in Nat /\ received \in Nat /\ toServer \in Nat /\ toClient \in Nat
       /\ expecting <= MaxSend /\ received <= MaxSend
  BY <1>0
<1>1. SUFFICES /\ main' \in Mains /\ polled' \in 0 .. opened'
               /\ Bytes(expecting', received', toServer', toClient') /\ Exchange' /\ alarms' = 0
  BY DEF E!EchoTyped
<1>2. ASSUME opened' = opened \/ opened' = opened + 1, Quiet,
             main' \in Mains \ {"kick", "send", "fds", "loop", "poll", "recv"}
      PROVE  /\ main' \in Mains /\ polled' \in 0 .. opened'
             /\ Bytes(expecting', received', toServer', toClient') /\ Exchange' /\ alarms' = 0
  BY <1>0, <1>2 DEF Exchange
<1>3. ASSUME opened' = opened, Quiet,
             main' = main \/ (main \in {"fds", "loop", "poll", "recv"}
                                /\ main' \in {"fds", "loop", "poll", "recv"})
      PROVE  /\ main' \in Mains /\ polled' \in 0 .. opened'
             /\ Bytes(expecting', received', toServer', toClient') /\ Exchange' /\ alarms' = 0
  BY <1>0, <1>3 DEF Exchange
<1>4. CASE E!Attempt /\ UNCHANGED E!echo
  <2>1. Attempt /\ Quiet
    BY <1>4, SameAttempt DEF E!echo, E!data, E!wire
  <2>2. /\ opened' = opened \/ opened' = opened + 1
        /\ main' \in {"gate", "socket", "connect", "stop"}
    BY <2>1 DEF Attempt, WaitAtGate, Start, Socket, ConnectFails, Stop, At, loop
  <2>3. QED BY <1>2, <2>1, <2>2
<1>5. CASE E!Connect
  <2>1. main' = "kick" /\ toServer' = 0 /\ toClient' = 0
        /\ UNCHANGED <<opened, polled, expecting, received, alarms>>
    BY <1>5 DEF E!Connect, E!At, E!rest, E!data
  <2>2. QED BY <1>0, <2>1 DEF Exchange
<1>6. CASE E!SendTcpData
  <2>1. /\ main \in {"kick", "send"} /\ expecting' \in 1 .. MaxSend /\ received' = 0
        /\ UNCHANGED <<opened, toClient, polled, alarms>>
        /\ \/ /\ toServer' = IF lost THEN toServer ELSE toServer + expecting'
              /\ main' \in {"fds", "loop"}
           \/ main' = "stop" /\ UNCHANGED toServer
    BY <1>6 DEF E!SendTcpData, E!SendAll, E!rest
  <2>2. toServer = 0 /\ toClient = 0
    BY <1>01, <2>1 DEF Exchange
  <2>3. PICK k \in 1 .. MaxSend : expecting' = k
    BY <2>1
  <2>4. PICK m \in {0, k} : toServer' = m /\ toClient' = 0
    BY <1>01, <2>1, <2>2, <2>3
  <2>5. main' \in {"fds", "loop", "stop"}
    BY <2>1
  <2>6. k \in Nat /\ k <= MaxSend /\ m \in Nat /\ m <= k
    BY <1>0, <2>3, <2>4
  <2>7. Bytes(expecting', received', toServer', toClient')
    BY <1>0, <2>1, <2>3, <2>4, <2>6
  <2>8. Exchange'
    <3>1. m + 0 <= MaxSend /\ 0 + m + 0 <= k
      BY <1>0, <2>6
    <3>2. QED BY <2>1, <2>3, <2>4, <2>5, <3>1 DEF Exchange
  <2>9. QED BY <1>0, <2>1, <2>5, <2>7, <2>8
<1>7. CASE E!PrepareFds
  <2>1. main' = "loop" /\ main = "fds" /\ polled' = sock
        /\ UNCHANGED <<opened, sock, expecting, received, toServer, toClient, alarms>>
    BY <1>7 DEF E!PrepareFds, E!At, E!rest, E!data, E!wire
  <2>2. QED BY <1>0, <2>1 DEF Exchange
<1>8. CASE E!Loop
  <2>1. main = "loop" /\ main' \in {"poll", "stop"} /\ opened' = opened /\ Quiet
    BY <1>8 DEF E!Loop, E!At, E!rest, E!echo, E!data, E!wire
  <2>2. QED BY <1>2, <1>3, <2>1
<1>9. CASE E!Poll
  <2>1. main = "poll" /\ main' = "recv" /\ opened' = opened /\ Quiet
    BY <1>9 DEF E!Poll, E!At, E!rest, E!echo, E!data, E!wire
  <2>2. QED BY <1>3, <2>1
<1>10. CASE E!RecvNothing
  <2>1. main = "recv" /\ main' \in {"stop", "loop"} /\ opened' = opened /\ Quiet
    BY <1>10 DEF E!RecvNothing, E!At, E!rest, E!echo, E!data, E!wire
  <2>2. QED BY <1>2, <1>3, <2>1
<1>11. ASSUME NEW n \in 1 .. MaxSend, E!Recv(n)
       PROVE  /\ main' \in Mains /\ polled' \in 0 .. opened'
              /\ Bytes(expecting', received', toServer', toClient') /\ Exchange' /\ alarms' = 0
  <2>1. /\ main = "recv" /\ n \in 1 .. toClient /\ toClient' = toClient - n
        /\ UNCHANGED <<opened, toServer, polled, expecting>>
    BY <1>11 DEF E!Recv, E!rest
  <2>2. received + toServer + toClient <= expecting /\ toServer + toClient <= MaxSend
    BY <2>1 DEF Exchange
  <2>3. ~(received + n > expecting)
    BY <1>0, <2>1, <2>2
  <2>4. /\ received' = received + n /\ alarms' = alarms
        /\ main' = IF received' < expecting THEN "recv" ELSE "send"
    BY <1>11, <2>3 DEF E!Recv
  <2>5. /\ Bytes(expecting', received', toServer', toClient')
        /\ received' + toServer' + toClient' <= expecting'
        /\ toServer' + toClient' <= MaxSend
    BY <1>0, <2>1, <2>2, <2>3, <2>4
  <2>6. main' = "send" => received' = expecting'
    BY <1>0, <2>1, <2>3, <2>4
  <2>7. QED BY <1>0, <2>1, <2>4, <2>5, <2>6 DEF Exchange
<1>12. CASE E!NetworkEvent
  <2>1. UNCHANGED <<main, opened>> /\ Quiet
    BY <1>12 DEF E!NetworkEvent, E!loop, E!echo, E!data, E!wire
  <2>2. QED BY <1>3, <2>1
<1>13. CASE E!ServerEchoes
  <2>1. PICK n \in 1 .. toServer : toServer' = toServer - n /\ toClient' = toClient + n
    BY <1>13 DEF E!ServerEchoes
  <2>2. UNCHANGED <<main, opened, polled, expecting, received, alarms>>
    BY <1>13 DEF E!ServerEchoes, E!loop, E!data
  <2>3. n \in Nat /\ n >= 1 /\ n <= toServer /\ toServer + toClient # 0
        /\ toServer + toClient <= MaxSend
    BY <1>01, <2>1 DEF Exchange
  <2>4. toServer - n \in 0 .. MaxSend /\ toClient + n \in 0 .. MaxSend
    BY <1>0, <1>01, <2>3
  <2>5. /\ (toServer - n) + (toClient + n) = toServer + toClient
        /\ received + (toServer - n) + (toClient + n) = received + toServer + toClient
    BY <1>01, <2>3
  <2>6. Bytes(expecting', received', toServer', toClient')
    BY <1>0, <2>1, <2>2, <2>4
  <2>7. Exchange'
    BY <2>1, <2>2, <2>3, <2>5 DEF Exchange
  <2>8. QED BY <1>0, <2>2, <2>6, <2>7
<1>14. CASE E!Lost
  <2>1. toClient' \in {toClient, 0} /\ UNCHANGED <<main, opened, polled, expecting, received,
                                                   alarms, toServer>>
    BY <1>14 DEF E!Lost, E!ConnectionLost, E!data
  <2>2. CASE toClient' = toClient
    BY <1>3, <2>1, <2>2
  <2>3. CASE toClient' = 0
    <3>1. /\ toServer + 0 <= toServer + toClient
          /\ received + toServer + 0 <= received + toServer + toClient
          /\ toServer + toClient = 0 => toServer + 0 = 0
      BY <1>01
    <3>2. toServer + 0 <= MaxSend
      BY <1>0, <1>01, <3>1 DEF Exchange
    <3>3. main \in {"send", "fds", "loop", "poll", "recv"} => received + toServer + 0 <= expecting
      BY <1>01, <3>1 DEF Exchange
    <3>4. Exchange'
      BY <2>1, <2>3, <3>1, <3>2, <3>3 DEF Exchange
    <3>5. QED BY <1>0, <2>1, <2>3, <3>4
  <2>4. QED BY <2>1, <2>2, <2>3
<1>15. QED
  BY <1>4, <1>5, <1>6, <1>7, <1>8, <1>9, <1>10, <1>11, <1>12, <1>13, <1>14
     DEF E!Next, E!Main

-----------------------------------------------------------------------------
(* The simple client and its server.                                       *)

LEMMA SimpleLoop ==
    ASSUME LoopTyped, S!Next
    PROVE  GateStep /\ LoopStep
<1>0. lost \in BOOLEAN /\ last \in {"none", "up", "down"}
  BY DEF LoopTyped, GateTyped
<1>1. CASE S!Attempt
  BY <1>1, SameAttempt, AttemptSteps
<1>2. ASSUME UNCHANGED <<opened, sock, open, eventfds, lost>>, GateStep,
             \/ UNCHANGED main
             \/ main \in Apart /\ main' \in Apart
             \/ main \notin Apart \cup {"stop"} /\ main' \notin Apart
      PROVE  GateStep /\ LoopStep
  <2>1. lost' \in BOOLEAN
    BY <1>0, <1>2, Zenon
  <2>2. QED BY <1>2, <2>1 DEF LoopStep, Moves
<1>3. ASSUME NEW from \in {"connect", "fds", "loop", "send"},
             main = from, main' \notin Apart, UNCHANGED <<S!gate, S!rest, eventfds>>
      PROVE  GateStep /\ LoopStep
  <2>1. UNCHANGED <<gate, opened, sock, open, eventfds, lost>>
    BY <1>3, Zenon DEF S!rest, S!gate, gate
  <2>2. GateStep
    BY <2>1 DEF GateStep
  <2>3. main \notin Apart \cup {"stop"} /\ main' \notin Apart
    BY <1>3 DEF Apart
  <2>4. QED BY <1>2, <2>1, <2>2, <2>3
<1>4. CASE S!CheckNetwork
  <2>1. UNCHANGED <<gate, opened, sock, open, eventfds, lost>>
    BY <1>4, Zenon DEF S!CheckNetwork, S!gate, gate, S!rest
  <2>2. main = "check" /\ main' \in {"signal", "gate"}
    BY <1>4 DEF S!CheckNetwork, S!At
  <2>3. QED BY <1>2, <2>1, <2>2 DEF GateStep, Apart
<1>5. CASE S!Signal
  <2>1. Give /\ fresh' \in BOOLEAN /\ UNCHANGED <<last, events, connected, work>>
    BY <1>5, Zenon DEF S!Signal, S!Give, Give
  <2>2. main = "signal" /\ main' = "mark" /\ UNCHANGED <<opened, sock, open, eventfds, lost>>
    BY <1>5 DEF S!Signal, S!At, S!rest
  <2>3. QED BY <1>2, <2>1, <2>2 DEF GateStep, Apart
<1>6. CASE S!MarkConnected
  <2>1. /\ connected' \in BOOLEAN
        /\ UNCHANGED <<last, events, run_app, waiter, work, credit, fresh>>
    BY <1>6, Zenon DEF S!MarkConnected
  <2>2. main = "mark" /\ main' = "gate" /\ UNCHANGED <<opened, sock, open, eventfds, lost>>
    BY <1>6 DEF S!MarkConnected, S!At, S!rest
  <2>3. QED BY <1>2, <2>1, <2>2 DEF GateStep, Apart
<1>7. CASE S!Connect
  BY <1>3, <1>7 DEF S!Connect, S!At, Apart
<1>8. CASE S!PrepareFds
  <2>1. main = "fds" /\ main' = "loop" /\ OpenEventfd
        /\ UNCHANGED <<gate, opened, sock, open, lost>>
    BY <1>8, SameFree, Zenon
       DEF S!PrepareFds, S!At, S!OpenEventfd, OpenEventfd, S!rest, S!gate, gate
  <2>2. QED BY <2>1 DEF GateStep, LoopStep, OpensEventfd
<1>9. CASE S!Loop
  BY <1>3, <1>9 DEF S!Loop, S!At, Apart
<1>10. CASE S!SendTcpData
  BY <1>3, <1>10 DEF S!SendTcpData, Apart
<1>11. CASE S!Work \/ S!NetworkEvent
  <2>1. (WorkHandler \/ ConnectedByWork \/ Disconnected) /\ UNCHANGED loop
    BY <1>11, Zenon DEF S!Work, S!WorkHandler, S!Give, S!NetworkEvent, S!ConnectedByWork,
          S!Disconnected, S!Event, WorkHandler, Give, ConnectedByWork, Disconnected, Event,
          S!loop, loop
  <2>2. QED BY <1>2, <2>1 DEF GateStep, loop
<1>12. CASE S!Lost
  <2>1. UNCHANGED <<gate, main, opened, sock, open, eventfds>> /\ lost' = TRUE
    BY <1>12, Zenon DEF S!Lost, S!ConnectionLost, S!gate, gate
  <2>2. QED BY <2>1 DEF GateStep, LoopStep, Moves
<1>13. CASE S!PassGate \/ S!Server \/ S!EndArrives
  <2>1. UNCHANGED <<gate, loop>>
    BY <1>13, Zenon DEF S!PassGate, S!Server, S!StartTcpProto, S!Accept, S!Recv, S!RecvEnds,
          S!EndArrives, S!ServerAt, S!gate, gate, S!loop, loop
  <2>2. QED BY <1>2, <2>1 DEF GateStep, loop
<1>14. QED
  BY <1>1, <1>4, <1>5, <1>6, <1>7, <1>8, <1>9, <1>10, <1>11, <1>12, <1>13
     DEF S!Next, S!Main

LEMMA SetOne ==
    ASSUME NEW T, NEW f \in Seq(T), NEW i, NEW v, i \in DOMAIN f => v \in T
    PROVE  [f EXCEPT ![i] = v] \in Seq(T)
<1>1. Len(f) \in Nat /\ f \in [1 .. Len(f) -> T]
  BY LenProperties
<1>2. [f EXCEPT ![i] = v] \in [1 .. Len(f) -> T]
  BY <1>1
<1>3. QED BY <1>1, <1>2

LEMMA WiderSeq ==
    ASSUME NEW m \in Nat, NEW n \in Nat, m <= n, NEW s \in Seq(1 .. m)
    PROVE  s \in Seq(1 .. n)
<1>1. Len(s) \in Nat /\ s \in [1 .. Len(s) -> 1 .. m]
  BY LenProperties
<1>2. s \in [1 .. Len(s) -> 1 .. n]
  BY <1>1
<1>3. QED BY <1>1, <1>2

LEMMA SimpleStays ==
    ASSUME LoopTyped, Sockets, LoopTyped', S!SimpleTyped, S!Next
    PROVE  S!SimpleTyped'
<1> DEFINE Mains == {"check", "signal", "mark", "gate", "socket", "connect", "fds", "loop",
                     "send", "stop"}
           Peer == /\ server' \in {"gate", "bind", "failed", "accept", "recv"}
                   /\ waiting' \in Seq(1 .. opened')
                   /\ serving' \in 0 .. opened' /\ (serving' # 0 <=> server' = "recv")
                   /\ unread' \in Seq(0 .. Window) /\ ending' \in {"no", "fin", "reset"}
<1>0. /\ main \in Mains /\ server \in {"gate", "bind", "failed", "accept", "recv"}
      /\ waiting \in Seq(1 .. opened) /\ serving \in 0 .. opened
      /\ (serving # 0 <=> server = "recv")
      /\ unread \in Seq(0 .. Window) /\ ending \in {"no", "fin", "reset"}
      /\ opened \in Nat /\ sock \in 0 .. opened /\ Window \in Nat
  BY ConstantFacts DEF S!SimpleTyped, LoopTyped
<1>1. SUFFICES main' \in Mains /\ Peer
  BY DEF S!SimpleTyped
<1>2. ASSUME opened' = opened, UNCHANGED <<server, waiting, serving, unread, ending>>
      PROVE  Peer
  BY <1>0, <1>2
<1>3. CASE S!Attempt /\ UNCHANGED S!simple
  <2>1. Attempt /\ UNCHANGED <<server, waiting, serving, unread, ending>>
    BY <1>3, SameAttempt DEF S!simple
  <2>2. /\ opened' = opened \/ opened' = opened + 1
        /\ main' \in {"gate", "socket", "connect", "stop"}
    BY <2>1 DEF Attempt, WaitAtGate, Start, Socket, ConnectFails, Stop, At, loop
  <2>3. waiting' \in Seq(1 .. opened')
    <3>1. PICK n \in Nat : opened' = n /\ opened <= n
      BY <1>0, <2>2
    <3>2. waiting \in Seq(1 .. n)
      BY <1>0, <3>1, WiderSeq
    <3>3. QED BY <2>1, <3>1, <3>2
  <2>4. serving' \in 0 .. opened'
    BY <1>0, <2>1, <2>2
  <2>5. QED BY <1>0, <2>1, <2>2, <2>3, <2>4
<1>4. CASE S!CheckNetwork \/ S!Signal \/ S!MarkConnected \/ S!PrepareFds \/ S!Loop
  <2>1. /\ main' \in Mains
        /\ opened' = opened /\ UNCHANGED <<server, waiting, serving, unread, ending>>
    BY <1>4 DEF S!CheckNetwork, S!Signal, S!MarkConnected, S!PrepareFds, S!Loop, S!At, S!rest,
                S!simple
  <2>2. QED BY <1>2, <2>1
<1>5. CASE S!Connect
  <2>1. /\ main = "connect" /\ main' = "fds" /\ waiting' = Append(waiting, sock)
        /\ unread' = [c \in 1 .. opened |-> IF c \in DOMAIN unread THEN unread[c] ELSE 0]
        /\ UNCHANGED <<opened, server, serving, ending>>
    BY <1>5 DEF S!Connect, S!At, S!rest
  <2>2. sock \in 1 .. opened
    BY <1>0, <2>1 DEF Sockets, Apart, LoopTyped
  <2>3. waiting' \in Seq(1 .. opened')
    BY <1>0, <2>1, <2>2
  <2>4. unread' \in Seq(0 .. Window)
    <3>1. \A c \in 1 .. opened : (IF c \in DOMAIN unread THEN unread[c] ELSE 0) \in 0 .. Window
      BY <1>0
    <3>2. unread' \in [1 .. opened -> 0 .. Window]
      BY <2>1, <3>1
    <3>3. QED BY <1>0, <3>2
  <2>5. QED BY <1>0, <2>1, <2>3, <2>4
<1>6. CASE S!SendTcpData
  <2>1. /\ main' \in Mains
        /\ \/ unread[sock] < Window /\ unread' = [unread EXCEPT ![sock] = @ + 1]
           \/ unread' = unread
        /\ UNCHANGED <<opened, server, waiting, serving, ending>>
    BY <1>0, <1>6 DEF S!SendTcpData, S!rest
  <2>2. unread' \in Seq(0 .. Window)
    BY <1>0, <2>1
  <2>3. QED BY <1>0, <2>1, <2>2
<1>7. CASE S!Work \/ S!NetworkEvent \/ S!Lost
  <2>1. UNCHANGED <<main, opened, server, waiting, serving, unread, ending>>
    BY <1>7 DEF S!Work, S!NetworkEvent, S!Lost, S!ConnectionLost, S!loop, S!simple
  <2>2. QED BY <1>0, <1>2, <2>1
<1>8. CASE S!PassGate \/ S!StartTcpProto
  <2>1. /\ server \in {"gate", "bind"} /\ server' \in {"bind", "accept", "failed"}
        /\ UNCHANGED <<main, opened, waiting, serving, unread, ending>>
    BY <1>8 DEF S!PassGate, S!StartTcpProto, S!ServerAt, S!loop
  <2>2. QED BY <1>0, <2>1
<1>9. CASE S!Accept
  <2>1. /\ server' = "recv" /\ waiting # <<>> /\ serving' = Head(waiting)
        /\ waiting' = Tail(waiting) /\ ending' = "no" /\ UNCHANGED <<main, opened, unread>>
    BY <1>9 DEF S!Accept, S!ServerAt, S!loop
  <2>2. Head(waiting) \in 1 .. opened /\ Tail(waiting) \in Seq(1 .. opened)
    BY <1>0, <2>1, HeadTailProperties
  <2>3. serving' \in 0 .. opened' /\ serving' # 0
    BY <1>0, <2>1, <2>2
  <2>4. QED BY <1>0, <2>1, <2>2, <2>3
<1>10. CASE S!Recv
  <2>1. /\ server' = "recv" /\ unread[serving] > 0
        /\ unread' = [unread EXCEPT ![serving] = @ - 1]
        /\ UNCHANGED <<main, opened, server, waiting, serving, ending>>
    BY <1>10 DEF S!Recv, S!ServerAt, S!loop
  <2>2. unread' \in Seq(0 .. Window)
    <3>1. serving \in DOMAIN unread => unread[serving] - 1 \in 0 .. Window
      BY <1>0, <2>1
    <3>2. QED BY <1>0, <2>1, <3>1, SetOne
  <2>3. QED BY <1>0, <2>1, <2>2
<1>11. CASE S!RecvEnds
  <2>1. /\ server' = "accept" /\ serving' = 0 /\ unread' = [unread EXCEPT ![serving] = 0]
        /\ UNCHANGED <<main, opened, waiting, ending>>
    BY <1>11 DEF S!RecvEnds, S!ServerAt, S!loop
  <2>2. unread' \in Seq(0 .. Window)
    <3>1. 0 \in 0 .. Window
      BY <1>0
    <3>2. QED BY <1>0, <2>1, <3>1, SetOne
  <2>3. QED BY <1>0, <2>1, <2>2
<1>12. CASE S!EndArrives
  <2>1. ending' \in {"fin", "reset"}
        /\ UNCHANGED <<main, opened, server, waiting, serving, unread>>
    BY <1>12 DEF S!EndArrives, S!loop
  <2>2. QED BY <1>0, <2>1
<1>13. QED
  BY <1>3, <1>4, <1>5, <1>6, <1>7, <1>8, <1>9, <1>10, <1>11, <1>12
     DEF S!Next, S!Main, S!Server

-----------------------------------------------------------------------------
(* The UDP client, and all three.                                          *)

LEMMA UdpLoop ==
    ASSUME LoopTyped, UdpNext
    PROVE  GateStep /\ LoopStep
<1>0. lost \in BOOLEAN
  BY DEF LoopTyped
<1>1. CASE Attempt
  BY <1>1, AttemptSteps
<1>2. CASE UdpConnect \/ ProcessEnds
  <2>1. /\ main \in {"connect", "exchange"} /\ main' \in {"exchange", "stop"}
        /\ UNCHANGED <<gate, opened, sock, open, eventfds, lost>>
    BY <1>2 DEF UdpConnect, ProcessEnds, At
  <2>2. lost' \in BOOLEAN
    BY <1>0, <2>1, Zenon
  <2>3. QED BY <2>1, <2>2 DEF GateStep, LoopStep, Moves, Apart
<1>3. CASE UdpEvent
  <2>1. lost' \in BOOLEAN
    BY <1>0, <1>3, Zenon DEF UdpEvent, loop
  <2>2. QED BY <1>3, <2>1 DEF UdpEvent, loop, GateStep, LoopStep, Moves
<1>4. QED BY <1>1, <1>2, <1>3 DEF UdpNext, UdpMain

LEMMA InitInvariant == Init => IInv
<1> SUFFICES ASSUME Init PROVE IInv
  OBVIOUS
<1>1. /\ LoopInit /\ E!EchoInit /\ S!SimpleInit /\ program \in {"echo", "simple", "udp"}
      /\ last \in {"none", "up"} /\ main \in {"check", "gate"}
      /\ program # "simple" => main = "gate"
  BY ConstantFacts DEF Init
<1>2. LoopTyped /\ Sockets
  <2>1. GateTyped
    <3>1. {connected, work, fresh} \subseteq BOOLEAN
      BY <1>1, Zenon DEF LoopInit, GateInit
    <3>2. events = 0 /\ run_app = 0 /\ waiter = "no" /\ credit = 0
      BY <1>1, Zenon DEF LoopInit, GateInit
    <3>3. QED BY <1>1, <3>1, <3>2, ConstantFacts DEF GateTyped
  <2>2. /\ opened = 0 /\ sock = 0 /\ open = {} /\ eventfds = 0 /\ lost \in BOOLEAN
    BY <1>1, Zenon DEF LoopInit
  <2>3. LoopTyped
    BY <2>1, <2>2, ConstantFacts DEF LoopTyped
  <2>4. QED BY <1>1, <2>2, <2>3, ConstantFacts DEF Sockets, Apart
<1>3. program = "echo" => E!EchoTyped /\ Exchange
  BY <1>1, ConstantFacts DEF LoopInit, E!EchoInit, E!EchoTyped, Exchange
<1>4. S!SimpleTyped
  <2>1. <<>> \in Seq(1 .. opened) /\ <<>> \in Seq(0 .. Window)
    BY EmptySeq
  <2>2. QED BY <1>1, <2>1 DEF LoopInit, S!SimpleInit, S!SimpleTyped
<1>5. QED
  BY <1>1, <1>2, <1>3, <1>4 DEF IInv, TypeOK, E!EchoInit

LEMMA NextInvariant == IInv /\ [Next]_vars => IInv'
<1> SUFFICES ASSUME IInv, [Next]_vars PROVE IInv'
  OBVIOUS
<1>0. /\ TypeOK /\ LoopTyped /\ Sockets /\ alarms = 0
      /\ program \in {"echo", "simple", "udp"}
      /\ program = "echo" => E!EchoTyped /\ Exchange
      /\ program = "simple" => S!SimpleTyped
      /\ program = "udp" => main \in {"gate", "socket", "connect", "exchange", "stop"}
  BY DEF IInv, TypeOK
<1>1. CASE EchoNext
  <2>1. program = "echo" /\ E!Next /\ program' = program
    BY <1>1 DEF EchoNext
  <2>2. LoopTyped' /\ Sockets'
    BY <1>0, <2>1, EchoLoop, LoopStays
  <2>3. E!EchoTyped' /\ Exchange' /\ alarms' = 0
    BY <1>0, <2>1, <2>2, EchoStays
  <2>4. QED BY <1>0, <2>1, <2>2, <2>3 DEF IInv, TypeOK
<1>2. CASE SimpleNext
  <2>1. program = "simple" /\ S!Next /\ program' = program /\ alarms' = alarms
    BY <1>2 DEF SimpleNext, echo
  <2>2. LoopTyped' /\ Sockets'
    BY <1>0, <2>1, SimpleLoop, LoopStays
  <2>3. S!SimpleTyped'
    BY <1>0, <2>1, <2>2, SimpleStays
  <2>4. QED BY <1>0, <2>1, <2>2, <2>3 DEF IInv, TypeOK
<1>3. CASE UdpNext
  <2>1. program = "udp" /\ program' = program /\ alarms' = alarms
    BY <1>3 DEF UdpNext, echo
  <2>2. LoopTyped' /\ Sockets'
    BY <1>0, <1>3, UdpLoop, LoopStays
  <2>3. main' \in {"gate", "socket", "connect", "exchange", "stop"}
    <3>1. CASE Attempt
      BY <1>0, <2>1, <3>1
         DEF Attempt, WaitAtGate, Start, Socket, ConnectFails, Stop, At, loop
    <3>2. CASE UdpConnect \/ ProcessEnds \/ UdpEvent
      BY <1>0, <2>1, <3>2 DEF UdpConnect, ProcessEnds, UdpEvent, At, loop
    <3>3. QED BY <1>3, <3>1, <3>2 DEF UdpNext, UdpMain
  <2>4. QED BY <1>0, <2>1, <2>2, <2>3 DEF IInv, TypeOK
<1>4. CASE UNCHANGED vars
  <2>1. UNCHANGED <<program, gate, loop, echo, simple>>
    BY <1>4 DEF vars
  <2>2. LoopTyped' /\ Sockets'
    BY <1>0, <2>1, Zenon DEF gate, loop, LoopTyped, GateTyped, Sockets
  <2>3. E!EchoTyped' <=> E!EchoTyped
    BY <2>1, Zenon DEF loop, echo, E!EchoTyped
  <2>4. S!SimpleTyped' <=> S!SimpleTyped
    BY <2>1, Zenon DEF loop, simple, S!SimpleTyped
  <2>5. Exchange' <=> Exchange
    BY <2>1, Zenon DEF loop, echo, Exchange
  <2>6. program' = program /\ main' = main /\ alarms' = alarms
    BY <2>1, Zenon DEF loop, echo
  <2>7. QED BY <1>0, <2>2, <2>3, <2>4, <2>5, <2>6 DEF IInv, TypeOK
<1>5. QED BY <1>1, <1>2, <1>3, <1>4 DEF Next

-----------------------------------------------------------------------------
(* The theorems.                                                           *)

\* The inductive invariant holds in every behaviour of the three programs.
THEOREM Invariance == Spec => []IInv
<1>1. Init => IInv
  BY InitInvariant
<1>2. IInv /\ [Next]_vars => IInv'
  BY NextInvariant
<1>3. QED BY <1>1, <1>2, PTL DEF Spec

\* The state keeps its type: run_app is never more than one token, no exchange counts
\* more bytes than it may, and the server never takes a connection nobody opened.
THEOREM TypeCorrect == Spec => []TypeOK
<1>1. IInv => TypeOK
  BY DEF IInv
<1>2. QED BY <1>1, Invariance, PTL

\* An attempt that ends on any path leaves no socket open, closes no socket but its own,
\* and the event descriptors that prepare_fds never closes leave one for the next.
THEOREM SocketsReleasedHolds == Spec => []SocketsReleased
<1>1. ASSUME IInv PROVE SocketsReleased
  <2>1. LoopTyped /\ Sockets
    BY <1>1 DEF IInv, TypeOK
  <2>2. main = "socket" => Free > 0
    <3>1. main = "socket" => Free = Descriptors - eventfds
      BY <2>1, FreeFacts DEF Sockets, Apart
    <3>2. QED BY <2>1, <3>1, ConstantFacts DEF Sockets, LoopTyped
  <2>3. QED BY <2>1, <2>2 DEF Sockets, SocketsReleased, Apart
<1>2. QED BY <1>1, Invariance, PTL

\* compare_tcp_data never fails against a faithful server, whatever the network does
\* to the connection and in whatever pieces the bytes come.
THEOREM NoFalseAlarmHolds == Spec => []NoFalseAlarm
<1>1. IInv => NoFalseAlarm
  BY DEF IInv, NoFalseAlarm, E!NoFalseAlarm
<1>2. QED BY <1>1, Invariance, PTL

=============================================================================
