-------------------------- MODULE EchoServerProofs --------------------------
(***************************************************************************)
(* Proofs about EchoServer, for any number of slots, connections and       *)
(* network events, and for both kinds of threads.                          *)
(***************************************************************************)
EXTENDS EchoServer, FiniteSetTheorems, SequenceTheorems, TLAPS

LEMMA ConstantFacts ==
    /\ NumHandlers \in Nat \ {0} /\ MaxConns \in Nat /\ MaxEvents \in Nat
    /\ Builds \subseteq BOOLEAN
BY EchoServerAssumption

-----------------------------------------------------------------------------
(* The inductive invariant.                                                *)

\* main starts process_tcp6 once and does not stop before it has ended.
Order ==
    /\ main \in {"take", "pend", "start"} <=> tcp6 = "none"
    /\ main \in {"stop", "abort", "close", "stopped", "left"} => tcp6 = "ended"
    /\ quit_lock # 0 => tcp6 = "ended" /\ main = "wait"
    /\ main \notin {"abort", "close", "stopped"} => at = 1
    /\ main \in {"abort", "close", "stopped"} => listener # "listening" /\ backlog = <<>>
    /\ client # 0 <=> tcp6 \in {"find", "store", "reject"}
    /\ tcp6 = "store" => accepted[slot] = 0

\* How far the handler of a slot is and whether the slot is taken go together.
SlotState(i) ==
    \/ thread[i] \in {"none", "exit"} /\ accepted[i] = 0
    \/ thread[i] \in {"none", "exit"} /\ accepted[i] # 0 /\ tcp6 = "create" /\ slot = i
    \/ thread[i] = "none" /\ accepted[i] # 0 /\ Stopping
    \/ thread[i] = "begin" /\ accepted[i] # 0
    \/ thread[i] \in Busy \cup {"clear"} /\ accepted[i] # 0 /\ accepted[i] = serves[i]

SlotStates ==
    /\ \A i \in Slots : SlotState(i)
    /\ tcp6 = "create" => accepted[slot] # 0 /\ thread[slot] \in {"none", "exit"}
    /\ tcp6 = "none" => \A i \in Slots : thread[i] = "none" /\ accepted[i] = 0

\* A connection is in one place: it waits, is being handed out, or is in one slot.
OnePlace ==
    /\ \A i \in Slots : accepted[i] <= born
    /\ \A i, j \in Slots : i # j /\ accepted[i] # 0 => accepted[i] # accepted[j]
    /\ client <= born /\ \A i \in Slots : client # 0 => accepted[i] # client
    /\ \A k \in 1 .. Len(backlog) :
        /\ backlog[k] <= born /\ backlog[k] # client
        /\ \A i \in Slots : accepted[i] # backlog[k]
        /\ \A j \in 1 .. Len(backlog) : j # k => backlog[j] # backlog[k]

Passed(i) == main = "stopped" \/ (main \in {"abort", "close"} /\ i < at)

\* What is open is in one of those places, and nothing stop_tcp has been at is open.
Somewhere(c) ==
    \/ \E k \in 1 .. Len(backlog) : backlog[k] = c
    \/ c = client
    \/ \E i \in Slots : accepted[i] = c /\ thread[i] # "clear" /\ ~Passed(i)

OpenSomewhere == \A c \in open : c <= born /\ Somewhere(c)

\* A handler clears its slot after it has closed its connection.
ClearIsClosed == \A i \in Slots : thread[i] = "clear" => accepted[i] \notin open

\* As long as stop_tcp has not begun, what is in one of those places is open.
OpenHere ==
    ~Stopping =>
        /\ \A i \in Slots : accepted[i] # 0 /\ thread[i] # "clear" => accepted[i] \in open
        /\ client # 0 => client \in open
        /\ \A k \in 1 .. Len(backlog) : backlog[k] \in open

\* Cooperative threads are not in the middle of something at the same time, and none
\* is created on one that exists.
OneAtATime ==
    cooperative =>
        /\ ~reused
        /\ tcp6 \in MidTcp6 => \A i \in Slots : thread[i] \notin MidHandler

IInv ==
    /\ TypeOK /\ Order /\ SlotStates /\ OnePlace
    /\ OpenSomewhere /\ ClearIsClosed /\ OpenHere /\ OneAtATime
LEMMA NextTyped ==
    ASSUME TypeOK, Order, [Next]_vars
    PROVE  TypeOK'
<1> USE ConstantFacts DEF net, slots, sockets, build, Slots, Conns, TypeOK, Busy
<1>1. CASE Connected
  BY <1>1 DEF Connected
<1>2. CASE Disconnected
  <2>1. main' \in {"take", "pend", "start", "wait", "stop", "abort", "close", "stopped", "left"}
    BY <1>2 DEF Disconnected
  <2>2. connected' \in BOOLEAN /\ {cooperative', reused'} \subseteq BOOLEAN
    BY <1>2, Zenon DEF Disconnected
  <2>3. QED BY <1>2, <2>1, <2>2 DEF Disconnected
<1>3. CASE TakeRunApp
  BY <1>3 DEF TakeRunApp
<1>4. CASE StartTcp
  BY <1>4 DEF StartTcp
<1>5. CASE TakeQuitLock
  BY <1>5 DEF TakeQuitLock
<1>6. CASE StopListening
  <2>1. open' \subseteq Conns
    BY <1>6, Zenon DEF StopListening
  <2>2. QED BY <1>6, <2>1 DEF StopListening
<1>7. CASE StopHandler
  BY <1>7 DEF StopHandler
<1>8. CASE StopClient
  <2>1. open' \subseteq Conns
    BY <1>8, Zenon DEF StopClient
  <2>2. QED BY <1>8, <2>1, SMTT(30) DEF StopClient
<1>9. CASE StartTcpProto
  BY <1>9 DEF StartTcpProto
<1>10. CASE Accept
  BY <1>10, SMTT(30) DEF Accept
<1>11. CASE AcceptFails
  BY <1>11 DEF AcceptFails
<1>12. CASE FindSlot
  BY <1>12, SMTT(30) DEF FindSlot
<1>13. CASE RejectClient
  BY <1>13 DEF RejectClient
<1>14. CASE StoreClient
  BY <1>14 DEF StoreClient
<1>15. CASE CreateHandler
  BY <1>15 DEF CreateHandler
<1>16. CASE Quit
  <2>1. quit_lock = 0
    BY <1>16 DEF Quit, Order
  <2>2. QED BY <1>16, <2>1 DEF Quit
<1>17. CASE PeerConnects
  BY <1>17 DEF PeerConnects
<1>18. ASSUME NEW i \in Slots, Begin(i)
      PROVE  TypeOK'
  BY <1>18 DEF Begin, Goto
<1>19. ASSUME NEW i \in Slots, Recv(i)
      PROVE  TypeOK'
  <2>1. CASE Goto(i, "recv", "send")
    BY <1>19, <2>1, SMTT(30) DEF Recv, Goto
  <2>2. CASE Goto(i, "recv", "unuse")
    BY <1>19, <2>2, SMTT(30) DEF Recv, Goto
  <2>3. QED BY <1>19, <2>1, <2>2 DEF Recv
<1>20. ASSUME NEW i \in Slots, SendAll(i)
      PROVE  TypeOK'
  <2>1. CASE Goto(i, "send", "recv")
    BY <1>20, <2>1, SMTT(30) DEF SendAll, Goto
  <2>2. CASE Goto(i, "send", "unuse")
    BY <1>20, <2>2 DEF SendAll, Goto
  <2>3. QED BY <1>20, <2>1, <2>2 DEF SendAll
<1>21. ASSUME NEW i \in Slots, Unuse(i)
      PROVE  TypeOK'
  BY <1>21 DEF Unuse, Goto
<1>22. ASSUME NEW i \in Slots, Close(i)
      PROVE  TypeOK'
  <2>1. open' \subseteq Conns
    BY <1>22, Zenon DEF Close
  <2>2. QED BY <1>22, <2>1, SMTT(30) DEF Close, Goto
<1>23. ASSUME NEW i \in Slots, Clear(i)
      PROVE  TypeOK'
  BY <1>23 DEF Clear, Goto
<1>24. ASSUME NEW i \in Slots, Exit(i)
      PROVE  TypeOK'
  BY <1>24, SMTT(30) DEF Exit, Goto
<1>25. CASE UNCHANGED vars
  BY <1>25 DEF vars
<1>26. QED
  BY <1>1, <1>2, <1>3, <1>4, <1>5, <1>6, <1>7, <1>8, <1>9, <1>10, <1>11, <1>12, <1>13, <1>14, <1>15, <1>16, <1>17, <1>18, <1>19, <1>20, <1>21, <1>22, <1>23, <1>24, <1>25 DEF Next, Main, ProcessTcp6, Handler

LEMMA NextOrder ==
    ASSUME TypeOK, Order, SlotStates, [Next]_vars
    PROVE  Order'
<1> USE ConstantFacts DEF net, slots, sockets, build, Slots, Conns, TypeOK, Order, SlotStates
<1>1. CASE Connected
  BY <1>1 DEF Connected
<1>2. CASE Disconnected
  BY <1>2 DEF Disconnected
<1>3. CASE TakeRunApp
  BY <1>3 DEF TakeRunApp
<1>4. CASE StartTcp
  BY <1>4 DEF StartTcp
<1>5. CASE TakeQuitLock
  BY <1>5 DEF TakeQuitLock
<1>6. CASE StopListening
  BY <1>6 DEF StopListening
<1>7. CASE StopHandler
  BY <1>7 DEF StopHandler
<1>8. CASE StopClient
  BY <1>8 DEF StopClient
<1>9. CASE StartTcpProto
  BY <1>9 DEF StartTcpProto
<1>10. CASE Accept
  BY <1>10 DEF Accept
<1>11. CASE AcceptFails
  BY <1>11 DEF AcceptFails
<1>12. CASE FindSlot
  BY <1>12 DEF FindSlot
<1>13. CASE RejectClient
  BY <1>13 DEF RejectClient
<1>14. CASE StoreClient
  BY <1>14 DEF StoreClient
<1>15. CASE CreateHandler
  BY <1>15 DEF CreateHandler
<1>16. CASE Quit
  BY <1>16 DEF Quit
<1>17. CASE PeerConnects
  BY <1>17 DEF PeerConnects
<1>18. ASSUME NEW i \in Slots, Begin(i)
      PROVE  Order'
  BY <1>18 DEF Begin, Goto
<1>19. ASSUME NEW i \in Slots, Recv(i)
      PROVE  Order'
  BY <1>19 DEF Recv, Goto
<1>20. ASSUME NEW i \in Slots, SendAll(i)
      PROVE  Order'
  BY <1>20 DEF SendAll, Goto
<1>21. ASSUME NEW i \in Slots, Unuse(i)
      PROVE  Order'
  BY <1>21 DEF Unuse, Goto
<1>22. ASSUME NEW i \in Slots, Close(i)
      PROVE  Order'
  BY <1>22 DEF Close, Goto
<1>23. ASSUME NEW i \in Slots, Clear(i)
      PROVE  Order'
  BY <1>23 DEF Clear, Goto
<1>24. ASSUME NEW i \in Slots, Exit(i)
      PROVE  Order'
  BY <1>24 DEF Exit, Goto
<1>25. CASE UNCHANGED vars
  BY <1>25 DEF vars
<1>26. QED
  BY <1>1, <1>2, <1>3, <1>4, <1>5, <1>6, <1>7, <1>8, <1>9, <1>10, <1>11, <1>12, <1>13, <1>14, <1>15, <1>16, <1>17, <1>18, <1>19, <1>20, <1>21, <1>22, <1>23, <1>24, <1>25 DEF Next, Main, ProcessTcp6, Handler

LEMMA NextSlotStates ==
    ASSUME TypeOK, Order, SlotStates, [Next]_vars
    PROVE  SlotStates'
<1> USE ConstantFacts DEF net, slots, sockets, build, Slots, Conns, TypeOK, Order, SlotStates, SlotState, Busy, Stopping
<1>1. CASE Connected
  BY <1>1 DEF Connected
<1>2. CASE Disconnected
  BY <1>2 DEF Disconnected
<1>3. CASE TakeRunApp
  BY <1>3 DEF TakeRunApp
<1>4. CASE StartTcp
  BY <1>4 DEF StartTcp
<1>5. CASE TakeQuitLock
  BY <1>5 DEF TakeQuitLock
<1>6. CASE StopListening
  BY <1>6 DEF StopListening
<1>7. CASE StopHandler
  BY <1>7 DEF StopHandler
<1>8. CASE StopClient
  BY <1>8 DEF StopClient
<1>9. CASE StartTcpProto
  BY <1>9 DEF StartTcpProto
<1>10. CASE Accept
  BY <1>10 DEF Accept
<1>11. CASE AcceptFails
  BY <1>11 DEF AcceptFails
<1>12. CASE FindSlot
  BY <1>12 DEF FindSlot
<1>13. CASE RejectClient
  BY <1>13 DEF RejectClient
<1>14. CASE StoreClient
  BY <1>14 DEF StoreClient
<1>15. CASE CreateHandler
  BY <1>15 DEF CreateHandler
<1>16. CASE Quit
  BY <1>16 DEF Quit
<1>17. CASE PeerConnects
  BY <1>17 DEF PeerConnects
<1>18. ASSUME NEW i \in Slots, Begin(i)
      PROVE  SlotStates'
  BY <1>18 DEF Begin, Goto
<1>19. ASSUME NEW i \in Slots, Recv(i)
      PROVE  SlotStates'
  <2>1. CASE Goto(i, "recv", "send")
    BY <1>19, <2>1 DEF Recv, Goto
  <2>2. CASE Goto(i, "recv", "unuse")
    BY <1>19, <2>2 DEF Recv, Goto
  <2>3. QED BY <1>19, <2>1, <2>2 DEF Recv
<1>20. ASSUME NEW i \in Slots, SendAll(i)
      PROVE  SlotStates'
  <2>1. CASE Goto(i, "send", "recv")
    BY <1>20, <2>1 DEF SendAll, Goto
  <2>2. CASE Goto(i, "send", "unuse")
    BY <1>20, <2>2 DEF SendAll, Goto
  <2>3. QED BY <1>20, <2>1, <2>2 DEF SendAll
<1>21. ASSUME NEW i \in Slots, Unuse(i)
      PROVE  SlotStates'
  BY <1>21 DEF Unuse, Goto
<1>22. ASSUME NEW i \in Slots, Close(i)
      PROVE  SlotStates'
  BY <1>22 DEF Close, Goto
<1>23. ASSUME NEW i \in Slots, Clear(i)
      PROVE  SlotStates'
  BY <1>23 DEF Clear, Goto
<1>24. ASSUME NEW i \in Slots, Exit(i)
      PROVE  SlotStates'
  BY <1>24 DEF Exit, Goto
<1>25. CASE UNCHANGED vars
  BY <1>25 DEF vars
<1>26. QED
  BY <1>1, <1>2, <1>3, <1>4, <1>5, <1>6, <1>7, <1>8, <1>9, <1>10, <1>11, <1>12, <1>13, <1>14, <1>15, <1>16, <1>17, <1>18, <1>19, <1>20, <1>21, <1>22, <1>23, <1>24, <1>25 DEF Next, Main, ProcessTcp6, Handler

LEMMA OnePlaceKept ==
    ASSUME OnePlace, UNCHANGED <<accepted, born, client, backlog>>
    PROVE  OnePlace'
BY DEF OnePlace

\* A connection comes to the end of the queue.
LEMMA OnePlaceQueued ==
    ASSUME OnePlace, UNCHANGED <<accepted, client>>, born \in Nat, born' = born + 1,
           backlog \in Seq(Conns), born' \in Conns, backlog' = Append(backlog, born'),
           client \in Nat, \A i \in Slots : accepted[i] \in Nat
    PROVE  OnePlace'
<1>1. /\ Len(backlog) \in Nat /\ Len(backlog') = Len(backlog) + 1
      /\ backlog'[Len(backlog')] = born'
      /\ \A k \in 1 .. Len(backlog) : backlog'[k] = backlog[k] /\ backlog[k] \in Nat
  <2>1. \A k \in 1 .. Len(backlog) : backlog[k] \in Conns
    BY ElementOfSeq
  <2>2. \A k \in 1 .. Len(backlog) : backlog[k] \in Nat
    BY <2>1 DEF Conns
  <2>3. QED BY <2>2, AppendProperties, LenProperties
<1>2. \A k \in 1 .. Len(backlog') : k \in 1 .. Len(backlog) \/ k = Len(backlog')
  BY <1>1
<1>3. \A i \in Slots : accepted[i] <= born' /\ accepted[i] # born'
  BY DEF OnePlace
<1>4. client <= born' /\ client # born'
  BY DEF OnePlace
<1>5. \A k \in 1 .. Len(backlog) : backlog[k] <= born' /\ backlog[k] # born'
  BY <1>1 DEF OnePlace
<1>6. ASSUME NEW k \in 1 .. Len(backlog')
      PROVE  /\ backlog'[k] <= born' /\ backlog'[k] # client
             /\ \A i \in Slots : accepted[i] # backlog'[k]
  <2>1. CASE k \in 1 .. Len(backlog)
    BY <1>1, <1>5, <2>1 DEF OnePlace
  <2>2. CASE k = Len(backlog')
    BY <1>1, <1>3, <1>4, <2>2
  <2>3. QED BY <1>2, <2>1, <2>2
<1>7. ASSUME NEW k \in 1 .. Len(backlog'), NEW j \in 1 .. Len(backlog'), j # k
      PROVE  backlog'[j] # backlog'[k]
  <2>1. CASE k \in 1 .. Len(backlog) /\ j \in 1 .. Len(backlog)
    BY <1>1, <1>7, <2>1 DEF OnePlace
  <2>2. CASE k \in 1 .. Len(backlog) /\ j = Len(backlog')
    BY <1>1, <1>5, <2>2
  <2>3. CASE k = Len(backlog') /\ j \in 1 .. Len(backlog)
    BY <1>1, <1>5, <2>3
  <2>4. QED BY <1>2, <1>7, <2>1, <2>2, <2>3
<1>8. QED BY <1>3, <1>4, <1>6, <1>7 DEF OnePlace

\* A handler gives its slot up.
LEMMA OnePlaceCleared ==
    ASSUME OnePlace, UNCHANGED <<born, client, backlog>>, born \in Nat,
           \A k \in 1 .. Len(backlog) : backlog[k] # 0, NEW i \in Slots,
           \A j \in Slots : accepted'[j] = IF j = i THEN 0 ELSE accepted[j]
    PROVE  OnePlace'
BY DEF OnePlace

LEMMA NextOnePlace ==
    ASSUME TypeOK, Order, SlotStates, OnePlace, [Next]_vars
    PROVE  OnePlace'
<1> USE ConstantFacts DEF net, slots, sockets, build, Slots, Conns, TypeOK, Order, OnePlace
<1>1. CASE Connected
  BY <1>1 DEF Connected
<1>2. CASE Disconnected
  BY <1>2 DEF Disconnected
<1>3. CASE TakeRunApp
  BY <1>3 DEF TakeRunApp
<1>4. CASE StartTcp
  BY <1>4 DEF StartTcp
<1>5. CASE TakeQuitLock
  BY <1>5 DEF TakeQuitLock
<1>6. CASE StopListening
  BY <1>6 DEF StopListening
<1>7. CASE StopHandler
  BY <1>7 DEF StopHandler
<1>8. CASE StopClient
  BY <1>8 DEF StopClient
<1>9. CASE StartTcpProto
  BY <1>9 DEF StartTcpProto
<1>10. CASE Accept
  <2>1. /\ Len(backlog') = Len(backlog) - 1 /\ Len(backlog) \in Nat \ {0}
        /\ client' = backlog[1]
        /\ \A k \in 1 .. Len(backlog') : backlog'[k] = backlog[k + 1]
    BY <1>10, HeadTailProperties, EmptySeq DEF Accept
  <2>2. /\ accepted' = accepted /\ born' = born /\ client' # 0
    BY <1>10, <2>1 DEF Accept
  <2>3. ASSUME NEW k \in 1 .. Len(backlog')
        PROVE  /\ k + 1 \in 1 .. Len(backlog) /\ 1 \in 1 .. Len(backlog) /\ k + 1 # 1
    BY <2>1
  <2>4. /\ client' <= born' /\ \A j \in Slots : accepted'[j] # client'
    BY <2>1, <2>2
  <2>5. \A k \in 1 .. Len(backlog') :
           /\ backlog'[k] <= born' /\ backlog'[k] # client'
           /\ \A j \in Slots : accepted'[j] # backlog'[k]
           /\ \A j \in 1 .. Len(backlog') : j # k => backlog'[j] # backlog'[k]
    <3>1. TAKE k \in 1 .. Len(backlog')
    <3>2. backlog'[k] = backlog[k + 1] /\ k + 1 \in 1 .. Len(backlog)
      BY <2>1, <2>3
    <3>3. \A j \in 1 .. Len(backlog') :
             backlog'[j] = backlog[j + 1] /\ j + 1 \in 1 .. Len(backlog) /\ (j # k => j + 1 # k + 1)
      BY <2>1, <2>3
    <3>4. backlog'[k] <= born' /\ \A j \in Slots : accepted'[j] # backlog'[k]
      BY <2>2, <3>2
    <3>5. backlog'[k] # client'
      BY <2>1, <2>3, <3>2
    <3>6. \A j \in 1 .. Len(backlog') : j # k => backlog'[j] # backlog'[k]
      BY <3>2, <3>3
    <3>7. QED BY <3>4, <3>5, <3>6
  <2>6. QED BY <2>2, <2>4, <2>5
<1>11. CASE AcceptFails
  BY <1>11 DEF AcceptFails
<1>12. CASE FindSlot
  BY <1>12 DEF FindSlot
<1>13. CASE RejectClient
  BY <1>13, SMTT(30) DEF RejectClient
<1>14. CASE StoreClient
  BY <1>14, SMTT(30) DEF StoreClient
<1>15. CASE CreateHandler
  BY <1>15 DEF CreateHandler
<1>16. CASE Quit
  BY <1>16 DEF Quit
<1>17. CASE PeerConnects
  <2>1. /\ UNCHANGED <<accepted, client>> /\ born' = born + 1
        /\ backlog' = Append(backlog, born')
    BY <1>17, Zenon DEF PeerConnects, slots
  <2>2. /\ born \in Nat /\ client \in Nat /\ backlog \in Seq(Conns)
        /\ \A i \in Slots : accepted[i] \in Nat
    OBVIOUS
  <2>3. born' \in Conns
    BY <1>17 DEF PeerConnects
  <2> HIDE DEF TypeOK, Order, OnePlace, Conns, Slots
  <2>4. QED BY <2>1, <2>2, <2>3, OnePlaceQueued
<1>18. ASSUME NEW i \in Slots, Begin(i)
      PROVE  OnePlace'
  <2>1. UNCHANGED <<accepted, born, client, backlog>>
    BY <1>18, Zenon DEF Begin, Goto, net, build
  <2> HIDE DEF TypeOK, Order, OnePlace
  <2>2. QED BY <2>1, OnePlaceKept
<1>19. ASSUME NEW i \in Slots, Recv(i)
      PROVE  OnePlace'
  <2>1. UNCHANGED <<accepted, born, client, backlog>>
    BY <1>19, Zenon DEF Recv, Goto, net, build
  <2> HIDE DEF TypeOK, Order, OnePlace
  <2>2. QED BY <2>1, OnePlaceKept
<1>20. ASSUME NEW i \in Slots, SendAll(i)
      PROVE  OnePlace'
  <2>1. UNCHANGED <<accepted, born, client, backlog>>
    BY <1>20, Zenon DEF SendAll, Goto, net, build
  <2> HIDE DEF TypeOK, Order, OnePlace
  <2>2. QED BY <2>1, OnePlaceKept
<1>21. ASSUME NEW i \in Slots, Unuse(i)
      PROVE  OnePlace'
  <2>1. UNCHANGED <<accepted, born, client, backlog>>
    BY <1>21, Zenon DEF Unuse, Goto, net, build
  <2> HIDE DEF TypeOK, Order, OnePlace
  <2>2. QED BY <2>1, OnePlaceKept
<1>22. ASSUME NEW i \in Slots, Close(i)
      PROVE  OnePlace'
  <2>1. UNCHANGED <<accepted, born, client, backlog>>
    BY <1>22, Zenon DEF Close, Goto, net, build
  <2> HIDE DEF TypeOK, Order, OnePlace
  <2>2. QED BY <2>1, OnePlaceKept
<1>23. ASSUME NEW i \in Slots, Clear(i)
      PROVE  OnePlace'
  <2>1. UNCHANGED <<born, client, backlog>> /\ accepted' = [accepted EXCEPT ![i] = 0]
    BY <1>23, Zenon DEF Clear, Goto, net, build
  <2>2. \A j \in Slots : accepted'[j] = IF j = i THEN 0 ELSE accepted[j]
    BY <2>1
  <2>3. born \in Nat /\ backlog \in Seq(Conns) /\ 0 \notin Conns
    OBVIOUS
  <2> HIDE DEF TypeOK, Order, OnePlace, Conns, Slots
  <2>4. \A k \in 1 .. Len(backlog) : backlog[k] # 0
    BY <2>3, ElementOfSeq
  <2>5. QED BY <2>4, <2>1, <2>2, <2>3, OnePlaceCleared
<1>24. ASSUME NEW i \in Slots, Exit(i)
      PROVE  OnePlace'
  <2>1. UNCHANGED <<accepted, born, client, backlog>>
    BY <1>24, Zenon DEF Exit, Goto, net, build
  <2> HIDE DEF TypeOK, Order, OnePlace
  <2>2. QED BY <2>1, OnePlaceKept
<1>25. CASE UNCHANGED vars
  BY <1>25 DEF vars
<1>26. QED
  BY <1>1, <1>2, <1>3, <1>4, <1>5, <1>6, <1>7, <1>8, <1>9, <1>10, <1>11, <1>12, <1>13, <1>14, <1>15, <1>16, <1>17, <1>18, <1>19, <1>20, <1>21, <1>22, <1>23, <1>24, <1>25 DEF Next, Main, ProcessTcp6, Handler

\* What was in one place still is, unless it has been closed.
LEMMA StaysSomewhere ==
    ASSUME OpenSomewhere,
           backlog' = backlog, client' = client, accepted' = accepted, born' = born,
           open' \subseteq open,
           \A i \in Slots :
              thread'[i] = "clear" \/ Passed(i)' =>
                 thread[i] = "clear" \/ Passed(i) \/ accepted[i] \notin open'
    PROVE  OpenSomewhere'
<1> SUFFICES ASSUME NEW c \in open' PROVE (c <= born /\ Somewhere(c))'
  BY DEF OpenSomewhere
<1>1. c \in open /\ c <= born /\ Somewhere(c)
  BY DEF OpenSomewhere
<1>2. CASE (\E k \in 1 .. Len(backlog) : backlog[k] = c) \/ c = client
  BY <1>1, <1>2 DEF Somewhere
<1>3. ASSUME NEW i \in Slots, accepted[i] = c, thread[i] # "clear", ~Passed(i)
      PROVE  Somewhere(c)'
  BY <1>3 DEF Somewhere
<1>4. QED BY <1>1, <1>2, <1>3 DEF Somewhere

LEMMA NextOpenSomewhere ==
    ASSUME TypeOK, Order, SlotStates, OnePlace, OpenSomewhere, [Next]_vars
    PROVE  OpenSomewhere'
<1> USE ConstantFacts DEF net, slots, sockets, build, Slots, Conns, TypeOK, Order
<1>1. CASE Connected \/ Disconnected \/ TakeRunApp \/ TakeQuitLock \/ StopHandler
           \/ StartTcpProto \/ AcceptFails \/ FindSlot \/ CreateHandler \/ Quit
  <2>1. /\ backlog' = backlog /\ client' = client /\ accepted' = accepted
        /\ born' = born /\ open' = open
    BY <1>1 DEF Connected, Disconnected, TakeRunApp, TakeQuitLock, StopHandler,
                StartTcpProto, AcceptFails, FindSlot, CreateHandler, Quit
  <2>2. \A i \in Slots : thread'[i] = "clear" => thread[i] = "clear"
    BY <1>1 DEF Connected, Disconnected, TakeRunApp, TakeQuitLock, StopHandler,
                StartTcpProto, AcceptFails, FindSlot, CreateHandler, Quit
  <2>3. \A i \in Slots : Passed(i)' => Passed(i)
    BY <1>1 DEF Connected, Disconnected, TakeRunApp, TakeQuitLock, StopHandler,
                StartTcpProto, AcceptFails, FindSlot, CreateHandler, Quit, Passed
  <2>4. QED BY <2>1, <2>2, <2>3, StaysSomewhere
<1>2. CASE StartTcp
  <2>1. \A i \in Slots : accepted[i] = 0
    BY <1>2 DEF StartTcp, SlotStates
  <2>2. accepted' = accepted
    BY <1>2, <2>1 DEF StartTcp
  <2>3. QED BY <1>2, <2>2, StaysSomewhere DEF StartTcp, Passed
<1>3. CASE StopListening
  <2>1. /\ client' = client /\ accepted' = accepted /\ born' = born /\ thread' = thread
        /\ open' \subseteq open /\ main' = "abort" /\ at' = 1
        /\ \A k \in 1 .. Len(backlog) : backlog[k] \notin open'
    BY <1>3 DEF StopListening
  <2>2. \A i \in Slots : ~Passed(i)'
    BY <2>1 DEF Passed
  <2>3. SUFFICES ASSUME NEW c \in open' PROVE (c <= born /\ Somewhere(c))'
    BY DEF OpenSomewhere
  <2>4. c \in open /\ c <= born /\ c <= born' /\ Somewhere(c)
    BY <2>1 DEF OpenSomewhere
  <2>5. ASSUME NEW k \in 1 .. Len(backlog), backlog[k] = c PROVE Somewhere(c)'
    BY <2>1, <2>5
  <2>6. ASSUME c = client PROVE Somewhere(c)'
    BY <2>1, <2>6 DEF Somewhere
  <2>7. ASSUME NEW i \in Slots, accepted[i] = c, thread[i] # "clear", ~Passed(i)
         PROVE  Somewhere(c)'
    BY <2>1, <2>2, <2>7 DEF Somewhere
  <2>8. QED BY <2>4, <2>5, <2>6, <2>7 DEF Somewhere
<1>4. CASE StopClient
  <2>1. /\ backlog' = backlog /\ client' = client /\ accepted' = accepted
        /\ born' = born /\ open' \subseteq open /\ thread' = thread
        /\ accepted[at] \notin open'
    BY <1>4, Zenon DEF StopClient
  <2>2. \A i \in Slots : Passed(i)' => Passed(i) \/ i = at
    BY <1>4 DEF StopClient, Passed
  <2>3. QED BY <2>1, <2>2, StaysSomewhere
<1>5. CASE Accept
  <2>1. /\ Len(backlog') = Len(backlog) - 1 /\ Len(backlog) \in Nat \ {0}
        /\ client' = backlog[1]
        /\ \A k \in 1 .. Len(backlog') : backlog'[k] = backlog[k + 1]
    BY <1>5, HeadTailProperties, EmptySeq DEF Accept
  <2>2. /\ accepted' = accepted /\ born' = born /\ open' = open /\ thread' = thread
        /\ main' = main /\ at' = at /\ client = 0 /\ 0 \notin open
    BY <1>5 DEF Accept
  <2>3. ASSUME NEW k \in 1 .. Len(backlog)
        PROVE  backlog[k] = client' \/ \E j \in 1 .. Len(backlog') : backlog'[j] = backlog[k]
    <3>1. CASE k = 1
      BY <2>1, <3>1
    <3>2. CASE k # 1
      <4>1. k - 1 \in 1 .. Len(backlog') /\ (k - 1) + 1 = k
        BY <2>1, <3>2
      <4>2. QED BY <2>1, <4>1
    <3>3. QED BY <3>1, <3>2
  <2>4. SUFFICES ASSUME NEW c \in open' PROVE (c <= born /\ Somewhere(c))'
    BY DEF OpenSomewhere
  <2>5. c \in open /\ c <= born /\ c <= born' /\ Somewhere(c)
    BY <2>2 DEF OpenSomewhere
  <2>6. ASSUME NEW k \in 1 .. Len(backlog), backlog[k] = c PROVE Somewhere(c)'
    BY <2>3, <2>6 DEF Somewhere
  <2>7. ASSUME c = client PROVE Somewhere(c)'
    BY <2>2, <2>7
  <2>8. ASSUME NEW i \in Slots, accepted[i] = c, thread[i] # "clear", ~Passed(i)
         PROVE  Somewhere(c)'
    BY <2>2, <2>8 DEF Somewhere, Passed
  <2>9. QED BY <2>5, <2>6, <2>7, <2>8 DEF Somewhere
<1>6. CASE RejectClient
  <2>1. /\ backlog' = backlog /\ accepted' = accepted /\ born' = born /\ thread' = thread
        /\ main' = main /\ at' = at /\ open' \subseteq open /\ client \notin open'
        /\ born' = born
    BY <1>6 DEF RejectClient
  <2>2. SUFFICES ASSUME NEW c \in open' PROVE (c <= born /\ Somewhere(c))'
    BY DEF OpenSomewhere
  <2>3. c \in open /\ c <= born /\ c <= born' /\ Somewhere(c)
    BY <2>1 DEF OpenSomewhere
  <2>4. ASSUME NEW k \in 1 .. Len(backlog), backlog[k] = c PROVE Somewhere(c)'
    BY <2>1, <2>4 DEF Somewhere
  <2>5. ASSUME c = client PROVE Somewhere(c)'
    BY <2>1, <2>5
  <2>6. ASSUME NEW i \in Slots, accepted[i] = c, thread[i] # "clear", ~Passed(i)
         PROVE  Somewhere(c)'
    BY <2>1, <2>6 DEF Somewhere, Passed
  <2>7. QED BY <2>3, <2>4, <2>5, <2>6 DEF Somewhere
<1>7. CASE StoreClient
  <2>1. /\ backlog' = backlog /\ born' = born /\ thread' = thread
        /\ main' = main /\ at' = at /\ open' = open
        /\ accepted' = [accepted EXCEPT ![slot] = client]
        /\ accepted[slot] = 0 /\ slot \in Slots /\ client # 0 /\ 0 \notin open
    BY <1>7 DEF StoreClient
  <2>2. accepted'[slot] = client /\ \A i \in Slots : i # slot => accepted'[i] = accepted[i]
    BY <2>1
  <2>3. thread[slot] # "clear" /\ ~Passed(slot)
    BY <1>7, <2>1 DEF StoreClient, SlotStates, SlotState, Passed, Busy
  <2>4. SUFFICES ASSUME NEW c \in open' PROVE (c <= born /\ Somewhere(c))'
    BY DEF OpenSomewhere
  <2>5. c \in open /\ c <= born /\ c <= born' /\ Somewhere(c)
    BY <2>1 DEF OpenSomewhere
  <2>6. ASSUME NEW k \in 1 .. Len(backlog), backlog[k] = c PROVE Somewhere(c)'
    BY <2>1, <2>6 DEF Somewhere
  <2>7. ASSUME c = client PROVE Somewhere(c)'
    BY <2>1, <2>2, <2>3, <2>7 DEF Somewhere, Passed
  <2>8. ASSUME NEW i \in Slots, accepted[i] = c, thread[i] # "clear", ~Passed(i)
         PROVE  Somewhere(c)'
    BY <2>1, <2>2, <2>8 DEF Somewhere, Passed
  <2>9. QED BY <2>5, <2>6, <2>7, <2>8 DEF Somewhere
<1>8. CASE PeerConnects
  <2>1. /\ Len(backlog') = Len(backlog) + 1 /\ Len(backlog) \in Nat
        /\ backlog'[Len(backlog')] = born'
        /\ \A k \in 1 .. Len(backlog) : backlog'[k] = backlog[k]
    BY <1>8, AppendProperties, LenProperties DEF PeerConnects
  <2>2. /\ accepted' = accepted /\ born' = born + 1 /\ open' = open \cup {born'}
        /\ thread' = thread /\ main' = main /\ at' = at /\ client' = client
    BY <1>8 DEF PeerConnects
  <2>3. \A c \in open : c <= born'
    BY <2>2 DEF OpenSomewhere
  <2>4. \A k \in 1 .. Len(backlog) : k \in 1 .. Len(backlog')
    BY <2>1
  <2>5. ASSUME NEW c \in open', c = born' PROVE Somewhere(c)'
    <3>1. Len(backlog') \in 1 .. Len(backlog')
      BY <2>1
    <3>2. QED BY <2>1, <2>5, <3>1 DEF Somewhere
  <2>6. ASSUME NEW c \in open
        PROVE  Somewhere(c)'
    <3>1. Somewhere(c)
      BY DEF OpenSomewhere
    <3>2. ASSUME NEW k \in 1 .. Len(backlog), backlog[k] = c PROVE Somewhere(c)'
      BY <2>1, <2>4, <3>2 DEF Somewhere
    <3>3. ASSUME c = client PROVE Somewhere(c)'
      BY <2>2, <3>3 DEF Somewhere
    <3>4. ASSUME NEW i \in Slots, accepted[i] = c, thread[i] # "clear", ~Passed(i)
          PROVE  Somewhere(c)'
      BY <2>2, <3>4 DEF Somewhere, Passed
    <3>5. QED BY <3>1, <3>2, <3>3, <3>4 DEF Somewhere
  <2>7. SUFFICES ASSUME NEW c \in open' PROVE (c <= born /\ Somewhere(c))'
    BY DEF OpenSomewhere
  <2>8. c = born' \/ c \in open
    BY <2>2
  <2>9. c <= born'
    BY <2>2, <2>3, <2>8
  <2>10. QED BY <2>5, <2>6, <2>8, <2>9
<1>9. ASSUME NEW i \in Slots, Begin(i) \/ Recv(i) \/ SendAll(i) \/ Unuse(i) \/ Exit(i)
      PROVE  OpenSomewhere'
  <2>1. /\ backlog' = backlog /\ client' = client /\ accepted' = accepted
        /\ born' = born /\ open' = open /\ main' = main /\ at' = at
    BY <1>9 DEF Begin, Recv, SendAll, Unuse, Exit, Goto
  <2>2. \A j \in Slots : thread'[j] = "clear" => thread[j] = "clear"
    BY <1>9 DEF Begin, Recv, SendAll, Unuse, Exit, Goto
  <2>3. QED BY <2>1, <2>2, StaysSomewhere DEF Passed
<1>10. ASSUME NEW i \in Slots, Close(i)
       PROVE  OpenSomewhere'
  <2>1. /\ backlog' = backlog /\ client' = client /\ accepted' = accepted
        /\ born' = born /\ open' = open \ {serves[i]} /\ main' = main /\ at' = at
        /\ thread[i] = "close" /\ thread' = [thread EXCEPT ![i] = "clear"]
    BY <1>10 DEF Close, Goto
  <2>2. accepted[i] = serves[i]
    BY <2>1 DEF SlotStates, SlotState, Busy
  <2>3. \A j \in Slots : thread'[j] = "clear" => thread[j] = "clear" \/ accepted[j] \notin open'
    BY <2>1, <2>2
  <2>4. QED BY <2>1, <2>3, StaysSomewhere DEF Passed
<1>11. ASSUME NEW i \in Slots, Clear(i)
       PROVE  OpenSomewhere'
  <2>1. /\ backlog' = backlog /\ client' = client
        /\ accepted' = [accepted EXCEPT ![i] = 0]
        /\ born' = born /\ open' = open /\ main' = main /\ at' = at
        /\ thread[i] = "clear" /\ thread' = [thread EXCEPT ![i] = "exit"]
    BY <1>11 DEF Clear, Goto
  <2>2. SUFFICES ASSUME NEW c \in open' PROVE (c <= born /\ Somewhere(c))'
    BY DEF OpenSomewhere
  <2>3. c \in open /\ c <= born /\ c <= born' /\ Somewhere(c)
    BY <2>1 DEF OpenSomewhere
  <2>4. ASSUME NEW j \in Slots, accepted[j] = c, thread[j] # "clear", ~Passed(j)
        PROVE  Somewhere(c)'
    <3>1. j # i
      BY <2>1, <2>4
    <3>2. accepted'[j] = c /\ thread'[j] = thread[j] /\ ~Passed(j)'
      BY <2>1, <2>4, <3>1 DEF Passed
    <3>3. QED BY <2>4, <3>2 DEF Somewhere
  <2>5. CASE (\E k \in 1 .. Len(backlog) : backlog[k] = c) \/ c = client
    <3>1. backlog' = backlog /\ client' = client
      BY <2>1
    <3>2. (\E k \in 1 .. Len(backlog') : backlog'[k] = c) \/ c = client'
      BY <2>5, <3>1
    <3>3. QED BY <2>3, <3>2 DEF Somewhere
  <2>6. QED BY <2>3, <2>4, <2>5 DEF Somewhere
<1>12. CASE UNCHANGED vars
  BY <1>12, StaysSomewhere DEF vars, Passed
<1>13. QED
  BY <1>1, <1>2, <1>3, <1>4, <1>5, <1>6, <1>7, <1>8, <1>9, <1>10, <1>11, <1>12
     DEF Next, Main, ProcessTcp6, Handler

LEMMA NextClearIsClosed ==
    ASSUME TypeOK, Order, SlotStates, OnePlace, ClearIsClosed, [Next]_vars
    PROVE  ClearIsClosed'
<1> USE ConstantFacts DEF net, slots, sockets, build, Slots, Conns, TypeOK, Order, SlotStates, SlotState, OnePlace, ClearIsClosed, Busy
<1>1. CASE Connected
  BY <1>1 DEF Connected
<1>2. CASE Disconnected
  BY <1>2 DEF Disconnected
<1>3. CASE TakeRunApp
  BY <1>3 DEF TakeRunApp
<1>4. CASE StartTcp
  BY <1>4 DEF StartTcp
<1>5. CASE TakeQuitLock
  BY <1>5 DEF TakeQuitLock
<1>6. CASE StopListening
  BY <1>6 DEF StopListening
<1>7. CASE StopHandler
  BY <1>7 DEF StopHandler
<1>8. CASE StopClient
  BY <1>8 DEF StopClient
<1>9. CASE StartTcpProto
  BY <1>9 DEF StartTcpProto
<1>10. CASE Accept
  BY <1>10 DEF Accept
<1>11. CASE AcceptFails
  BY <1>11 DEF AcceptFails
<1>12. CASE FindSlot
  BY <1>12 DEF FindSlot
<1>13. CASE RejectClient
  BY <1>13 DEF RejectClient
<1>14. CASE StoreClient
  BY <1>14 DEF StoreClient
<1>15. CASE CreateHandler
  BY <1>15 DEF CreateHandler
<1>16. CASE Quit
  BY <1>16 DEF Quit
<1>17. CASE PeerConnects
  BY <1>17 DEF PeerConnects
<1>18. ASSUME NEW i \in Slots, Begin(i)
      PROVE  ClearIsClosed'
  BY <1>18 DEF Begin, Goto
<1>19. ASSUME NEW i \in Slots, Recv(i)
      PROVE  ClearIsClosed'
  <2>1. accepted' = accepted /\ open' = open
    BY <1>19 DEF Recv
  <2>2. \A j \in Slots : thread'[j] = "clear" => thread[j] = "clear"
    <3>1. CASE Goto(i, "recv", "send")
      BY <3>1 DEF Goto
    <3>2. CASE Goto(i, "recv", "unuse")
      BY <3>2 DEF Goto
    <3>3. QED BY <1>19, <3>1, <3>2 DEF Recv
  <2>3. QED BY <2>1, <2>2
<1>20. ASSUME NEW i \in Slots, SendAll(i)
      PROVE  ClearIsClosed'
  <2>1. accepted' = accepted /\ open' = open
    BY <1>20 DEF SendAll
  <2>2. \A j \in Slots : thread'[j] = "clear" => thread[j] = "clear"
    <3>1. CASE Goto(i, "send", "recv")
      BY <3>1 DEF Goto
    <3>2. CASE Goto(i, "send", "unuse")
      BY <3>2 DEF Goto
    <3>3. QED BY <1>20, <3>1, <3>2 DEF SendAll
  <2>3. QED BY <2>1, <2>2
<1>21. ASSUME NEW i \in Slots, Unuse(i)
      PROVE  ClearIsClosed'
  BY <1>21 DEF Unuse, Goto
<1>22. ASSUME NEW i \in Slots, Close(i)
      PROVE  ClearIsClosed'
  BY <1>22 DEF Close, Goto
<1>23. ASSUME NEW i \in Slots, Clear(i)
      PROVE  ClearIsClosed'
  BY <1>23 DEF Clear, Goto
<1>24. ASSUME NEW i \in Slots, Exit(i)
      PROVE  ClearIsClosed'
  BY <1>24 DEF Exit, Goto
<1>25. CASE UNCHANGED vars
  BY <1>25 DEF vars
<1>26. QED
  BY <1>1, <1>2, <1>3, <1>4, <1>5, <1>6, <1>7, <1>8, <1>9, <1>10, <1>11, <1>12, <1>13, <1>14, <1>15, <1>16, <1>17, <1>18, <1>19, <1>20, <1>21, <1>22, <1>23, <1>24, <1>25 DEF Next, Main, ProcessTcp6, Handler

LEMMA NextOpenHere ==
    ASSUME TypeOK, Order, SlotStates, OnePlace, OpenHere, [Next]_vars
    PROVE  OpenHere'
<1> USE ConstantFacts DEF net, slots, sockets, build, Slots, Conns, TypeOK, Order, SlotStates, SlotState, OnePlace, OpenHere, Stopping, Busy
<1>1. CASE Connected
  BY <1>1 DEF Connected
<1>2. CASE Disconnected
  BY <1>2 DEF Disconnected
<1>3. CASE TakeRunApp
  BY <1>3 DEF TakeRunApp
<1>4. CASE StartTcp
  BY <1>4 DEF StartTcp
<1>5. CASE TakeQuitLock
  BY <1>5 DEF TakeQuitLock
<1>6. CASE StopListening
  BY <1>6 DEF StopListening
<1>7. CASE StopHandler
  BY <1>7 DEF StopHandler
<1>8. CASE StopClient
  BY <1>8 DEF StopClient
<1>9. CASE StartTcpProto
  BY <1>9 DEF StartTcpProto
<1>10. CASE Accept
  BY <1>10 DEF Accept
<1>11. CASE AcceptFails
  BY <1>11 DEF AcceptFails
<1>12. CASE FindSlot
  BY <1>12 DEF FindSlot
<1>13. CASE RejectClient
  BY <1>13 DEF RejectClient
<1>14. CASE StoreClient
  BY <1>14 DEF StoreClient
<1>15. CASE CreateHandler
  BY <1>15 DEF CreateHandler
<1>16. CASE Quit
  BY <1>16 DEF Quit
<1>17. CASE PeerConnects
  <2>1. /\ Len(backlog') = Len(backlog) + 1 /\ Len(backlog) \in Nat
        /\ backlog'[Len(backlog')] = born'
        /\ \A k \in 1 .. Len(backlog) : backlog'[k] = backlog[k]
    BY <1>17, AppendProperties, LenProperties DEF PeerConnects
  <2>2. /\ accepted' = accepted /\ open' = open \cup {born'}
        /\ thread' = thread /\ main' = main /\ client' = client
    BY <1>17 DEF PeerConnects
  <2>3. \A k \in 1 .. Len(backlog') : k \in 1 .. Len(backlog) \/ k = Len(backlog')
    BY <2>1
  <2>4. QED BY <2>1, <2>2, <2>3
<1>18. ASSUME NEW i \in Slots, Begin(i)
      PROVE  OpenHere'
  BY <1>18 DEF Begin, Goto
<1>19. ASSUME NEW i \in Slots, Recv(i)
      PROVE  OpenHere'
  <2>1. /\ accepted' = accepted /\ open' = open
        /\ client' = client /\ backlog' = backlog /\ main' = main
    BY <1>19 DEF Recv, Goto
  <2>2. \A j \in Slots : thread[j] = "clear" => thread'[j] = "clear"
    <3>1. CASE Goto(i, "recv", "send")
      BY <3>1 DEF Goto
    <3>2. CASE Goto(i, "recv", "unuse")
      BY <3>2 DEF Goto
    <3>3. QED BY <1>19, <3>1, <3>2 DEF Recv
  <2>3. QED BY <2>1, <2>2
<1>20. ASSUME NEW i \in Slots, SendAll(i)
      PROVE  OpenHere'
  <2>1. /\ accepted' = accepted /\ open' = open
        /\ client' = client /\ backlog' = backlog /\ main' = main
    BY <1>20 DEF SendAll, Goto
  <2>2. \A j \in Slots : thread[j] = "clear" => thread'[j] = "clear"
    <3>1. CASE Goto(i, "send", "recv")
      BY <3>1 DEF Goto
    <3>2. CASE Goto(i, "send", "unuse")
      BY <3>2 DEF Goto
    <3>3. QED BY <1>20, <3>1, <3>2 DEF SendAll
  <2>3. QED BY <2>1, <2>2
<1>21. ASSUME NEW i \in Slots, Unuse(i)
      PROVE  OpenHere'
  BY <1>21 DEF Unuse, Goto
<1>22. ASSUME NEW i \in Slots, Close(i)
      PROVE  OpenHere'
  <2>1. /\ accepted' = accepted /\ client' = client /\ backlog' = backlog /\ main' = main
        /\ open' = open \ {serves[i]} /\ thread' = [thread EXCEPT ![i] = "clear"]
        /\ thread[i] = "close"
    BY <1>22 DEF Close, Goto
  <2>2. accepted[i] = serves[i] /\ accepted[i] # 0
    BY <2>1
  <2>3. /\ \A j \in Slots : j # i => accepted[j] # accepted[i]
        /\ client # 0 => client # accepted[i]
        /\ \A k \in 1 .. Len(backlog) : backlog[k] # accepted[i]
    BY <2>2, SMTT(30)
  <2>4. QED BY <2>1, <2>2, <2>3
<1>23. ASSUME NEW i \in Slots, Clear(i)
      PROVE  OpenHere'
  BY <1>23 DEF Clear, Goto
<1>24. ASSUME NEW i \in Slots, Exit(i)
      PROVE  OpenHere'
  BY <1>24 DEF Exit, Goto
<1>25. CASE UNCHANGED vars
  BY <1>25 DEF vars
<1>26. QED
  BY <1>1, <1>2, <1>3, <1>4, <1>5, <1>6, <1>7, <1>8, <1>9, <1>10, <1>11, <1>12, <1>13, <1>14, <1>15, <1>16, <1>17, <1>18, <1>19, <1>20, <1>21, <1>22, <1>23, <1>24, <1>25 DEF Next, Main, ProcessTcp6, Handler

LEMMA NextOneAtATime ==
    ASSUME TypeOK, Order, SlotStates, OneAtATime, [Next]_vars
    PROVE  OneAtATime'
<1> USE ConstantFacts DEF net, slots, sockets, build, Slots, Conns, TypeOK, Order, SlotStates, SlotState, OneAtATime, MidTcp6, MidHandler, CpuFree, Busy
<1>1. CASE Connected
  BY <1>1 DEF Connected
<1>2. CASE Disconnected
  BY <1>2 DEF Disconnected
<1>3. CASE TakeRunApp
  BY <1>3 DEF TakeRunApp
<1>4. CASE StartTcp
  BY <1>4 DEF StartTcp
<1>5. CASE TakeQuitLock
  BY <1>5 DEF TakeQuitLock
<1>6. CASE StopListening
  BY <1>6 DEF StopListening
<1>7. CASE StopHandler
  BY <1>7 DEF StopHandler
<1>8. CASE StopClient
  BY <1>8 DEF StopClient
<1>9. CASE StartTcpProto
  BY <1>9 DEF StartTcpProto
<1>10. CASE Accept
  BY <1>10 DEF Accept
<1>11. CASE AcceptFails
  BY <1>11 DEF AcceptFails
<1>12. CASE FindSlot
  BY <1>12 DEF FindSlot
<1>13. CASE RejectClient
  BY <1>13 DEF RejectClient
<1>14. CASE StoreClient
  BY <1>14 DEF StoreClient
<1>15. CASE CreateHandler
  BY <1>15 DEF CreateHandler
<1>16. CASE Quit
  BY <1>16 DEF Quit
<1>17. CASE PeerConnects
  BY <1>17 DEF PeerConnects
<1>18. ASSUME NEW i \in Slots, Begin(i)
      PROVE  OneAtATime'
  BY <1>18 DEF Begin, Goto
<1>19. ASSUME NEW i \in Slots, Recv(i)
      PROVE  OneAtATime'
  BY <1>19 DEF Recv, Goto
<1>20. ASSUME NEW i \in Slots, SendAll(i)
      PROVE  OneAtATime'
  BY <1>20 DEF SendAll, Goto
<1>21. ASSUME NEW i \in Slots, Unuse(i)
      PROVE  OneAtATime'
  BY <1>21 DEF Unuse, Goto
<1>22. ASSUME NEW i \in Slots, Close(i)
      PROVE  OneAtATime'
  BY <1>22 DEF Close, Goto
<1>23. ASSUME NEW i \in Slots, Clear(i)
      PROVE  OneAtATime'
  BY <1>23 DEF Clear, Goto
<1>24. ASSUME NEW i \in Slots, Exit(i)
      PROVE  OneAtATime'
  BY <1>24 DEF Exit, Goto
<1>25. CASE UNCHANGED vars
  BY <1>25 DEF vars
<1>26. QED
  BY <1>1, <1>2, <1>3, <1>4, <1>5, <1>6, <1>7, <1>8, <1>9, <1>10, <1>11, <1>12, <1>13, <1>14, <1>15, <1>16, <1>17, <1>18, <1>19, <1>20, <1>21, <1>22, <1>23, <1>24, <1>25 DEF Next, Main, ProcessTcp6, Handler

-----------------------------------------------------------------------------
(* The invariant holds.                                                    *)

LEMMA InitIInv == Init => IInv
<1> SUFFICES ASSUME Init PROVE IInv
  OBVIOUS
<1> USE ConstantFacts DEF Init, Slots, Conns
<1>1. {cooperative, reused} \subseteq BOOLEAN /\ connected \in BOOLEAN
  BY Zenon
<1>2. TypeOK
  BY <1>1, EmptySeq DEF TypeOK
<1>3. Order /\ SlotStates
  BY DEF Order, SlotStates, SlotState
<1>4. Len(backlog) = 0
  BY EmptySeq
<1>5. OnePlace /\ OpenSomewhere /\ ClearIsClosed /\ OpenHere
  BY <1>4 DEF OnePlace, OpenSomewhere, ClearIsClosed, OpenHere
<1>6. OneAtATime
  BY DEF OneAtATime, MidTcp6
<1>7. QED BY <1>2, <1>3, <1>5, <1>6 DEF IInv

LEMMA NextIInv ==
    ASSUME IInv, [Next]_vars
    PROVE  IInv'
BY NextTyped, NextOrder, NextSlotStates, NextOnePlace, NextOpenSomewhere,
   NextClearIsClosed, NextOpenHere, NextOneAtATime DEF IInv

\* Every variable keeps its type: no index leaves the slots, quit_lock stays within
\* its limit, and the listen queue within what listen was told.
THEOREM TypeCorrect == Spec => []TypeOK
<1>1. IInv /\ [Next]_vars => IInv'
  BY NextIInv
<1>2. IInv => TypeOK
  BY DEF IInv
<1>3. QED BY InitIInv, <1>1, <1>2, PTL DEF Spec

\* Where each connection is, how far the handler of each slot is and what is open
\* fit together at every step of every thread.
THEOREM Invariance == Spec => []IInv
<1>1. IInv /\ [Next]_vars => IInv'
  BY NextIInv
<1>2. QED BY InitIInv, <1>1, PTL DEF Spec

\* A handler works on the connection of its own slot, which is open and no other
\* handler's.
THEOREM ServesOwnHolds == Spec => []ServesOwn
<1>1. IInv => ServesOwn
  <2> SUFFICES ASSUME IInv, NEW i \in Slots, thread[i] \in Busy
               PROVE  /\ accepted[i] = serves[i] /\ serves[i] # 0
                      /\ ~Stopping => serves[i] \in open
                      /\ \A j \in Slots \ {i} : thread[j] \in Busy => serves[j] # serves[i]
    BY DEF ServesOwn
  <2>1. \A j \in Slots : thread[j] \in Busy => accepted[j] # 0 /\ accepted[j] = serves[j]
    BY DEF IInv, SlotStates, SlotState, Busy
  <2>2. ~Stopping => accepted[i] \in open
    BY <2>1 DEF IInv, OpenHere, Busy
  <2>3. \A j \in Slots \ {i} : accepted[j] # accepted[i]
    BY <2>1 DEF IInv, OnePlace
  <2>4. QED BY <2>1, <2>2, <2>3
<1>2. QED BY Invariance, <1>1, PTL

\* With cooperative threads process_tcp6 creates no thread on the object and the
\* stack of one that still exists.
THEOREM NoThreadReusedHolds == Spec => []NoThreadReusedIfCooperative
<1>1. IInv => NoThreadReusedIfCooperative
  BY DEF IInv, OneAtATime, NoThreadReusedIfCooperative
<1>2. QED BY Invariance, <1>1, PTL

\* When stop_tcp is through no connection is open, wherever the handlers were that
\* it aborted and those that it did not.
THEOREM StopReleasesHolds == Spec => []StopReleases
<1>1. IInv => (main = "stopped" => open = {})
  <2> SUFFICES ASSUME IInv, main = "stopped", NEW c \in open
               PROVE  FALSE
    OBVIOUS
  <2>1. backlog = <<>> /\ client = 0 /\ c # 0
    BY ConstantFacts DEF IInv, Order, TypeOK, Conns
  <2>2. \A i \in Slots : Passed(i)
    BY DEF Passed
  <2>3. Len(backlog) = 0
    BY <2>1, EmptySeq
  <2>4. QED BY <2>1, <2>2, <2>3 DEF IInv, OpenSomewhere, Somewhere
<1>2. IInv => StopReleases
  BY <1>1 DEF StopReleases
<1>3. QED BY Invariance, <1>2, PTL

-----------------------------------------------------------------------------
(* The server implements Connections.                                      *)

LEMMA ServiceInit == Init => Service!Init
<1> SUFFICES ASSUME Init PROVE ConnState = [c \in Conns |-> "new"]
  BY DEF Service!Init
<1>1. \A c \in Conns : c > born /\ ~(c <= born) /\ c \notin open
  BY ConstantFacts DEF Init, Conns
<1>2. \A c \in Conns : ConnState[c] = "new"
  BY <1>1 DEF ConnState
<1>3. QED BY <1>2 DEF ConnState

\* What a step may do to a connection.
LEMMA ConnectionStep ==
    ASSUME IInv, [Next]_vars
    PROVE  /\ born <= born'
           /\ \A c \in open' : c \in open \/ c > born
           /\ \A c \in Conns : c > born /\ c <= born' => c \in open'
           /\ \A i \in Slots : accepted'[i] <= born
           /\ \A i \in Slots : accepted[i] \in open' /\ accepted[i] <= born =>
                 accepted'[i] = accepted[i]
<1> USE ConstantFacts DEF net, slots, sockets, build, Slots, Conns
<1> TypeOK /\ Order /\ SlotStates /\ ClearIsClosed
  BY DEF IInv
<1> client <= born /\ \A i \in Slots : accepted[i] <= born
  BY DEF IInv, OnePlace
<1> /\ born \in Nat /\ MaxConns \in Nat /\ open \subseteq Conns
    /\ accepted \in [Slots -> 0 .. MaxConns]
  BY DEF TypeOK
<1>1. CASE Connected \/ Disconnected \/ TakeRunApp \/ TakeQuitLock \/ StopHandler
           \/ StartTcpProto \/ Accept \/ AcceptFails \/ FindSlot \/ CreateHandler \/ Quit
           \/ UNCHANGED vars
  <2>1. accepted' = accepted /\ born' = born /\ open' = open
    BY <1>1 DEF Connected, Disconnected, TakeRunApp, TakeQuitLock, StopHandler,
                StartTcpProto, Accept, AcceptFails, FindSlot, CreateHandler, Quit, vars
  <2>2. QED BY <2>1
<1>2. CASE StartTcp
  <2>1. \A i \in Slots : accepted[i] = 0
    BY <1>2 DEF StartTcp, SlotStates, Order
  <2>2. accepted' = accepted /\ born' = born /\ open' = open
    BY <1>2, <2>1 DEF StartTcp
  <2>3. QED BY <2>2
<1>3. CASE StopListening \/ StopClient \/ RejectClient
  <2>1. accepted' = accepted /\ born' = born
    BY <1>3 DEF StopListening, StopClient, RejectClient
  <2>2. open' \subseteq open
    BY <1>3, Zenon DEF StopListening, StopClient, RejectClient
  <2>3. QED BY <2>1, <2>2
<1>4. CASE StoreClient
  <2>1. /\ born' = born /\ open' = open /\ accepted[slot] = 0 /\ 0 \notin open
        /\ accepted' = [accepted EXCEPT ![slot] = client]
    BY <1>4 DEF StoreClient, Order
  <2>2. \A i \in Slots : i # slot => accepted'[i] = accepted[i]
    BY <2>1
  <2>3. QED BY <2>1, <2>2
<1>5. CASE PeerConnects
  BY <1>5 DEF PeerConnects
<1>6. ASSUME NEW i \in Slots,
             Begin(i) \/ Recv(i) \/ SendAll(i) \/ Unuse(i) \/ Close(i) \/ Exit(i)
      PROVE  born' = born /\ open' \subseteq open /\ accepted' = accepted
  <2>1. born' = born /\ accepted' = accepted
    BY <1>6 DEF Begin, Recv, SendAll, Unuse, Close, Exit, Goto
  <2>2. open' \subseteq open
    BY <1>6, Zenon DEF Begin, Recv, SendAll, Unuse, Close, Exit, Goto
  <2>3. QED BY <2>1, <2>2
<1>7. ASSUME NEW i \in Slots, Clear(i)
      PROVE  /\ born' = born /\ open' = open
             /\ \A j \in Slots : accepted'[j] <= born
             /\ \A j \in Slots : accepted[j] \in open' => accepted'[j] = accepted[j]
  <2>1. /\ born' = born /\ open' = open /\ accepted' = [accepted EXCEPT ![i] = 0]
        /\ accepted[i] \notin open
    BY <1>7 DEF Clear, Goto, ClearIsClosed
  <2>2. QED BY <2>1
<1>8. QED
  BY <1>1, <1>2, <1>3, <1>4, <1>5, <1>6, <1>7 DEF Next, Main, ProcessTcp6, Handler

\* There are no more connections in slots than slots.
LEMMA ServedBound ==
    ASSUME NEW S, NEW acc, \A c \in S : \E i \in Slots : acc[i] = c
    PROVE  Cardinality(S) <= NumHandlers
<1> DEFINE g == [c \in S |-> CHOOSE i \in Slots : acc[i] = c]
<1>1. \A c \in S : g[c] \in Slots /\ acc[g[c]] = c
  OBVIOUS
<1>2. g \in [S -> Slots] /\ DOMAIN g = S /\ \A a, b \in S : g[a] = g[b] => a = b
  BY <1>1
<1> HIDE DEF g
<1>3. g \in Injection(S, Slots)
  BY <1>2 DEF Injection, IsInjective
<1>4. IsFiniteSet(Slots) /\ Cardinality(Slots) = NumHandlers
  BY ConstantFacts, FS_Interval DEF Slots
<1>5. QED BY <1>3, <1>4, FS_Injection

LEMMA ServiceStep ==
    ASSUME IInv, IInv', [Next]_vars
    PROVE  Service!Next
<1>1. ConnState' \in [Conns -> {"new", "waiting", "served", "closed"}]
  BY DEF ConnState
<1>2. /\ born \in Nat /\ born' \in Nat /\ Conns \subseteq Nat
      /\ \A c \in open : c <= born
      /\ \A c \in open' : c <= born'
  <2>1. born \in Nat /\ born' \in Nat /\ Conns \subseteq Nat
    BY ConstantFacts DEF IInv, TypeOK, Conns
  <2>2. (\A c \in open : c <= born) /\ \A c \in open' : c <= born'
    BY DEF IInv, OpenSomewhere
  <2>3. QED BY <2>1, <2>2
<1>3. ASSUME NEW c \in Conns
      PROVE  Service!Step(ConnState[c], ConnState'[c])
  <2> DEFINE served == \E i \in Slots : accepted[i] = c
  <2>1. c \in Nat /\ born <= born'
    BY <1>2, ConnectionStep
  <2>2. ConnState[c] = CASE c > born -> "new"
                         [] c <= born /\ c \notin open -> "closed"
                         [] c \in open /\ served -> "served"
                         [] OTHER -> "waiting"
    BY DEF ConnState
  <2>3. ConnState'[c] = CASE c > born' -> "new"
                          [] c <= born' /\ c \notin open' -> "closed"
                          [] c \in open' /\ served' -> "served"
                          [] OTHER -> "waiting"
    BY DEF ConnState
  <2>4. CASE c > born
    <3>1. ConnState[c] = "new"
      BY <1>2, <2>1, <2>2, <2>4
    <3>2. ~served'
      BY <2>1, <2>4, <1>2, ConnectionStep
    <3>3. c <= born' => c \in open'
      BY <2>4, ConnectionStep
    <3>4. ConnState'[c] \in {"new", "waiting"}
      BY <1>2, <2>1, <2>3, <3>2, <3>3
    <3>5. QED BY <3>1, <3>4 DEF Service!Step
  <2>5. CASE c <= born /\ c \notin open
    <3>1. c \notin open' /\ c <= born'
      BY <1>2, <2>1, <2>5, ConnectionStep
    <3>2. ConnState[c] = "closed" /\ ConnState'[c] = "closed"
      BY <1>2, <2>1, <2>2, <2>3, <2>5, <3>1
    <3>3. QED BY <3>2 DEF Service!Step
  <2>6. CASE c \in open /\ served
    <3>1. c <= born'
      BY <1>2, <2>1, <2>6
    <3>2. c \in open' => served'
      BY <1>2, <2>6, ConnectionStep
    <3>3. ConnState[c] = "served" /\ ConnState'[c] \in {"served", "closed"}
      BY <1>2, <2>1, <2>2, <2>3, <2>6, <3>1, <3>2
    <3>4. QED BY <3>3 DEF Service!Step
  <2>7. CASE c \in open /\ ~served
    <3>1. c <= born'
      BY <1>2, <2>1, <2>7
    <3>2. ConnState[c] = "waiting" /\ ConnState'[c] \in {"waiting", "served", "closed"}
      BY <1>2, <2>1, <2>2, <2>3, <2>7, <3>1
    <3>3. QED BY <3>2 DEF Service!Step
  <2>8. QED
    <3> HIDE DEF served
    <3>1. c > born \/ c <= born
      BY <1>2, <2>1
    <3>2. QED BY <2>4, <2>5, <2>6, <2>7, <3>1
<1>4. Cardinality(Service!Served(ConnState')) <= NumHandlers
  <2> DEFINE S == {c \in Conns : ConnState'[c] = "served"}
  <2>1. \A c \in S : \E i \in Slots : accepted'[i] = c
    <3> SUFFICES ASSUME NEW c \in S PROVE \E i \in Slots : accepted'[i] = c
      OBVIOUS
    <3>1. ConnState'[c] = CASE c > born' -> "new"
                            [] c <= born' /\ c \notin open' -> "closed"
                            [] c \in open' /\ (\E i \in Slots : accepted'[i] = c) -> "served"
                            [] OTHER -> "waiting"
      BY DEF ConnState
    <3>2. QED BY <3>1
  <2> HIDE DEF S
  <2>2. Cardinality(S) <= NumHandlers
    BY <2>1, ServedBound
  <2>3. QED BY <2>2 DEF S, Service!Served
<1>5. Service!Cardinality(Service!Served(ConnState')) = Cardinality(Service!Served(ConnState'))
  BY Zenon DEF Service!Cardinality, Cardinality
<1>6. QED BY <1>1, <1>3, <1>4, <1>5 DEF Service!Next

\* Seen from its peers the server implements Connections: no connection goes back a
\* step, and no more are served at the same time than there are slots.
THEOREM Refinement == Spec => ImplementsConnections
<1>1. IInv /\ IInv' /\ [Next]_vars => [Service!Next]_ConnState
  BY ServiceStep
<1>2. QED BY Invariance, ServiceInit, <1>1, PTL DEF Spec, ImplementsConnections, Service!Spec
=============================================================================
