----------------------------- MODULE EchoServer -----------------------------
(***************************************************************************)
(* apps/echo_server/src/echo-server.c. Its threads:                        *)
(*   main          waits for the network, starts the server, and stops it  *)
(*                 when the accepting thread has given up;                 *)
(*   process_tcp6  accepts connections and hands each to a slot;           *)
(*   handle_data   one thread per used slot, echoes until its peer is gone.*)
(* Network events run in a thread of the network stack. Each access to     *)
(* what they share is a step: the slots (accepted[].sock,                  *)
(* tcp6_handler_in_use), the sockets and the semaphores.                   *)
(*                                                                         *)
(* THREAD_PRIORITY depends on the build. With cooperative threads (common.h,*)
(* CONFIG_NET_TC_THREAD_COOPERATIVE) a thread of the server is interrupted *)
(* only where it may block: in accept, recv, send and close. Otherwise it  *)
(* has a time slice and may be interrupted anywhere.                       *)
(***************************************************************************)
EXTENDS Naturals, Sequences

CONSTANTS NumHandlers,  \* CONFIG_NET_SAMPLE_NUM_HANDLERS
          MaxConns,     \* bound: connections peers open
          MaxEvents,    \* bound: network events
          Builds        \* values of CONFIG_NET_TC_THREAD_COOPERATIVE

Slots == 1 .. NumHandlers
Conns == 1 .. MaxConns

ASSUME EchoServerAssumption ==
    /\ NumHandlers \in Nat \ {0} /\ MaxConns \in Nat /\ MaxEvents \in Nat
    /\ Builds \subseteq BOOLEAN

VARIABLES
    cooperative,    \* CONFIG_NET_TC_THREAD_COOPERATIVE
    last,           \* last network event: "none", "up" or "down"
    events,         \* number of events so far
    connected, run_app, quit_lock,
    main,           \* where main is
    at,             \* slot stop_tcp is at
    tcp6,           \* where process_tcp6 is
    client,         \* connection process_tcp6 has accepted, 0 for none
    slot,           \* slot get_free_slot is looking at
    listener,       \* listening socket: "none", "open", "listening", "closed"
    born,           \* connections opened so far
    backlog,        \* opened and not yet accepted
    accepted,       \* accepted[i]: connection of slot i, 0 for -1
    in_use,
    thread,         \* where the handler thread of slot i is
    serves,         \* its local copy of the connection
    open,           \* connections whose socket is open
    reused          \* history: k_thread_create on a thread that still exists

net == <<last, events, connected, run_app>>
slots == <<accepted, in_use, thread, serves>>
sockets == <<listener, born, backlog, open>>
build == <<cooperative, reused>>
vars == <<net, quit_lock, main, at, tcp6, client, slot, sockets, slots, build>>

Init ==
    /\ cooperative \in Builds
    /\ last = "none" /\ events = 0 /\ connected = FALSE
    /\ run_app = 0 /\ quit_lock = 0
    /\ main = "take" /\ at = 1
    /\ tcp6 = "none" /\ client = 0 /\ slot = 1
    /\ listener = "none" /\ born = 0 /\ backlog = <<>> /\ open = {}
    /\ accepted = [i \in Slots |-> 0] /\ in_use = [i \in Slots |-> FALSE]
    /\ thread = [i \in Slots |-> "none"] /\ serves = [i \in Slots |-> 0]
    /\ reused = FALSE

-----------------------------------------------------------------------------
(* Scheduling: places between two blocking calls.                          *)

MidHandler == {"unuse", "clear", "exit"}

MidTcp6 == {"find", "store", "create", "quit"}

\* No cooperative thread keeps the CPU.
CpuFree ==
    cooperative => tcp6 \notin MidTcp6 /\ \A i \in Slots : thread[i] \notin MidHandler

-----------------------------------------------------------------------------
(* event_handler. conn_mgr_mon_resend_status delivers the status first,    *)
(* then events alternate.                                                  *)

\* k_sem_give(&run_app): to the waiter, or into the count, at most 1.
Connected ==
    /\ CpuFree /\ events < MaxEvents /\ last # "up"
    /\ last' = "up" /\ events' = events + 1
    /\ connected' = TRUE
    /\ IF main = "pend"
       THEN main' = "start" /\ UNCHANGED run_app
       ELSE run_app' = 1 /\ UNCHANGED main
    /\ UNCHANGED <<quit_lock, at, tcp6, client, slot, sockets, slots, build>>

\* k_sem_reset(&run_app) ends a wait with an error, which main ignores.
Disconnected ==
    /\ CpuFree /\ events < MaxEvents /\ last # "down"
    /\ last' = "down" /\ events' = events + 1
    /\ connected' = FALSE
    /\ run_app' = 0
    /\ main' = IF main = "pend" THEN "start" ELSE main
    /\ UNCHANGED <<quit_lock, at, tcp6, client, slot, sockets, slots, build>>

-----------------------------------------------------------------------------
(* main and stop_tcp                                                       *)

TakeRunApp ==
    /\ main = "take"
    /\ main' = IF run_app = 1 THEN "start" ELSE "pend"
    /\ run_app' = 0
    /\ UNCHANGED <<last, events, connected, quit_lock, at, tcp6, client, slot,
                   sockets, slots, build>>

StartTcp ==
    /\ main = "start"
    /\ accepted' = [i \in Slots |-> 0] /\ in_use' = [i \in Slots |-> FALSE]
    /\ tcp6' = "setup"
    /\ main' = "wait"
    /\ UNCHANGED <<net, quit_lock, at, client, slot, sockets, thread, serves, build>>

\* Without a connection main returns and leaves everything as it is.
TakeQuitLock ==
    /\ main = "wait" /\ quit_lock > 0
    /\ quit_lock' = quit_lock - 1
    /\ main' = IF connected THEN "stop" ELSE "left"
    /\ UNCHANGED <<net, at, tcp6, client, slot, sockets, slots, build>>

\* k_thread_abort of process_tcp6, which has ended; then its socket, and with
\* it the connections that were not accepted.
StopListening ==
    /\ main = "stop"
    /\ listener' = IF listener = "none" THEN "none" ELSE "closed"
    /\ open' = open \ {backlog[k] : k \in 1 .. Len(backlog)}
    /\ backlog' = <<>>
    /\ main' = "abort"
    /\ UNCHANGED <<net, quit_lock, at, tcp6, client, slot, born, slots, build>>

StopHandler ==
    /\ main = "abort"
    /\ thread' = [thread EXCEPT ![at] = IF in_use[at] THEN "none" ELSE @]
    /\ main' = "close"
    /\ UNCHANGED <<net, quit_lock, at, tcp6, client, slot, sockets, accepted, in_use,
                   serves, build>>

\* Seeded fault: the sockets of the slots are left open.
StopLeavesClient ==
    /\ main = "close"
    /\ IF at = NumHandlers
       THEN main' = "stopped" /\ UNCHANGED at
       ELSE main' = "abort" /\ at' = at + 1
    /\ UNCHANGED <<net, quit_lock, tcp6, client, slot, sockets, slots, build>>

StopClient ==
    /\ main = "close"
    /\ open' = open \ {accepted[at]}
    /\ IF at = NumHandlers
       THEN main' = "stopped" /\ UNCHANGED at
       ELSE main' = "abort" /\ at' = at + 1
    /\ UNCHANGED <<net, quit_lock, tcp6, client, slot, listener, born, backlog, slots,
                   build>>

Main ==
    /\ CpuFree
    /\ \/ TakeRunApp \/ StartTcp \/ TakeQuitLock
       \/ StopListening \/ StopHandler \/ StopClient

-----------------------------------------------------------------------------
(* process_tcp6                                                            *)

\* start_tcp_proto: socket, bind and listen; each may fail.
StartTcpProto ==
    /\ CpuFree /\ tcp6 = "setup"
    /\ \/ listener' = "listening" /\ tcp6' = "accept"
       \/ listener' \in {"none", "open"} /\ tcp6' = "quit"
    /\ UNCHANGED <<net, quit_lock, main, at, client, slot, born, backlog, open, slots,
                   build>>

Accept ==
    /\ CpuFree /\ tcp6 = "accept" /\ backlog # <<>>
    /\ client' = Head(backlog)
    /\ backlog' = Tail(backlog)
    /\ tcp6' = "find" /\ slot' = 1
    /\ UNCHANGED <<net, quit_lock, main, at, listener, born, open, slots, build>>

AcceptFails ==
    /\ CpuFree /\ tcp6 = "accept"
    /\ tcp6' = "quit"
    /\ UNCHANGED <<net, quit_lock, main, at, client, slot, sockets, slots, build>>

\* Seeded fault: one slot too many is looked at.
FindSlotPastEnd ==
    /\ tcp6 = "find"
    /\ tcp6' = CASE accepted[slot] = 0 -> "store"
                 [] accepted[slot] # 0 /\ slot <= NumHandlers -> "find"
                 [] OTHER -> "reject"
    /\ slot' = IF tcp6' = "find" THEN slot + 1 ELSE slot
    /\ UNCHANGED <<net, quit_lock, main, at, client, sockets, slots, build>>

\* Seeded fault: every slot but the last is taken for free.
FindSlotUnchecked ==
    /\ tcp6 = "find"
    /\ tcp6' = IF accepted[slot] = 0 \/ slot < NumHandlers THEN "store" ELSE "reject"
    /\ UNCHANGED <<net, quit_lock, main, at, client, slot, sockets, slots, build>>

\* get_free_slot, one slot at a time: handlers free theirs meanwhile.
FindSlot ==
    /\ tcp6 = "find"
    /\ tcp6' = CASE accepted[slot] = 0 -> "store"
                 [] accepted[slot] # 0 /\ slot < NumHandlers -> "find"
                 [] OTHER -> "reject"
    /\ slot' = IF tcp6' = "find" THEN slot + 1 ELSE slot
    /\ UNCHANGED <<net, quit_lock, main, at, client, sockets, slots, build>>

RejectClient ==
    /\ CpuFree /\ tcp6 = "reject"
    /\ open' = open \ {client}
    /\ client' = 0
    /\ tcp6' = "accept"
    /\ UNCHANGED <<net, quit_lock, main, at, slot, listener, born, backlog, slots, build>>

StoreClient ==
    /\ tcp6 = "store"
    /\ accepted' = [accepted EXCEPT ![slot] = client]
    /\ client' = 0
    /\ tcp6' = "create"
    /\ UNCHANGED <<net, quit_lock, main, at, slot, sockets, in_use, thread, serves, build>>

\* The thread object and its stack belong to the slot.
CreateHandler ==
    /\ tcp6 = "create"
    /\ in_use' = [in_use EXCEPT ![slot] = TRUE]
    /\ thread' = [thread EXCEPT ![slot] = "begin"]
    /\ reused' = (reused \/ thread[slot] # "none")
    /\ tcp6' = "accept"
    /\ UNCHANGED <<net, quit_lock, main, at, client, slot, sockets, accepted, serves, cooperative>>

Quit ==
    /\ tcp6 = "quit"
    /\ quit_lock' = quit_lock + 1
    /\ tcp6' = "ended"
    /\ UNCHANGED <<net, main, at, client, slot, sockets, slots, build>>

ProcessTcp6 ==
    \/ StartTcpProto \/ FindSlot \/ RejectClient \/ StoreClient \/ CreateHandler \/ Quit

-----------------------------------------------------------------------------
(* handle_data of slot i                                                   *)

Goto(i, from, to) ==
    /\ thread[i] = from /\ (from \in MidHandler \/ CpuFree)
    /\ thread' = [thread EXCEPT ![i] = to]
    /\ UNCHANGED <<net, quit_lock, main, at, tcp6, client, slot, listener, born,
                   backlog, build>>

Begin(i) ==
    /\ Goto(i, "begin", "recv")
    /\ serves' = [serves EXCEPT ![i] = accepted[i]]
    /\ UNCHANGED <<accepted, in_use, open>>

\* recv returns data, or 0 or an error.
Recv(i) ==
    /\ Goto(i, "recv", "send") \/ Goto(i, "recv", "unuse")
    /\ UNCHANGED <<accepted, in_use, serves, open>>

SendAll(i) ==
    /\ Goto(i, "send", "recv") \/ Goto(i, "send", "unuse")
    /\ UNCHANGED <<accepted, in_use, serves, open>>

\* Seeded fault: the slot is given back before the socket is closed.
UnuseClears(i) ==
    /\ Goto(i, "unuse", "close")
    /\ in_use' = [in_use EXCEPT ![i] = FALSE]
    /\ accepted' = [accepted EXCEPT ![i] = 0]
    /\ UNCHANGED <<serves, open>>

Unuse(i) ==
    /\ Goto(i, "unuse", "close")
    /\ in_use' = [in_use EXCEPT ![i] = FALSE]
    /\ UNCHANGED <<accepted, serves, open>>

\* Seeded fault: the slot is cleared and the socket forgotten.
ClosesNothing(i) ==
    /\ Goto(i, "close", "clear")
    /\ accepted' = [accepted EXCEPT ![i] = 0]
    /\ UNCHANGED <<in_use, serves, open>>

Close(i) ==
    /\ Goto(i, "close", "clear")
    /\ open' = open \ {serves[i]}
    /\ UNCHANGED <<accepted, in_use, serves>>

\* Seeded fault: the slot is not given back.
ClearForgotten(i) ==
    /\ Goto(i, "clear", "exit")
    /\ UNCHANGED <<accepted, in_use, serves, open>>

Clear(i) ==
    /\ Goto(i, "clear", "exit")
    /\ accepted' = [accepted EXCEPT ![i] = 0]
    /\ UNCHANGED <<in_use, serves, open>>

\* The kernel removes the thread.
Exit(i) ==
    /\ Goto(i, "exit", "none")
    /\ UNCHANGED <<accepted, in_use, serves, open>>

Handler(i) == Begin(i) \/ SendAll(i) \/ Unuse(i) \/ Close(i) \/ Clear(i) \/ Exit(i)

-----------------------------------------------------------------------------
(* A peer connects; listen admits MAX_CLIENT_QUEUE of them at a time.      *)

PeerConnects ==
    /\ CpuFree /\ listener = "listening" /\ born < MaxConns /\ Len(backlog) < NumHandlers
    /\ born' = born + 1
    /\ backlog' = Append(backlog, born')
    /\ open' = open \cup {born'}
    /\ UNCHANGED <<net, quit_lock, main, at, tcp6, client, slot, listener, slots, build>>

-----------------------------------------------------------------------------
Next ==
    \/ Connected \/ Disconnected
    \/ Main
    \/ ProcessTcp6 \/ Accept \/ AcceptFails
    \/ \E i \in Slots : Handler(i) \/ Recv(i)
    \/ PeerConnects

(* Every thread runs when it can. Peers and the network owe nothing, so    *)
(* recv may wait for ever; accept returns when a peer waits.               *)
Spec ==
    /\ Init /\ [][Next]_vars
    /\ WF_vars(Main) /\ WF_vars(ProcessTcp6) /\ WF_vars(Accept \/ AcceptFails)
    /\ \A i \in Slots : WF_vars(Handler(i))
-----------------------------------------------------------------------------
(* Properties. Creating a thread on one that exists is undefined; here the *)
(* new one simply replaces it, and the properties promise nothing from     *)
(* there on (reused).                                                      *)

Busy == {"recv", "send", "unuse", "close"}

TypeOK ==
    /\ last \in {"none", "up", "down"} /\ events \in 0 .. MaxEvents
    /\ connected \in BOOLEAN /\ run_app \in {0, 1} /\ quit_lock \in {0, 1}
    /\ main \in {"take", "pend", "start", "wait", "stop", "abort", "close",
                 "stopped", "left"}
    /\ at \in Slots
    /\ tcp6 \in {"none", "setup", "accept", "find", "store", "create", "reject",
                 "quit", "ended"}
    /\ client \in 0 .. MaxConns /\ slot \in Slots
    /\ listener \in {"none", "open", "listening", "closed"}
    /\ born \in 0 .. MaxConns
    /\ backlog \in Seq(Conns) /\ Len(backlog) <= NumHandlers
    /\ accepted \in [Slots -> 0 .. MaxConns] /\ in_use \in [Slots -> BOOLEAN]
    /\ thread \in [Slots -> Busy \cup {"none", "begin", "clear", "exit"}]
    /\ serves \in [Slots -> 0 .. MaxConns]
    /\ open \subseteq Conns
    /\ {cooperative, reused} \subseteq BOOLEAN

Stopping == main \in {"stop", "abort", "close", "stopped"}

\* A handler works on the connection of its own slot, which is open and no other
\* handler's, although slots are given back while threads still run.
ServesOwn ==
    \A i \in Slots : thread[i] \in Busy /\ ~reused =>
        /\ accepted[i] = serves[i] /\ serves[i] # 0
        /\ ~Stopping => serves[i] \in open
        /\ \A j \in Slots \ {i} : thread[j] \in Busy => serves[j] # serves[i]

\* get_free_slot "finds a free data handler slot": no thread is created on the
\* object and the stack of one that still exists.
NoThreadReused == ~reused

\* Cooperative threads keep this, although a handler frees its slot before it ends.
NoThreadReusedIfCooperative == cooperative => ~reused

\* stop_tcp leaves no connection open once the handlers it did not abort are
\* through, wherever each of them was.
StopReleases ==
    main = "stopped" /\ (\A i \in Slots : thread[i] = "none") /\ ~reused => open = {}

\* A handler that is done with its peer gives its slot back, unless it is aborted.
SlotReturns ==
    \A i \in Slots : thread[i] = "unuse" ~> accepted[i] = 0 \/ Stopping

ConnState == [c \in Conns |->
    CASE c > born -> "new"
      [] c <= born /\ c \notin open -> "closed"
      [] c \in open /\ (\E i \in Slots : accepted[i] = c) -> "served"
      [] OTHER -> "waiting"]

\* Seen from the peers, slots and threads implement the abstract service.
Service == INSTANCE Connections WITH state <- ConnState

ImplementsConnections == Service!Spec
=============================================================================
