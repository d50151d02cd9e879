---------------------------- MODULE BlePingPong ----------------------------
(***************************************************************************)
(* apps/HelloZephyr/src/main.c on several devices. Each advertises and     *)
(* scans, connects to the first other one it finds, opens an L2CAP channel *)
(* and plays ping-pong over it; after a disconnect it starts again.        *)
(*                                                                         *)
(* A device has three threads: main starts advertising and scanning once;  *)
(* the receive thread of the Bluetooth stack calls scan_cb, connected_cb   *)
(* and the functions of the channel; the stack's work queue calls          *)
(* disconnected_cb. Callbacks sleep, and threads switch wherever one       *)
(* sleeps or waits for the controller, so every call of the stack is a     *)
(* step. The program's flags and what the stack really does are separate   *)
(* variables.                                                              *)
(***************************************************************************)
EXTENDS Naturals, Sequences

CONSTANTS Devices,
          NoDevice,
          MaxLinks,     \* bound: connections made
          MaxFails      \* bound: calls that start advertising or scanning and fail

ASSUME BleAssumption == NoDevice \notin Devices /\ MaxLinks \in Nat /\ MaxFails \in Nat

VARIABLES
    is_advertising, is_scanning, connecting, default_conn,  \* the program's
    le_chan,        \* connection that uses the one channel, 0 for none
    adv, scan,      \* the stack advertises, scans
    init,           \* device the stack tries to connect to
    links,          \* connections made: [central, peripheral, up]
    rxq,            \* events for the receive thread
    wqq,            \* disconnected connections, for the work queue
    at,             \* at[d][t]: where thread t is
    job,            \* connection (0: failed) or device the receive thread works on
    fails,          \* history: starts that failed
    overlap         \* history: connected_cb found default_conn still taken

flags == <<is_advertising, is_scanning, connecting, default_conn>>
stack == <<adv, scan, init, links>>
history == <<fails, overlap>>
vars == <<flags, le_chan, stack, rxq, wqq, at, job, history>>

Threads == {"main", "rx", "wq"}
NoJob == [link |-> 0, peer |-> NoDevice]
Up(l) == l # 0 /\ links[l].up
Peer(d, l) == IF links[l].central = d THEN links[l].peripheral ELSE links[l].central
Linked(d, p) == \E l \in DOMAIN links : Up(l) /\ {links[l].central, links[l].peripheral} = {d, p}

Init ==
    /\ is_advertising = [d \in Devices |-> FALSE] /\ is_scanning = [d \in Devices |-> FALSE]
    /\ connecting = [d \in Devices |-> FALSE] /\ default_conn = [d \in Devices |-> 0]
    /\ le_chan = [d \in Devices |-> 0]
    /\ adv = [d \in Devices |-> FALSE] /\ scan = [d \in Devices |-> FALSE]
    /\ init = [d \in Devices |-> NoDevice] /\ links = <<>>
    /\ rxq = [d \in Devices |-> <<>>] /\ wqq = [d \in Devices |-> <<>>]
    /\ at = [d \in Devices |-> [t \in Threads |-> IF t = "main" THEN "adv" ELSE "idle"]]
    /\ job = [d \in Devices |-> NoJob]
    /\ fails = 0 /\ overlap = [d \in Devices |-> FALSE]

At(d, t, from) == at[d][t] = from
Goto(d, t, to) == at' = [at EXCEPT ![d][t] = to]

\* The next event of the receive thread, taken.
Event(d, kind, l) ==
    /\ At(d, "rx", "idle") /\ rxq[d] # <<>>
    /\ Head(rxq[d]) = [kind |-> kind, link |-> l]

-----------------------------------------------------------------------------
(* start_advertising, then after a pause start_scanning, in any thread.    *)

MayFail == fails < MaxFails /\ fails' = fails + 1

StartAdvertising(d, t) ==
    /\ At(d, t, "adv")
    /\ \/ (is_advertising[d] \/ adv[d]) /\ Goto(d, t, "scan") /\ UNCHANGED <<adv, fails>>
       \/ /\ ~is_advertising[d] /\ ~adv[d]
          /\ \/ adv' = [adv EXCEPT ![d] = TRUE] /\ Goto(d, t, "advset") /\ UNCHANGED fails
             \/ MayFail /\ Goto(d, t, "scan") /\ UNCHANGED adv
    /\ UNCHANGED <<flags, le_chan, scan, init, links, rxq, wqq, job, overlap>>

AdvertisingStarted(d, t) ==
    /\ At(d, t, "advset") /\ Goto(d, t, "scan")
    /\ is_advertising' = [is_advertising EXCEPT ![d] = TRUE]
    /\ UNCHANGED <<is_scanning, connecting, default_conn, le_chan, stack, rxq, wqq, job, history>>

StartScanning(d, t) ==
    /\ At(d, t, "scan")
    /\ \/ (is_scanning[d] \/ scan[d]) /\ Goto(d, t, "idle") /\ UNCHANGED <<scan, fails>>
       \/ /\ ~is_scanning[d] /\ ~scan[d]
          /\ \/ scan' = [scan EXCEPT ![d] = TRUE] /\ Goto(d, t, "scanset") /\ UNCHANGED fails
             \/ MayFail /\ Goto(d, t, "idle") /\ UNCHANGED scan
    /\ UNCHANGED <<flags, le_chan, adv, init, links, rxq, wqq, job, overlap>>

ScanningStarted(d, t) ==
    /\ At(d, t, "scanset") /\ Goto(d, t, "idle")
    /\ is_scanning' = [is_scanning EXCEPT ![d] = TRUE]
    /\ UNCHANGED <<is_advertising, connecting, default_conn, le_chan, stack, rxq, wqq, job, history>>

-----------------------------------------------------------------------------
(* Stopping: only what the flags say is going on.                          *)

StopAdvertising(d, from, to) ==
    /\ At(d, "rx", from) /\ Goto(d, "rx", to)
    /\ adv' = [adv EXCEPT ![d] = @ /\ ~is_advertising[d]]
    /\ is_advertising' = [is_advertising EXCEPT ![d] = FALSE]
    /\ UNCHANGED <<is_scanning, connecting, default_conn, le_chan, scan, init, links, rxq,
                   wqq, job, history>>

StopScanning(d, from, to) ==
    /\ At(d, "rx", from) /\ Goto(d, "rx", to)
    /\ scan' = [scan EXCEPT ![d] = @ /\ ~is_scanning[d]]
    /\ is_scanning' = [is_scanning EXCEPT ![d] = FALSE]
    /\ UNCHANGED <<is_advertising, connecting, default_conn, le_chan, adv, init, links, rxq,
                   wqq, job, history>>

-----------------------------------------------------------------------------
(* scan_cb. A report is handled in its turn: before the events that follow *)
(* it, and one behind them finds the device connected or connecting.       *)

ScanCb(d, p) ==
    /\ At(d, "rx", "idle") /\ rxq[d] = <<>> /\ scan[d] /\ adv[p] /\ p # d
    /\ default_conn[d] = 0 /\ ~connecting[d]
    /\ Goto(d, "rx", "found_scan")
    /\ job' = [job EXCEPT ![d] = [link |-> 0, peer |-> p]]
    /\ UNCHANGED <<flags, le_chan, stack, rxq, wqq, history>>

\* bt_conn_le_create may refuse, and does when the stack still scans.
LeCreate(d) ==
    /\ At(d, "rx", "create")
    /\ \/ /\ init[d] = NoDevice /\ ~scan[d] /\ ~Linked(d, job[d].peer)
          /\ init' = [init EXCEPT ![d] = job[d].peer]
          /\ connecting' = [connecting EXCEPT ![d] = TRUE]
          /\ Goto(d, "rx", "idle")
       \/ /\ connecting' = [connecting EXCEPT ![d] = FALSE]
          /\ Goto(d, "rx", "adv")
          /\ UNCHANGED init
    /\ job' = [job EXCEPT ![d] = NoJob]
    /\ UNCHANGED <<is_advertising, is_scanning, default_conn, le_chan, adv, scan, links, rxq,
                   wqq, history>>

-----------------------------------------------------------------------------
(* connected_cb; link 0 stands for an attempt that failed.                 *)

ConnectedCb(d, l) ==
    /\ Event(d, "connected", l)
    /\ rxq' = [rxq EXCEPT ![d] = Tail(@)]
    /\ connecting' = [connecting EXCEPT ![d] = FALSE]
    /\ default_conn' = [default_conn EXCEPT ![d] = IF @ = 0 THEN l ELSE @]
    /\ overlap' = [overlap EXCEPT ![d] = @ \/ (l # 0 /\ default_conn[d] # 0)]
    /\ job' = [job EXCEPT ![d] = [link |-> l, peer |-> NoDevice]]
    /\ Goto(d, "rx", "conn_adv")
    /\ UNCHANGED <<is_advertising, is_scanning, le_chan, stack, wqq, fails>>

AfterConnected(d) ==
    LET l == job[d].link IN
    IF l = 0 THEN "adv" ELSE IF links[l].central = d THEN "chan" ELSE "idle"

\* bt_l2cap_chan_connect on the cleared channel
ChanConnect(d) ==
    LET l == job[d].link IN
    /\ At(d, "rx", "chan") /\ Goto(d, "rx", "idle")
    /\ IF Up(l)
       THEN /\ le_chan' = [le_chan EXCEPT ![d] = l]
            /\ rxq' = [rxq EXCEPT ![Peer(d, l)] = Append(@, [kind |-> "accept", link |-> l])]
       ELSE le_chan' = [le_chan EXCEPT ![d] = 0] /\ UNCHANGED rxq
    /\ job' = [job EXCEPT ![d] = NoJob]
    /\ UNCHANGED <<flags, stack, wqq, history>>

\* accept_conn; the channel is open, and chan_connected follows at both ends.
AcceptConn(d, l) ==
    /\ Event(d, "accept", l)
    /\ le_chan' = [le_chan EXCEPT ![d] = l]
    /\ rxq' = [rxq EXCEPT ![d] = Tail(@) \o <<[kind |-> "open", link |-> l]>>,
                          ![Peer(d, l)] = Append(@, [kind |-> "open", link |-> l])]
    /\ UNCHANGED <<flags, stack, wqq, at, job, history>>

\* A message goes to the other end, or net_buf_alloc or bt_l2cap_chan_send fails.
Send(d, l, msg) ==
    rxq' \in {[rxq EXCEPT ![d] = Tail(@)],
              [rxq EXCEPT ![d] = Tail(@),
                          ![Peer(d, l)] = Append(@, [kind |-> msg, link |-> l])]}

\* Seeded fault: both ends begin.
BothPing(d, l) ==
    /\ Event(d, "open", l) /\ Send(d, l, "ping")
    /\ UNCHANGED <<flags, le_chan, stack, wqq, at, job, history>>

ChanConnected(d, l) ==
    /\ Event(d, "open", l)
    /\ IF links[l].central = d THEN Send(d, l, "ping") ELSE rxq' = [rxq EXCEPT ![d] = Tail(@)]
    /\ UNCHANGED <<flags, le_chan, stack, wqq, at, job, history>>

ChanRecv(d, l) ==
    /\ \/ Event(d, "ping", l) /\ Send(d, l, "pong")
       \/ Event(d, "pong", l) /\ Send(d, l, "ping")
    /\ UNCHANGED <<flags, le_chan, stack, wqq, at, job, history>>

\* The stack detaches the channel and leaves disconnected_cb to the work queue.
Disconnecting(d, l) ==
    /\ Event(d, "disconnected", l)
    /\ rxq' = [rxq EXCEPT ![d] = Tail(@)]
    /\ le_chan' = [le_chan EXCEPT ![d] = IF @ = l THEN 0 ELSE @]
    /\ wqq' = [wqq EXCEPT ![d] = Append(@, l)]
    /\ UNCHANGED <<flags, stack, at, job, history>>

\* Seeded fault: the reference to the connection is kept.
DisconnectedKeeps(d) ==
    /\ At(d, "wq", "idle") /\ wqq[d] # <<>>
    /\ wqq' = [wqq EXCEPT ![d] = Tail(@)]
    /\ IF default_conn[d] = Head(wqq[d])
       THEN connecting' = [connecting EXCEPT ![d] = FALSE] /\ Goto(d, "wq", "adv")
       ELSE UNCHANGED <<connecting, at>>
    /\ UNCHANGED <<is_advertising, is_scanning, default_conn, le_chan, stack, rxq, job, history>>

\* Seeded fault: nothing is started again.
DisconnectedStays(d) ==
    /\ At(d, "wq", "idle") /\ wqq[d] # <<>>
    /\ wqq' = [wqq EXCEPT ![d] = Tail(@)]
    /\ IF default_conn[d] = Head(wqq[d])
       THEN /\ default_conn' = [default_conn EXCEPT ![d] = 0]
            /\ connecting' = [connecting EXCEPT ![d] = FALSE]
       ELSE UNCHANGED <<default_conn, connecting>>
    /\ UNCHANGED <<is_advertising, is_scanning, le_chan, stack, rxq, at, job, history>>

DisconnectedCb(d) ==
    /\ At(d, "wq", "idle") /\ wqq[d] # <<>>
    /\ wqq' = [wqq EXCEPT ![d] = Tail(@)]
    /\ IF default_conn[d] = Head(wqq[d])
       THEN /\ default_conn' = [default_conn EXCEPT ![d] = 0]
            /\ connecting' = [connecting EXCEPT ![d] = FALSE]
            /\ Goto(d, "wq", "adv")
       ELSE UNCHANGED <<default_conn, connecting, at>>
    /\ UNCHANGED <<is_advertising, is_scanning, le_chan, stack, rxq, job, history>>

-----------------------------------------------------------------------------
(* The controllers.                                                        *)

\* A device that advertises is connected to, which ends its advertising.
LinkUp(d, p) ==
    /\ init[d] = p /\ p # NoDevice /\ adv[p] /\ ~Linked(d, p) /\ Len(links) < MaxLinks
    /\ links' = Append(links, [central |-> d, peripheral |-> p, up |-> TRUE])
    /\ init' = [init EXCEPT ![d] = NoDevice]
    /\ adv' = [adv EXCEPT ![p] = FALSE]
    /\ rxq' = [e \in Devices |-> IF e \in {d, p}
                 THEN Append(rxq[e], [kind |-> "connected", link |-> Len(links')])
                 ELSE rxq[e]]
    /\ UNCHANGED <<flags, le_chan, scan, wqq, at, job, history>>

ConnectTimeout(d) ==
    /\ init[d] # NoDevice
    /\ init' = [init EXCEPT ![d] = NoDevice]
    /\ rxq' = [rxq EXCEPT ![d] = Append(@, [kind |-> "connected", link |-> 0])]
    /\ UNCHANGED <<flags, le_chan, adv, scan, links, wqq, at, job, history>>

\* Messages of the connection that were not handed over are lost.
Remaining(s, l) ==
    LET kept[n \in 0 .. Len(s)] ==
            IF n = 0 THEN <<>>
            ELSE IF s[n].link # l \/ s[n].kind = "connected" THEN Append(kept[n - 1], s[n])
            ELSE kept[n - 1]
    IN  kept[Len(s)]

LinkDown(l) ==
    /\ Up(l)
    /\ links' = [links EXCEPT ![l].up = FALSE]
    /\ rxq' = [e \in Devices |->
                 IF e \in {links[l].central, links[l].peripheral}
                 THEN Append(Remaining(rxq[e], l), [kind |-> "disconnected", link |-> l])
                 ELSE rxq[e]]
    /\ UNCHANGED <<flags, le_chan, adv, scan, init, wqq, at, job, history>>

-----------------------------------------------------------------------------
Starting(d, t) ==
    \/ StartAdvertising(d, t) \/ AdvertisingStarted(d, t)
    \/ StartScanning(d, t) \/ ScanningStarted(d, t)

Receive(d) ==
    \/ Starting(d, "rx")
    \/ StopScanning(d, "found_scan", "found_adv") \/ StopAdvertising(d, "found_adv", "create")
    \/ LeCreate(d)
    \/ StopAdvertising(d, "conn_adv", "conn_scan")
    \/ StopScanning(d, "conn_scan", AfterConnected(d))
    \/ ChanConnect(d)
    \/ \E l \in 0 .. MaxLinks :
        \/ ConnectedCb(d, l) \/ AcceptConn(d, l) \/ ChanConnected(d, l) \/ ChanRecv(d, l)
        \/ Disconnecting(d, l)

Next ==
    \/ \E d \in Devices :
        \/ Starting(d, "main") \/ Starting(d, "wq") \/ Receive(d) \/ DisconnectedCb(d)
        \/ ConnectTimeout(d)
        \/ \E p \in Devices : ScanCb(d, p) \/ LinkUp(d, p)
    \/ \E l \in 1 .. Len(links) : LinkDown(l)

(* The threads of a device run when they can.                              *)
Spec ==
    /\ Init /\ [][Next]_vars
    /\ \A d \in Devices :
        /\ WF_vars(Starting(d, "main")) /\ WF_vars(Receive(d))
        /\ WF_vars(Starting(d, "wq") \/ DisconnectedCb(d))
-----------------------------------------------------------------------------
(* Properties.                                                             *)

Places == {"idle", "adv", "advset", "scan", "scanset", "found_scan", "found_adv", "create",
           "conn_adv", "conn_scan", "chan"}
Kinds == {"connected", "disconnected", "accept", "open", "ping", "pong"}
LinkIds == 0 .. MaxLinks

TypeOK ==
    /\ is_advertising \in [Devices -> BOOLEAN] /\ is_scanning \in [Devices -> BOOLEAN]
    /\ connecting \in [Devices -> BOOLEAN]
    /\ default_conn \in [Devices -> LinkIds] /\ le_chan \in [Devices -> LinkIds]
    /\ adv \in [Devices -> BOOLEAN] /\ scan \in [Devices -> BOOLEAN]
    /\ init \in [Devices -> Devices \cup {NoDevice}]
    /\ links \in Seq([central : Devices, peripheral : Devices, up : BOOLEAN])
    /\ rxq \in [Devices -> Seq([kind : Kinds, link : LinkIds])]
    /\ wqq \in [Devices -> Seq(LinkIds)]
    /\ at \in [Devices -> [Threads -> Places]]
    /\ job \in [Devices -> [link : LinkIds, peer : Devices \cup {NoDevice}]]
    /\ fails \in 0 .. MaxFails /\ overlap \in [Devices -> BOOLEAN]

\* Nothing is left to do for the device's threads.
Settled(d) ==
    /\ \A t \in Threads : At(d, t, "idle")
    /\ rxq[d] = <<>> /\ wqq[d] = <<>> /\ init[d] = NoDevice

Connected(d) ==
    \E l \in DOMAIN links : Up(l) /\ d \in {links[l].central, links[l].peripheral}

\* "Restart advertising and scanning after disconnect": a device that is not
\* connected can be found or finds others, in every order of callbacks, stops and
\* restarts, and although the flags may be behind what the stack does. Excepted are
\* a start that failed, and a connection made while default_conn is still that of
\* the last one: its own end is not followed by a restart.
NotDeaf ==
    \A d \in Devices :
        Settled(d) /\ ~Connected(d) /\ fails = 0 /\ ~overlap[d] => adv[d] \/ scan[d]

\* The state has its type, and default_conn and the channel are never left to a
\* connection that has ended, in whatever order the callbacks of the old and the new
\* one run. (The converse does not hold: a connection made before disconnected_cb of
\* the last one has run is not taken into default_conn.)
ConnTracked ==
    /\ TypeOK
    /\ \A d \in Devices : Settled(d) =>
        /\ default_conn[d] # 0 => Up(default_conn[d])
        /\ le_chan[d] # 0 => Up(le_chan[d])

Ball(x, l) == x.link = l /\ x.kind \in {"ping", "pong"}

\* One ball per connection: a second one would never go away.
OneBall ==
    \A l \in DOMAIN links, d, e \in Devices :
        \A i \in DOMAIN rxq[d], j \in DOMAIN rxq[e] :
            Ball(rxq[d][i], l) /\ Ball(rxq[e][j], l) => d = e /\ i = j

\* "Stop advertising and scanning when connected": once connected_cb is through,
\* neither goes on.
QuietWhenConnected ==
    \A d \in Devices :
        Up(default_conn[d]) /\ At(d, "rx", "idle") /\ rxq[d] = <<>> => ~adv[d] /\ ~scan[d]
=============================================================================
