----------------------------- MODULE SlipRadio ------------------------------
(***************************************************************************)
(* The whole radio stick, apps/wpan_serial_uart/src/main.c, frame by       *)
(* frame: main boots, rx_thread executes the host's commands, the radio    *)
(* driver delivers frames through net_recv_data, and tx_thread writes      *)
(* replies and radio frames to the serial line. The two packet pools tie   *)
(* the paths together. UartTx and SlipRx model the two byte streams; here  *)
(* a frame arrives whole or as junk, and leaves whole or not at all: the   *)
(* stale completion that UartTx shows is left to that module.              *)
(*                                                                         *)
(* Commands: "M" is ?M (address), "S" is !S (send a frame), "C" is !C (set *)
(* channel). "junk" is anything else the line delivers: the tail of a      *)
(* frame, two frames run together, a frame too short for what rx_thread    *)
(* pulls from it. rx_thread then reads bytes nobody sent, so junk may turn *)
(* into any command.                                                       *)
(***************************************************************************)
EXTENDS Naturals, FiniteSets, SequencesExt

CONSTANTS MaxCommands,  \* bound: commands the host sends
          MaxJunk,      \* bound: junk commands accepted
          MaxRadio,     \* bound: frames the radio receives
          RxPool,       \* CONFIG_NET_PKT_RX_COUNT
          TxPool,       \* CONFIG_NET_PKT_TX_COUNT
          Channels,
          DefaultChannel, \* CONFIG_NET_CONFIG_IEEE802154_CHANNEL
          NULL

Kinds == {"M", "S", "C", "junk"}
Commands == [kind : Kinds, seq : 0 .. MaxCommands, chan : Channels]
OutFrames == [kind : {"mac", "report", "radio"}, n : 0 .. MaxCommands + MaxRadio,
              value : 0 .. 255]

ASSUME SlipRadioAssumption ==
    /\ MaxCommands \in Nat /\ MaxJunk \in Nat /\ MaxRadio \in Nat
    /\ RxPool \in Nat \ {0} /\ TxPool \in Nat \ {0}
    /\ DefaultChannel \in Channels
    /\ NULL \notin Commands /\ NULL \notin OutFrames

CountKind(s, K) == Cardinality({i \in 1 .. Len(s) : s[i].kind \in K})

VARIABLES
    boot,           \* "init", "radio", "callback", "ready" or "failed"
    mac_addr,       \* get_mac has filled it in
    channel,        \* the radio's channel
    issued,         \* commands the host has sent; their number is their seq
    arrived,        \* frames the radio driver has handed to net_recv_data
    rx_free, tx_free,
    rx_queue,
    job,            \* command rx_thread executes, or NULL
    step,           \* "parse", "report" or "unref" while it does
    status,         \* what the radio answered for it
    tx_queue,
    out,            \* frame tx_thread writes, or NULL
    air,            \* history: frames whose transmission the radio confirmed, <<seq, channel>>
    host,           \* history: frames that reached the host
    accepted        \* history: commands put into rx_queue

rxside == <<rx_queue, job, step, status, air, channel, accepted>>
vars == <<boot, mac_addr, channel, issued, arrived, rx_free, tx_free, rx_queue,
          job, step, status, tx_queue, out, air, host, accepted>>

(* init_rx_queue and init_tx_queue have run: both threads wait. A UART     *)
(* that is not ready ends main before this, and nothing happens at all.    *)
Init ==
    /\ boot = "init" /\ mac_addr = FALSE /\ channel = DefaultChannel
    /\ issued = 0 /\ arrived = 0
    /\ rx_free = RxPool /\ tx_free = TxPool
    /\ rx_queue = <<>> /\ job = NULL /\ step = "parse" /\ status = 0
    /\ tx_queue = <<>> /\ out = NULL
    /\ air = <<>> /\ host = <<>> /\ accepted = <<>>

-----------------------------------------------------------------------------
(* main *)

BootStep(from, to) ==
    /\ boot = from
    /\ boot' = to
    /\ UNCHANGED <<issued, arrived, rx_free, tx_free, rxside, tx_queue, out, host>>

\* init_ieee802154: address, default channel, radio started.
InitRadio == BootStep("init", "radio") /\ mac_addr' = TRUE

InitRadioFails == BootStep("init", "failed") /\ UNCHANGED mac_addr

CallbackSet == BootStep("radio", "callback") /\ UNCHANGED mac_addr

RxEnable == BootStep("callback", "ready") /\ UNCHANGED mac_addr

-----------------------------------------------------------------------------
(* Commands from the serial line (interrupt_handler, see SlipRx).          *)

Arrive(kind, chan) ==
    /\ boot = "ready" /\ issued < MaxCommands
    /\ kind = "C" \/ chan = DefaultChannel     \* chan means nothing elsewhere
    /\ kind = "junk" => CountKind(accepted, {"junk"}) < MaxJunk
    /\ issued' = issued + 1
    /\ LET c == [kind |-> kind, seq |-> IF kind = "junk" THEN 0 ELSE issued',
                 chan |-> chan]
       IN IF rx_free > 0
          THEN /\ rx_free' = rx_free - 1
               /\ rx_queue' = Append(rx_queue, c)
               /\ accepted' = Append(accepted, c)
          ELSE UNCHANGED <<rx_free, rx_queue, accepted>>
    /\ UNCHANGED <<boot, mac_addr, channel, arrived, tx_free, job, step, status,
                   tx_queue, out, air, host>>

-----------------------------------------------------------------------------
(* rx_thread *)

RxGet ==
    /\ job = NULL /\ rx_queue # <<>>
    /\ job' = Head(rx_queue)
    /\ rx_queue' = Tail(rx_queue)
    /\ step' = "parse"
    /\ UNCHANGED <<boot, mac_addr, channel, issued, arrived, rx_free, tx_free, status,
                   tx_queue, out, air, host, accepted>>

\* send_data: without a free TX packet the reply is dropped.
SendData(f) ==
    IF tx_free > 0
    THEN tx_free' = tx_free - 1 /\ tx_queue' = Append(tx_queue, f)
    ELSE UNCHANGED <<tx_free, tx_queue>>

\* The bytes pulled from junk are whatever the buffer holds.
ParseJunk ==
    /\ job # NULL /\ step = "parse" /\ job.kind = "junk"
    /\ \/ \E k \in Kinds \ {"junk"}, c \in Channels :
             job' = [job EXCEPT !.kind = k, !.chan = c] /\ step' = step
       \/ job' = job /\ step' = "unref"
    /\ UNCHANGED <<boot, mac_addr, channel, issued, arrived, rx_free, tx_free,
                   rx_queue, status, tx_queue, out, air, host, accepted>>

\* process_request, get_ieee_addr
GetIeeeAddr ==
    /\ job # NULL /\ step = "parse" /\ job.kind = "M"
    /\ SendData([kind |-> "mac", n |-> job.seq, value |-> IF mac_addr THEN 1 ELSE 0])
    /\ step' = "unref"
    /\ UNCHANGED <<boot, mac_addr, channel, issued, arrived, rx_free, rx_queue, job,
                   status, out, air, host, accepted>>

\* process_data up to the radio's answer: 0, or an errno that send_pkt_report
\* squeezes into a byte.
RadioErrors == {5}          \* EIO

\* Seeded fault: a failed transmission is retried without a limit.
ProcessDataRetries ==
    /\ job # NULL /\ step = "parse" /\ job.kind = "S"
    /\ \/ status' = 0 /\ air' = Append(air, <<job.seq, channel>>) /\ step' = "report"
       \/ \E e \in RadioErrors :
             status' = 256 - e - (status % 2) /\ UNCHANGED <<air, step>>
    /\ UNCHANGED <<boot, mac_addr, channel, issued, arrived, rx_free, tx_free,
                   rx_queue, job, tx_queue, out, host, accepted>>

ProcessData ==
    /\ job # NULL /\ step = "parse" /\ job.kind = "S"
    /\ \/ status' = 0 /\ air' = Append(air, <<job.seq, channel>>)
       \/ \E e \in RadioErrors : status' = 256 - e /\ UNCHANGED air
    /\ step' = "report"
    /\ UNCHANGED <<boot, mac_addr, channel, issued, arrived, rx_free, tx_free,
                   rx_queue, job, tx_queue, out, host, accepted>>

\* Seeded fault: every transmission is reported as done.
ReportSuccess ==
    /\ job # NULL /\ step = "report"
    /\ SendData([kind |-> "report", n |-> job.seq, value |-> 0])
    /\ step' = "unref"
    /\ UNCHANGED <<boot, mac_addr, channel, issued, arrived, rx_free, rx_queue, job,
                   status, out, air, host, accepted>>

SendPktReport ==
    /\ job # NULL /\ step = "report"
    /\ SendData([kind |-> "report", n |-> job.seq, value |-> status])
    /\ step' = "unref"
    /\ UNCHANGED <<boot, mac_addr, channel, issued, arrived, rx_free, rx_queue, job,
                   status, out, air, host, accepted>>

\* Seeded fault: the default channel is set, not the one asked for.
SetDefaultChannel ==
    /\ job # NULL /\ step = "parse" /\ job.kind = "C"
    /\ channel' = DefaultChannel
    /\ step' = "unref"
    /\ UNCHANGED <<boot, mac_addr, issued, arrived, rx_free, tx_free, rx_queue, job,
                   status, tx_queue, out, air, host, accepted>>

\* A channel the radio supports: its set_channel succeeds.
SetChannel ==
    /\ job # NULL /\ step = "parse" /\ job.kind = "C"
    /\ channel' = job.chan
    /\ step' = "unref"
    /\ UNCHANGED <<boot, mac_addr, issued, arrived, rx_free, tx_free, rx_queue, job,
                   status, tx_queue, out, air, host, accepted>>

\* Seeded fault: the packet is given back twice.
RxUnrefTwice ==
    /\ job # NULL /\ step = "unref"
    /\ job' = NULL /\ status' = 0
    /\ rx_free' = rx_free + 2
    /\ UNCHANGED <<boot, mac_addr, channel, issued, arrived, tx_free, rx_queue, step,
                   tx_queue, out, air, host, accepted>>

RxUnref ==
    /\ job # NULL /\ step = "unref"
    /\ job' = NULL /\ status' = 0
    /\ rx_free' = rx_free + 1
    /\ UNCHANGED <<boot, mac_addr, channel, issued, arrived, tx_free, rx_queue, step,
                   tx_queue, out, air, host, accepted>>

RxThread ==
    \/ RxGet \/ ParseJunk \/ GetIeeeAddr \/ ProcessData \/ SendPktReport
    \/ SetChannel \/ RxUnref

-----------------------------------------------------------------------------
(* net_recv_data: the driver's packet is one of the RX pool.               *)

NetRecvData ==
    /\ boot \in {"radio", "callback", "ready"}
    /\ arrived < MaxRadio /\ rx_free > 0
    /\ arrived' = arrived + 1
    /\ rx_free' = rx_free - 1
    /\ tx_queue' = Append(tx_queue, [kind |-> "radio", n |-> arrived', value |-> 0])
    /\ UNCHANGED <<boot, mac_addr, issued, tx_free, rxside, out, host>>

-----------------------------------------------------------------------------
(* tx_thread: try_write ends with the frame on the line, which needs the   *)
(* interrupt handler, or after a second without it.                        *)

\* Seeded fault: tx_queue is a stack (k_lifo).
TxGetLast ==
    /\ out = NULL /\ tx_queue # <<>>
    /\ out' = Last(tx_queue)
    /\ tx_queue' = Front(tx_queue)
    /\ UNCHANGED <<boot, mac_addr, issued, arrived, rx_free, tx_free, rxside, host>>

TxGet ==
    /\ out = NULL /\ tx_queue # <<>>
    /\ out' = Head(tx_queue)
    /\ tx_queue' = Tail(tx_queue)
    /\ UNCHANGED <<boot, mac_addr, issued, arrived, rx_free, tx_free, rxside, host>>

\* Seeded fault: tx_thread takes every packet for one of its own pool.
UnrefToTx(f) == tx_free' = tx_free + 1 /\ UNCHANGED rx_free

\* net_pkt_unref gives the packet back to the pool it came from.
Unref(f) ==
    IF f.kind = "radio"
    THEN rx_free' = rx_free + 1 /\ UNCHANGED tx_free
    ELSE tx_free' = tx_free + 1 /\ UNCHANGED rx_free

TxWritten ==
    /\ out # NULL /\ boot \in {"callback", "ready"}
    /\ host' = Append(host, out)
    /\ Unref(out)
    /\ out' = NULL
    /\ UNCHANGED <<boot, mac_addr, issued, arrived, rxside, tx_queue>>

\* Seeded fault: try_write waits with K_FOREVER.
NoTxTimeout == FALSE /\ UNCHANGED vars

TxTimeout ==
    /\ out # NULL
    /\ Unref(out)
    /\ out' = NULL
    /\ UNCHANGED <<boot, mac_addr, issued, arrived, rxside, tx_queue, host>>

-----------------------------------------------------------------------------
Next ==
    \/ InitRadio \/ InitRadioFails \/ CallbackSet \/ RxEnable
    \/ \E kind \in Kinds, chan \in Channels : Arrive(kind, chan)
    \/ RxThread
    \/ NetRecvData
    \/ TxGet \/ TxWritten \/ TxTimeout

(* Both threads run, the driver answers a transmission, and a write ends   *)
(* at the latest by its timeout. Nothing is assumed of host and air.       *)
Spec ==
    /\ Init /\ [][Next]_vars
    /\ WF_vars(RxThread)
    /\ WF_vars(TxGet) /\ WF_vars(TxWritten \/ TxTimeout)
-----------------------------------------------------------------------------
(* Properties.                                                             *)

TypeOK ==
    /\ boot \in {"init", "failed", "radio", "callback", "ready"}
    /\ mac_addr \in BOOLEAN
    /\ channel \in Channels
    /\ issued \in 0 .. MaxCommands /\ arrived \in 0 .. MaxRadio
    /\ rx_free \in 0 .. RxPool /\ tx_free \in 0 .. TxPool
    /\ rx_queue \in Seq(Commands) /\ accepted \in Seq(Commands)
    /\ job \in Commands \cup {NULL}
    /\ step \in {"parse", "report", "unref"}
    /\ status \in 0 .. 255
    /\ tx_queue \in Seq(OutFrames) /\ host \in Seq(OutFrames)
    /\ out \in OutFrames \cup {NULL}
    /\ air \in Seq((0 .. MaxCommands) \X Channels)

One(b) == IF b THEN 1 ELSE 0

\* What tx_thread has still to write.
Unwritten == (IF out = NULL THEN <<>> ELSE <<out>>) \o tx_queue

\* Every packet of either pool is free or in exactly one place, across rx_thread,
\* tx_thread, driver and both queues, and goes back to the pool it came from.
PoolsConserved ==
    /\ rx_free + Len(rx_queue) + One(job # NULL) + CountKind(Unwritten, {"radio"}) = RxPool
    /\ tx_free + CountKind(Unwritten, {"mac", "report"}) = TxPool

\* What the host has seen and will see, in order. Numbers of one kind of source
\* only grow: no reply and no radio frame is repeated or overtakes another.
Stream == host \o Unwritten

Ascending(s, F) ==
    \A i, j \in 1 .. Len(s) : i < j /\ s[i] \in F /\ s[j] \in F => s[i].n < s[j].n

RadioFrames == {f \in OutFrames : f.kind = "radio"}
Replies == {f \in OutFrames : f.kind # "radio" /\ f.n > 0}

HostOrder == Ascending(Stream, RadioFrames) /\ Ascending(Stream, Replies)

\* A command is transmitted at most once, and its report says 0 exactly when it
\* was: the status belongs to this command and survives the cast to a byte. No reply
\* carries the address before get_mac has made it, although rx_thread and tx_thread
\* run from the start of main.
RepliesHonest ==
    /\ \A i, j \in 1 .. Len(air) : i < j /\ air[i][1] > 0 /\ air[j][1] > 0 =>
          air[i][1] < air[j][1]
    /\ \A k \in 1 .. Len(Stream) :
          /\ Stream[k].kind = "report" /\ Stream[k].n > 0 =>
                (Stream[k].value = 0 <=> \E i \in 1 .. Len(air) : air[i][1] = Stream[k].n)
          /\ Stream[k].kind = "mac" => Stream[k].value = 1

\* c is the channel that the accepted commands before the i-th ask for.
ChannelBefore(i, c) ==
    LET Sets(j) == accepted[j].kind = "C"
    IN  \/ c = DefaultChannel /\ \A j \in 1 .. i - 1 : ~Sets(j)
        \/ \E j \in 1 .. i - 1 :
              Sets(j) /\ accepted[j].chan = c /\ \A m \in j + 1 .. i - 1 : ~Sets(m)

\* A frame goes out on the channel the host selected last before it, although
\* commands wait in rx_queue and the radio transmits meanwhile.
ChannelObeyed ==
    \A i \in 1 .. Len(accepted) :
        (\A j \in 1 .. i : accepted[j].kind # "junk") =>
            \A k \in 1 .. Len(air) :
                air[k][1] = accepted[i].seq => ChannelBefore(i, air[k][2])

Executed == Len(accepted) - Len(rx_queue) - One(job # NULL)

\* rx_thread gets through every command it accepted, whatever the radio, the TX pool
\* and the serial line do. And a received frame leaves the queue and its packet returns
\* to the RX pool, even when the line is not served: a frame may arrive before main has
\* come to uart_irq_callback_set, and nothing says it ever does.
QueuesDrain ==
    /\ \A k \in 1 .. MaxCommands : Len(accepted) >= k ~> Executed >= k
    /\ \A n \in 1 .. MaxRadio :
        arrived >= n ~>
            \A k \in 1 .. Len(Unwritten) : Unwritten[k].kind = "radio" => Unwritten[k].n # n
=============================================================================
