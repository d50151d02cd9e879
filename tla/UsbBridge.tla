----------------------------- MODULE UsbBridge ------------------------------
(***************************************************************************)
(* The radio stick over USB (apps/wpan_serial/src/main.c) and the bridge   *)
(* on the host (py/wpan-bridge.py), with the ring buffer of the USB serial *)
(* port between them.                                                      *)
(*                                                                         *)
(* try_write does not wait: when the ring is full the rest of a frame is   *)
(* dropped, its END with it, and the next frame follows what went out.     *)
(* The bridge splits what it reads at END, and tells by the first bytes    *)
(* whether it has a reply of the stick or a frame of the radio.            *)
(*                                                                         *)
(* Towards the host each byte is modelled, <<frame, place, value>>: the    *)
(* frame it belongs to, counted as tx_thread takes them, its place in what *)
(* slip_buffer makes of that, and a value. Values are "!", "M", "R", the   *)
(* SLIP characters, the parts of replies, and "x" for any other. Commands  *)
(* of the host travel whole.                                               *)
(***************************************************************************)
EXTENDS Naturals, SequencesExt

CONSTANTS Contents,     \* what the radio receives: nonempty sequences of values
          RingSize,     \* bytes the USB serial port buffers
          Digits,       \* the bytes that sequence numbers are, from 0 on: 256 in the bridge
          MaxRadio,     \* bound: frames the radio receives
          MaxTun        \* bound: packets from the TUN device

\* What is told apart among the values of a byte.
ByteValues ==
    {"!", "M", "R", "END", "ESC", "ESC_END", "ESC_ESC", "unset", "mac", "ok", "err", "x"}
        \cup Range(Digits)

\* No frame of the radio begins with "!M" or "!R": its source addressing mode would be 1,
\* which IEEE 802.15.4 reserves. "!" and another byte is possible.
ASSUME UsbBridgeAssumption ==
    /\ RingSize \in Nat \ {0} /\ MaxRadio \in Nat /\ MaxTun \in Nat
    /\ Digits \in Seq(STRING) /\ Digits # <<>>
    /\ \A c \in Contents :
          c \in Seq(ByteValues) /\ Len(c) >= 2 /\ ~(c[1] = "!" /\ c[2] \in {"M", "R"})

VARIABLES
    boot,           \* where main of the stick is
    mac_addr,       \* "unset" or "mac": a byte of the address
    cmds,           \* commands on their way to the stick
    rx_queue, tx_queue,
    frames,         \* packets tx_thread has taken, with their contents
    out,            \* what try_write still has to write
    ring,           \* bytes in the ring buffer
    arrived,        \* frames the radio has received
    bridge,         \* where run is: "start", "running"
    slip_buffer, radio_mac, seq,
    tunRead,        \* packets read from the TUN device
    ends,           \* history: frames whose END ended a message
    message,        \* history: the last message decoded
    taken,          \* history: what it was taken for
    radioed,        \* history: seq of what the radio has confirmed
    lost,           \* history: commands dropped, or their replies
    cut             \* history: frames that were not written to their end

stick == <<boot, mac_addr, rx_queue, tx_queue, frames, out, arrived, radioed, cut>>
host == <<bridge, slip_buffer, radio_mac, seq, tunRead, ends, message, taken>>
vars == <<stick, host, cmds, ring, lost>>

SeqRange == Len(Digits)
Digit(n) == Digits[n + 1]

Init ==
    /\ boot = "dtr" /\ mac_addr = "unset"
    /\ cmds = <<>> /\ rx_queue = <<>> /\ tx_queue = <<>> /\ frames = <<>>
    /\ out = <<>> /\ ring = <<>> /\ arrived = 0
    /\ bridge = "start" /\ slip_buffer = <<>> /\ radio_mac = <<>> /\ seq = 0 /\ tunRead = 0
    /\ ends = <<>> /\ message = <<>> /\ taken = "none"
    /\ radioed = {} /\ lost = {} /\ cut = {}

-----------------------------------------------------------------------------
(* The stick: main.                                                        *)

BootStep(from, to) == boot = from /\ boot' = to

\* The bridge has opened the port; both threads are created and wait.
DtrSet ==
    /\ BootStep("dtr", "radio")
    /\ UNCHANGED <<mac_addr, rx_queue, tx_queue, frames, out, arrived, radioed, cut, host,
                   cmds, ring, lost>>

\* Seeded fault: the address is made only if the radio filters by it.
InitRadioUnfiltered ==
    /\ BootStep("radio", "irq")
    /\ mac_addr' \in {"unset", "mac"}
    /\ UNCHANGED <<rx_queue, tx_queue, frames, out, arrived, radioed, cut, host, cmds, ring,
                   lost>>

InitRadio ==
    /\ BootStep("radio", "irq")
    /\ mac_addr' = "mac"
    /\ UNCHANGED <<rx_queue, tx_queue, frames, out, arrived, radioed, cut, host, cmds, ring,
                   lost>>

InitRadioFails ==
    /\ BootStep("radio", "failed")
    /\ UNCHANGED <<mac_addr, rx_queue, tx_queue, frames, out, arrived, radioed, cut, host,
                   cmds, ring, lost>>

\* Seeded fault: what has come before the callback is set is discarded.
RxEnableFlushes ==
    /\ BootStep("irq", "running")
    /\ cmds' = <<>>
    /\ UNCHANGED <<mac_addr, rx_queue, tx_queue, frames, out, arrived, radioed, cut, host,
                   ring, lost>>

RxEnable ==
    /\ BootStep("irq", "running")
    /\ UNCHANGED <<mac_addr, rx_queue, tx_queue, frames, out, arrived, radioed, cut, host,
                   cmds, ring, lost>>

-----------------------------------------------------------------------------
(* The stick: commands. Without a free packet a command or a reply is      *)
(* dropped (SlipRadio counts the packets).                                 *)

InterruptHandler ==
    /\ boot = "running" /\ cmds # <<>>
    /\ cmds' = Tail(cmds)
    /\ \/ rx_queue' = Append(rx_queue, Head(cmds)) /\ UNCHANGED lost
       \/ lost' = lost \cup {Head(cmds).kind} /\ UNCHANGED rx_queue
    /\ UNCHANGED <<boot, mac_addr, tx_queue, frames, out, arrived, radioed, cut, host, ring>>

\* One value stands for what send_data adds in the place of the LQI.
SendData(kind, data) ==
    \/ /\ tx_queue' = Append(tx_queue, [kind |-> kind, data |-> <<"!", kind>> \o data \o <<"x">>])
       /\ UNCHANGED lost
    \/ lost' = lost \cup {kind} /\ UNCHANGED tx_queue

GetIeeeAddr ==
    /\ rx_queue # <<>> /\ Head(rx_queue).kind = "M"
    /\ SendData("M", <<mac_addr, mac_addr>>)
    /\ UNCHANGED radioed

\* Seeded fault: success is reported whatever the radio says.
ProcessDataOptimistic ==
    /\ rx_queue # <<>> /\ Head(rx_queue).kind = "S"
    /\ radioed' \in {radioed, radioed \cup {Head(rx_queue).seq}}
    /\ SendData("R", <<Digit(Head(rx_queue).seq), "ok">>)

ProcessData ==
    /\ rx_queue # <<>> /\ Head(rx_queue).kind = "S"
    /\ \E status \in {"ok", "err"} :
        /\ radioed' = IF status = "ok" THEN radioed \cup {Head(rx_queue).seq} ELSE radioed
        /\ SendData("R", <<Digit(Head(rx_queue).seq), status>>)

RxThread ==
    /\ GetIeeeAddr \/ ProcessData
    /\ rx_queue' = Tail(rx_queue)
    /\ UNCHANGED <<boot, mac_addr, frames, out, arrived, cut, host, cmds, ring>>

NetRecvData ==
    /\ boot \in {"irq", "running"} /\ arrived < MaxRadio
    /\ arrived' = arrived + 1
    /\ \E c \in Contents : tx_queue' = Append(tx_queue, [kind |-> "radio", data |-> c])
    /\ UNCHANGED <<boot, mac_addr, rx_queue, frames, out, radioed, cut, host, cmds, ring, lost>>

-----------------------------------------------------------------------------
(* The stick: tx_thread.                                                   *)

SlipCode(v) ==
    CASE v = "END" -> <<"ESC", "ESC_END">>
      [] v = "ESC" -> <<"ESC", "ESC_ESC">>
      [] OTHER -> <<v>>

Encoded(data) ==
    LET code[n \in 0 .. Len(data)] ==
            IF n = 0 THEN <<>> ELSE code[n - 1] \o SlipCode(data[n])
    IN  Append(code[Len(data)], "END")

SlipBuffer(f, data) ==
    LET code == Encoded(data) IN [k \in 1 .. Len(code) |-> <<f, k, code[k]>>]

TxGet ==
    /\ out = <<>> /\ tx_queue # <<>>
    /\ frames' = Append(frames, Head(tx_queue))
    /\ tx_queue' = Tail(tx_queue)
    /\ out' = SlipBuffer(Len(frames'), Head(tx_queue).data)
    /\ UNCHANGED <<boot, mac_addr, rx_queue, arrived, radioed, cut, host, cmds, ring, lost>>

Space == RingSize - Len(ring)

\* Seeded fault: a short write starts again with the first byte of what is left.
FifoFillNoAdvance ==
    /\ out # <<>> /\ Space > 0
    /\ LET n == IF Len(out) < Space THEN Len(out) ELSE Space IN
        /\ ring' = ring \o SubSeq(out, 1, n)
        /\ out' = IF n = Len(out) THEN <<>> ELSE out
    /\ UNCHANGED <<boot, mac_addr, rx_queue, tx_queue, frames, arrived, radioed, cut, host,
                   cmds, lost>>

\* uart_fifo_fill takes what fits.
FifoFill ==
    /\ out # <<>> /\ Space > 0
    /\ LET n == IF Len(out) < Space THEN Len(out) ELSE Space IN
        /\ ring' = ring \o SubSeq(out, 1, n)
        /\ out' = SubSeq(out, n + 1, Len(out))
    /\ UNCHANGED <<boot, mac_addr, rx_queue, tx_queue, frames, arrived, radioed, cut, host,
                   cmds, lost>>

\* Nothing fits: try_write returns 0, as if all were written.
FifoFull ==
    /\ out # <<>> /\ Space = 0
    /\ out' = <<>>
    /\ cut' = cut \cup {Len(frames)}
    /\ UNCHANGED <<boot, mac_addr, rx_queue, tx_queue, frames, arrived, radioed, host, cmds,
                   ring, lost>>

TxThread == TxGet \/ FifoFill \/ FifoFull

-----------------------------------------------------------------------------
(* The bridge.                                                             *)

\* run sends the request once, and goes on after a pause with or without an answer.
RequestMac ==
    /\ bridge = "start"
    /\ bridge' = "running"
    /\ cmds' = Append(cmds, [kind |-> "M", seq |-> 0])
    /\ UNCHANGED <<stick, slip_buffer, radio_mac, seq, tunRead, ends, message, taken, ring,
                   lost>>

\* An ESC takes the next byte with it, whatever it is.
DecodeByte(s, b) ==
    CASE s.esc -> [esc |-> FALSE,
                   bytes |-> CASE b[3] = "ESC_END" -> Append(s.bytes, <<b[1], b[2], "END">>)
                               [] b[3] = "ESC_ESC" -> Append(s.bytes, <<b[1], b[2], "ESC">>)
                               [] OTHER -> s.bytes]
      [] ~s.esc /\ b[3] = "ESC" -> [s EXCEPT !.esc = TRUE]
      [] OTHER -> [s EXCEPT !.bytes = Append(@, b)]

DecodeSlip(data) ==
    LET read[n \in 0 .. Len(data)] ==
            IF n = 0 THEN [esc |-> FALSE, bytes |-> <<>>] ELSE DecodeByte(read[n - 1], data[n])
    IN  read[Len(data)].bytes

Values(bytes) == [i \in DOMAIN bytes |-> bytes[i][3]]

\* By the first value a reply, by the second which one, if it is long enough. Of what
\* is taken for a frame of the radio the bridge writes to the TUN device what it can
\* parse: any or nothing.
HandleRadioPacket(m) ==
    /\ taken' \in
        CASE Len(m) >= 4 /\ m[1] = "!" /\ m[2] = "M" -> {"M"}
          [] Len(m) >= 4 /\ m[1] = "!" /\ m[2] = "R" -> {"R"}
          [] Len(m) >= 2 /\ m[1] # "!" -> {"tun", "none"}
          [] OTHER -> {"none"}
    /\ radio_mac' = IF taken' = "M" THEN SubSeq(m, 3, 4) ELSE radio_mac

EndOfMessage(f) ==
    /\ message' = DecodeSlip(slip_buffer)
    /\ ends' = Append(ends, f)
    /\ HandleRadioPacket(Values(message'))

\* Seeded fault: what was decoded stays in the buffer.
SerialReadKeeps ==
    /\ bridge = "running" /\ ring # <<>>
    /\ ring' = Tail(ring)
    /\ IF Head(ring)[3] = "END"
       THEN EndOfMessage(Head(ring)[1]) /\ UNCHANGED slip_buffer
       ELSE /\ slip_buffer' = Append(slip_buffer, Head(ring))
            /\ UNCHANGED <<ends, message, taken, radio_mac>>
    /\ UNCHANGED <<stick, bridge, seq, tunRead, cmds, lost>>

\* A byte after the other: how many a read returns makes no difference.
SerialRead ==
    /\ bridge = "running" /\ ring # <<>>
    /\ ring' = Tail(ring)
    /\ IF Head(ring)[3] = "END"
       THEN EndOfMessage(Head(ring)[1]) /\ slip_buffer' = <<>>
       ELSE /\ slip_buffer' = Append(slip_buffer, Head(ring))
            /\ UNCHANGED <<ends, message, taken, radio_mac>>
    /\ UNCHANGED <<stick, bridge, seq, tunRead, cmds, lost>>

\* Seeded fault: the sequence number is not cut to a byte.
SendToRadioNoWrap ==
    /\ cmds' = Append(cmds, [kind |-> "S", seq |-> seq])
    /\ seq' = seq + 1

SendToRadio ==
    /\ cmds' = Append(cmds, [kind |-> "S", seq |-> seq])
    /\ seq' = (seq + 1) % SeqRange

\* A packet for the radio is skipped as long as the stick's address is not known.
TunRead ==
    /\ bridge = "running" /\ tunRead < MaxTun
    /\ tunRead' = tunRead + 1
    /\ IF radio_mac # <<>> THEN SendToRadio ELSE UNCHANGED <<cmds, seq>>
    /\ UNCHANGED <<stick, bridge, slip_buffer, radio_mac, ends, message, taken, ring, lost>>

-----------------------------------------------------------------------------
Main == DtrSet \/ InitRadio \/ InitRadioFails \/ RxEnable

Next ==
    \/ Main \/ InterruptHandler \/ RxThread \/ NetRecvData \/ TxThread
    \/ RequestMac \/ SerialRead \/ TunRead

(* Every thread runs, USB carries what is sent, and the bridge reads.      *)
Spec ==
    /\ Init /\ [][Next]_vars
    /\ WF_vars(Main) /\ WF_vars(InterruptHandler) /\ WF_vars(RxThread) /\ WF_vars(TxThread)
    /\ WF_vars(RequestMac) /\ WF_vars(SerialRead)
-----------------------------------------------------------------------------
(* Properties.                                                             *)

Bytes == Seq(Nat \X Nat \X ByteValues)

TypeOK ==
    /\ boot \in {"dtr", "radio", "irq", "running", "failed"} /\ mac_addr \in {"unset", "mac"}
    /\ \A q \in {cmds, rx_queue} : q \in Seq([kind : {"M", "S"}, seq : 0 .. SeqRange - 1])
    /\ \A q \in {tx_queue, frames} : q \in Seq([kind : {"M", "R", "radio"}, data : Seq(ByteValues)])
    /\ {out, ring, slip_buffer} \subseteq Bytes /\ Len(ring) <= RingSize
    /\ arrived \in 0 .. MaxRadio /\ tunRead \in 0 .. MaxTun /\ seq \in 0 .. SeqRange - 1
    /\ bridge \in {"start", "running"}
    /\ radio_mac \in Seq(ByteValues) /\ Len(radio_mac) \in {0, 2}
    /\ ends \in Seq(DOMAIN frames) /\ message \in Bytes
    /\ taken \in {"none", "M", "R", "tun"}
    /\ radioed \subseteq 0 .. SeqRange - 1 /\ lost \subseteq {"M", "S", "R"}
    /\ cut \subseteq DOMAIN frames

Spoiled(f) == f - 1 \in cut

Carries(bytes, f) ==
    /\ Values(bytes) = frames[f].data
    /\ \A i \in DOMAIN bytes : bytes[i][1] = f

\* The bridge has no frame start to go by, and still a frame that was not written to
\* its end harms at most the next one: every frame written to its end ends a message
\* of the bridge, in order, and is that message unless the one before it was cut.
CutsSpoilNeighbours ==
    ends # <<>> =>
        /\ \A i, j \in DOMAIN ends : i < j => ends[i] < ends[j]
        /\ \A f \in 1 .. Last(ends) : f \notin cut <=> \E i \in DOMAIN ends : ends[i] = f
        /\ Spoiled(Last(ends)) \/ Carries(message, Last(ends))

\* What the bridge believes of the stick is true, its address and which of its frames
\* the radio has sent, and nothing but frames of the radio is written to the TUN device,
\* although threads run before the address is made and replies share a line with what
\* the radio receives. Only what begins with a frame that was cut can be taken for
\* something it is not: the next frame may complete it to any reply.
BridgeBelieves ==
    /\ \/ radio_mac \in {<<>>, <<"mac", "mac">>}
       \/ \E i \in DOMAIN ends : Spoiled(ends[i])
    /\ taken = "R" /\ message[4][3] = "ok" =>
          Spoiled(Last(ends)) \/ \E s \in radioed : message[3][3] = Digit(s)
    /\ taken = "tun" => Spoiled(Last(ends)) \/ frames[Last(ends)].kind = "radio"

\* The address is asked for once. The bridge learns it, so that it may send, unless
\* the request or its answer is dropped for want of a packet, the answer or the frame
\* before it does not fit the ring, or the radio does not start.
MacLearned ==
    <>( \/ radio_mac # <<>> \/ "M" \in lost \/ boot = "failed"
        \/ \E f \in DOMAIN frames : frames[f].kind = "M" /\ (f \in cut \/ Spoiled(f)))
=============================================================================
