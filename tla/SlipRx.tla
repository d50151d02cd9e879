------------------------------- MODULE SlipRx -------------------------------
(***************************************************************************)
(* The serial receive path of apps/wpan_serial_uart (apps/wpan_serial has  *)
(* the same code): interrupt_handler reads the UART byte by byte, and      *)
(* slip_process_byte assembles packets in pkt_curr, which are queued for   *)
(* rx_thread at SLIP_END. Packets come from the RX pool that the radio     *)
(* driver uses too.                                                        *)
(*                                                                         *)
(* The host encodes each payload (py/wpan-bridge.py, encode_slip) and the  *)
(* line may lose bytes. A stored byte <<v, f, i>> is the value v that the  *)
(* decoder took for byte i of the host's frame f.                          *)
(***************************************************************************)
EXTENDS Naturals, FiniteSets, SequencesExt

CONSTANTS Payloads,     \* what the host may send: sequences of byte values
          MaxFrames,    \* bound: frames the host sends
          MaxLost,      \* bound: bytes the line loses
          PoolSize,     \* CONFIG_NET_PKT_RX_COUNT
          Capacity,     \* tailroom of the last fragment of a new packet
          NULL

Bytes == {"END", "ESC", "ESC_END", "ESC_ESC", "data"}

ASSUME SlipRxAssumption ==
    /\ Payloads \subseteq Seq(Bytes) \ {<<>>}
    /\ MaxFrames \in Nat /\ MaxLost \in Nat
    /\ PoolSize \in Nat \ {0} /\ Capacity \in Nat \ {0}
    /\ NULL \notin Seq(Bytes \X Nat \X Nat)

VARIABLES
    sent,           \* history: payloads the host has begun to send
    pos,            \* next byte of the last payload; Len + 1: its SLIP_END
    escaped,        \* SLIP_ESC is out, its second byte is not
    idle,           \* the host is between frames
    lost,           \* bytes lost so far
    slip_state,
    pkt_curr,       \* packet being assembled, or NULL
    free,           \* packets left in the RX pool
    radio,          \* packets the radio path holds
    rx_queue,
    held,           \* packet rx_thread works on, or NULL
    delivered,      \* history: packets put into rx_queue
    damaged         \* history: frames that lost a byte on the line or in the pool

host == <<sent, pos, escaped, idle>>
vars == <<sent, pos, escaped, idle, lost, slip_state, pkt_curr, free, radio,
          rx_queue, held, delivered, damaged>>

Init ==
    /\ sent = <<>> /\ pos = 1 /\ escaped = FALSE /\ idle = TRUE
    /\ lost = 0
    /\ slip_state = "OK" /\ pkt_curr = NULL
    /\ free = PoolSize /\ radio = 0
    /\ rx_queue = <<>> /\ held = NULL
    /\ delivered = <<>> /\ damaged = {}

-----------------------------------------------------------------------------
(* The host: encode_slip, one byte of the encoding at a time.              *)

Frame == Len(sent)
Payload == sent[Frame]

HostStart ==
    /\ idle /\ Frame < MaxFrames
    /\ \E p \in Payloads : sent' = Append(sent, p)
    /\ pos' = 1 /\ escaped' = FALSE /\ idle' = FALSE
    /\ UNCHANGED <<lost, slip_state, pkt_curr, free, radio, rx_queue, held,
                   delivered, damaged>>

MustEscape(c) == c \in {"END", "ESC"}

\* The byte the host puts on the line next.
LineByte ==
    CASE pos > Len(Payload)              -> "END"
      [] pos <= Len(Payload) /\ escaped  ->
            IF Payload[pos] = "END" THEN "ESC_END" ELSE "ESC_ESC"
      [] OTHER -> IF MustEscape(Payload[pos]) THEN "ESC" ELSE Payload[pos]

HostAdvance ==
    /\ ~idle
    /\ idle' = (pos > Len(Payload))
    /\ escaped' = (pos <= Len(Payload) /\ ~escaped /\ MustEscape(Payload[pos]))
    /\ pos' = IF escaped' \/ idle' THEN pos ELSE pos + 1
    /\ UNCHANGED sent

-----------------------------------------------------------------------------
(* slip_process_byte and the RX half of interrupt_handler, one byte c. The *)
(* interrupt is not preempted by threads, so a byte is one step.           *)

\* Seeded fault: SLIP_END does not end the garbage.
DiscardForever(c) ==
    /\ slip_state = "GARBAGE"
    /\ slip_state' = "GARBAGE"
    /\ UNCHANGED <<pkt_curr, free, rx_queue, delivered, damaged>>

\* STATE_GARBAGE: discard up to and including SLIP_END.
Discard(c) ==
    /\ slip_state = "GARBAGE"
    /\ slip_state' = IF c = "END" THEN "OK" ELSE "GARBAGE"
    /\ UNCHANGED <<pkt_curr, free, rx_queue, delivered, damaged>>

\* STATE_ESC: neither SLIP_ESC_END nor SLIP_ESC_ESC; pkt_curr is kept.
BadEscape(c) ==
    /\ slip_state = "ESC" /\ c \notin {"ESC_END", "ESC_ESC"}
    /\ slip_state' = "GARBAGE"
    /\ UNCHANGED <<pkt_curr, free, rx_queue, delivered, damaged>>

BeginEscape(c) ==
    /\ slip_state = "OK" /\ c = "ESC"
    /\ slip_state' = "ESC"
    /\ UNCHANGED <<pkt_curr, free, rx_queue, delivered, damaged>>

\* Seeded fault: pkt_curr still points to the packet just queued.
EndKeepsPacket(c) ==
    /\ slip_state = "OK" /\ c = "END"
    /\ IF pkt_curr = NULL
       THEN UNCHANGED <<rx_queue, delivered>>
       ELSE /\ rx_queue' = Append(rx_queue, pkt_curr)
            /\ delivered' = Append(delivered, pkt_curr)
    /\ UNCHANGED <<slip_state, pkt_curr, free, damaged>>

\* SLIP_END: queue the packet, or "Skip SLIP_END" when there is none.
EndOfPacket(c) ==
    /\ slip_state = "OK" /\ c = "END"
    /\ IF pkt_curr = NULL
       THEN UNCHANGED <<pkt_curr, rx_queue, delivered>>
       ELSE /\ rx_queue' = Append(rx_queue, pkt_curr)
            /\ delivered' = Append(delivered, pkt_curr)
            /\ pkt_curr' = NULL
    /\ UNCHANGED <<slip_state, free, damaged>>

\* net_pkt_rx_alloc_with_buffer failed: this byte is dropped, not the frame.
NoBuffer ==
    /\ pkt_curr = NULL /\ free = 0
    /\ damaged' = damaged \cup {Frame}
    /\ UNCHANGED <<pkt_curr, free>>

\* Seeded fault: the packet is forgotten without net_pkt_unref.
NoSpaceLeaks ==
    /\ pkt_curr # NULL /\ Len(pkt_curr) = Capacity
    /\ pkt_curr' = NULL
    /\ damaged' = damaged \cup {Frame}
    /\ UNCHANGED free

\* No tailroom: packet and byte are dropped, the rest of the frame is not.
NoSpace ==
    /\ pkt_curr # NULL /\ Len(pkt_curr) = Capacity
    /\ pkt_curr' = NULL
    /\ free' = free + 1
    /\ damaged' = damaged \cup {Frame}

\* Seeded fault: one byte is stored past the tailroom.
AddBytePastEnd(v) ==
    /\ IF pkt_curr = NULL
       THEN /\ free > 0
            /\ free' = free - 1
            /\ pkt_curr' = << <<v, Frame, pos>> >>
       ELSE /\ Len(pkt_curr) <= Capacity
            /\ pkt_curr' = Append(pkt_curr, <<v, Frame, pos>>)
            /\ UNCHANGED free
    /\ UNCHANGED damaged

AddByte(v) ==
    /\ IF pkt_curr = NULL
       THEN /\ free > 0
            /\ free' = free - 1
            /\ pkt_curr' = << <<v, Frame, pos>> >>
       ELSE /\ Len(pkt_curr) < Capacity
            /\ pkt_curr' = Append(pkt_curr, <<v, Frame, pos>>)
            /\ UNCHANGED free
    /\ UNCHANGED damaged

\* Seeded fault: the two escapes are decoded the wrong way round.
StoreSwapped(c) ==
    \E v \in Bytes :
        /\ \/ slip_state = "OK" /\ c \notin {"END", "ESC"} /\ v = c
           \/ slip_state = "ESC" /\ c = "ESC_ESC" /\ v = "END"
           \/ slip_state = "ESC" /\ c = "ESC_END" /\ v = "ESC"
        /\ slip_state' = "OK"
        /\ NoBuffer \/ NoSpace \/ AddByte(v)
        /\ UNCHANGED <<rx_queue, delivered>>

Store(c) ==
    \E v \in Bytes :
        /\ \/ slip_state = "OK" /\ c \notin {"END", "ESC"} /\ v = c
           \/ slip_state = "ESC" /\ c = "ESC_END" /\ v = "END"
           \/ slip_state = "ESC" /\ c = "ESC_ESC" /\ v = "ESC"
        /\ slip_state' = "OK"
        /\ NoBuffer \/ NoSpace \/ AddByte(v)
        /\ UNCHANGED <<rx_queue, delivered>>

Receive ==
    /\ HostAdvance
    /\ \/ Discard(LineByte)
       \/ BadEscape(LineByte)
       \/ BeginEscape(LineByte)
       \/ EndOfPacket(LineByte)
       \/ Store(LineByte)
    /\ UNCHANGED <<lost, radio, held>>

\* A byte of the line does not reach uart_fifo_read.
LoseByte ==
    /\ lost < MaxLost
    /\ HostAdvance
    /\ lost' = lost + 1
    /\ damaged' = damaged \cup {Frame}
    /\ UNCHANGED <<slip_state, pkt_curr, free, radio, rx_queue, held, delivered>>

-----------------------------------------------------------------------------
(* rx_thread, and the radio path that shares the pool: the driver takes a  *)
(* packet for a received frame, tx_thread gives it back.                   *)

RxGet ==
    /\ held = NULL /\ rx_queue # <<>>
    /\ held' = Head(rx_queue)
    /\ rx_queue' = Tail(rx_queue)
    /\ UNCHANGED <<host, lost, slip_state, pkt_curr, free, radio, delivered, damaged>>

\* Seeded fault: rx_thread keeps the packet.
RxKeeps ==
    /\ held # NULL
    /\ held' = NULL
    /\ UNCHANGED <<host, lost, slip_state, pkt_curr, free, radio, rx_queue,
                   delivered, damaged>>

RxUnref ==
    /\ held # NULL
    /\ held' = NULL
    /\ free' = free + 1
    /\ UNCHANGED <<host, lost, slip_state, pkt_curr, radio, rx_queue, delivered, damaged>>

RadioAlloc ==
    /\ free > 0
    /\ free' = free - 1 /\ radio' = radio + 1
    /\ UNCHANGED <<host, lost, slip_state, pkt_curr, rx_queue, held, delivered, damaged>>

RadioUnref ==
    /\ radio > 0
    /\ free' = free + 1 /\ radio' = radio - 1
    /\ UNCHANGED <<host, lost, slip_state, pkt_curr, rx_queue, held, delivered, damaged>>

Next == HostStart \/ Receive \/ LoseByte \/ RxGet \/ RxUnref \/ RadioAlloc \/ RadioUnref

(* rx_thread and tx_thread run and finish; nothing obliges the host.       *)
Spec == Init /\ [][Next]_vars /\ WF_vars(RxGet) /\ WF_vars(RxUnref) /\ WF_vars(RadioUnref)

-----------------------------------------------------------------------------
(* Properties.                                                             *)

Packets == Seq(Bytes \X (1 .. MaxFrames) \X Nat)

Held == {held, pkt_curr} \ {NULL}

\* No packet is empty, and nothing is stored past its tailroom.
TypeOK ==
    /\ sent \in Seq(Payloads) /\ Len(sent) <= MaxFrames
    /\ pos \in Nat \ {0}
    /\ escaped \in BOOLEAN /\ idle \in BOOLEAN
    /\ lost \in 0 .. MaxLost
    /\ slip_state \in {"GARBAGE", "OK", "ESC"}
    /\ free \in 0 .. PoolSize /\ radio \in 0 .. PoolSize
    /\ \A p \in Held \cup Range(rx_queue) \cup Range(delivered) :
          p \in Packets /\ Len(p) \in 1 .. Capacity
    /\ damaged \subseteq 1 .. MaxFrames

\* Each packet of the pool is free or in exactly one place: a path that drops
\* or forwards one neither leaks nor frees it twice.
One(b) == IF b THEN 1 ELSE 0

PoolConserved ==
    free + radio + One(pkt_curr # NULL) + Len(rx_queue) + One(held # NULL) = PoolSize

\* Bytes reach rx_thread in the order sent, none of them twice, whatever the
\* line loses and wherever packets are dropped.
Later(b, c) == b[2] < c[2] \/ (b[2] = c[2] /\ b[3] < c[3])

Increasing(p) == \A i \in 1 .. Len(p) - 1 : Later(p[i], p[i + 1])

OrderKept ==
    /\ \A k \in 1 .. Len(delivered) : Increasing(delivered[k])
    /\ \A k \in 1 .. Len(delivered) - 1 :
          Later(delivered[k][Len(delivered[k])], delivered[k + 1][1])
    /\ pkt_curr # NULL =>
          /\ Increasing(pkt_curr)
          /\ delivered # <<>> =>
                LET p == delivered[Len(delivered)] IN Later(p[Len(p)], pkt_curr[1])

\* p is the end, from byte i on, of what the host sent as frame f.
IsTail(p, f, i) ==
    p = [j \in 1 .. Len(sent[f]) - i + 1 |-> <<sent[f][i + j - 1], f, i + j - 1>>]

\* On a line that loses nothing, starvation of the pool and oversized frames
\* cut the beginning of a frame but never mix two frames or alter a byte.
TailsOnly ==
    lost = 0 =>
        \A k \in 1 .. Len(delivered) :
            LET f == delivered[k][1][2]  i == delivered[k][1][3]
            IN IsTail(delivered[k], f, i)

\* A lost byte spoils at most the frame it belongs to and the two after it:
\* behind two undamaged frames an undamaged one is delivered whole.
Complete(f) == f < Frame \/ (f = Frame /\ idle)

DamageBounded ==
    \A f \in 1 .. Frame :
        Complete(f) /\ {f - 2, f - 1, f} \cap damaged = {} =>
            \E k \in 1 .. Len(delivered) : IsTail(delivered[k], f, 1)

\* rx_thread gives back every packet it is handed, so an exhausted pool is
\* replenished.
StarvationEnds == free = 0 ~> free > 0
=============================================================================
