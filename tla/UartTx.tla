------------------------------- MODULE UartTx -------------------------------
(***************************************************************************)
(* The serial transmit path of apps/wpan_serial_uart/src/main.c:           *)
(*   tx_thread     takes packets from tx_queue, SLIP-encodes each into the *)
(*                 one static slip_buf and waits for it in try_write;      *)
(*   interrupt_handler (TX half) copies from slip_buf into the UART FIFO   *)
(*                 and gives tx_sem when the buffer is exhausted;          *)
(*   the kernel    ends the wait after 1000 ms.                            *)
(* The handler preempts the thread between any two of its accesses to the  *)
(* state they share (tx_data_ptr, tx_data_len, slip_buf, tx_sem, the TX    *)
(* interrupt enable bit), so each of those accesses is a step.             *)
(*                                                                         *)
(* A frame is its number in k_fifo_put order and its encoded length; the   *)
(* byte of frame f that slip_buffer writes at index i is <<f, i>>.         *)
(***************************************************************************)
EXTENDS Naturals, Sequences

CONSTANTS MaxFrames,    \* bound: frames ever queued
          Lens,         \* Lens[f]: SLIP-encoded length of frame f, END included
          BufSize,      \* sizeof(slip_buf)
          FifoDepth     \* most bytes one uart_fifo_fill takes

Frames == 1 .. MaxFrames

ASSUME UartTxAssumption ==
    /\ MaxFrames \in Nat /\ BufSize \in Nat \ {0} /\ FifoDepth \in Nat \ {0}
    /\ Lens \in [Frames -> 1 .. BufSize]

VARIABLES
    queued,         \* number of frames put into tx_queue so far
    tx_queue,
    pc,             \* where tx_thread is
    cur,            \* the frame tx_thread holds, 0 when it holds none
    enc,            \* bytes of cur already encoded
    slip_buf,       \* slip_buf[i] = f: cell i holds byte <<f, i>>; 0: never written
    tx_data_ptr,    \* index into slip_buf, 0 for NULL
    tx_data_len,
    tx_irq,         \* TX interrupt enabled
    tx_sem,         \* count of the binary semaphore
    wire,           \* history: bytes the UART took
    result,         \* history: what try_write answered for each frame
    lateGive        \* history: a completion was given with nobody waiting

shared == <<tx_data_ptr, tx_data_len, tx_irq, tx_sem>>
vars == <<queued, tx_queue, pc, cur, enc, slip_buf, tx_data_ptr, tx_data_len,
          tx_irq, tx_sem, wire, result, lateGive>>

Labels == {"get", "encode", "set_ptr", "set_len", "enable", "take", "pend",
           "ok", "expired", "clear"}

Init ==
    /\ queued = 0 /\ tx_queue = <<>>
    /\ pc = "get" /\ cur = 0 /\ enc = 0
    /\ slip_buf = [i \in 1 .. BufSize |-> 0]
    /\ tx_data_ptr = 0 /\ tx_data_len = 0 /\ tx_irq = FALSE /\ tx_sem = 0
    /\ wire = <<>>
    /\ result = [f \in Frames |-> "none"]
    /\ lateGive = FALSE

-----------------------------------------------------------------------------
(* Producers: send_data (rx_thread's replies) and net_recv_data (radio).   *)

Enqueue ==
    /\ queued < MaxFrames
    /\ queued' = queued + 1
    /\ tx_queue' = Append(tx_queue, queued')
    /\ UNCHANGED <<pc, cur, enc, slip_buf, shared, wire, result, lateGive>>

-----------------------------------------------------------------------------
(* tx_thread, one step per access to what it shares with the handler.      *)

FifoGet ==
    /\ pc = "get" /\ tx_queue # <<>>
    /\ cur' = Head(tx_queue)
    /\ tx_queue' = Tail(tx_queue)
    /\ enc' = 0
    /\ pc' = "encode"
    /\ UNCHANGED <<queued, slip_buf, shared, wire, result, lateGive>>

\* slip_buffer, one byte stored; the last one is SLIP_END.
EncodeByte ==
    /\ pc = "encode"
    /\ enc' = enc + 1
    /\ slip_buf' = [slip_buf EXCEPT ![enc'] = cur]
    /\ pc' = IF enc' = Lens[cur] THEN "set_ptr" ELSE "encode"
    /\ UNCHANGED <<queued, tx_queue, cur, shared, wire, result, lateGive>>

SetPtr ==
    /\ pc = "set_ptr"
    /\ tx_data_ptr' = 1
    /\ pc' = "set_len"
    /\ UNCHANGED <<queued, tx_queue, cur, enc, slip_buf, tx_data_len, tx_irq,
                   tx_sem, wire, result, lateGive>>

\* Seeded fault: one byte too many is announced.
SetLenPastEnd ==
    /\ pc = "set_len"
    /\ tx_data_len' = Lens[cur] + 1
    /\ pc' = "enable"
    /\ UNCHANGED <<queued, tx_queue, cur, enc, slip_buf, tx_data_ptr, tx_irq,
                   tx_sem, wire, result, lateGive>>

SetLen ==
    /\ pc = "set_len"
    /\ tx_data_len' = Lens[cur]
    /\ pc' = "enable"
    /\ UNCHANGED <<queued, tx_queue, cur, enc, slip_buf, tx_data_ptr, tx_irq,
                   tx_sem, wire, result, lateGive>>

IrqEnable ==
    /\ pc = "enable"
    /\ tx_irq' = TRUE
    /\ pc' = "take"
    /\ UNCHANGED <<queued, tx_queue, cur, enc, slip_buf, tx_data_ptr,
                   tx_data_len, tx_sem, wire, result, lateGive>>

\* k_sem_take: consume the token, or pend on the semaphore.
SemTake ==
    /\ pc = "take"
    /\ \/ tx_sem = 1 /\ tx_sem' = 0 /\ pc' = "ok"
       \/ tx_sem = 0 /\ tx_sem' = 0 /\ pc' = "pend"
    /\ UNCHANGED <<queued, tx_queue, cur, enc, slip_buf, tx_data_ptr,
                   tx_data_len, tx_irq, wire, result, lateGive>>

\* try_write returns to tx_thread, which releases the packet and loops.
Return(r) ==
    /\ result' = [result EXCEPT ![cur] = r]
    /\ cur' = 0
    /\ pc' = "get"

ReturnOk ==
    /\ pc = "ok"
    /\ Return("sent")
    /\ UNCHANGED <<queued, tx_queue, enc, slip_buf, shared, wire, lateGive>>

\* Seeded fault: the timeout path leaves the interrupt enabled.
TimeoutKeepsIrq ==
    /\ pc = "expired"
    /\ pc' = "clear"
    /\ UNCHANGED <<queued, tx_queue, cur, enc, slip_buf, shared, wire, result, lateGive>>

\* ret < 0: the interrupt is disabled first ...
TimeoutDisable ==
    /\ pc = "expired"
    /\ tx_irq' = FALSE
    /\ pc' = "clear"
    /\ UNCHANGED <<queued, tx_queue, cur, enc, slip_buf, tx_data_ptr,
                   tx_data_len, tx_sem, wire, result, lateGive>>

\* Seeded fault: the timeout path answers 0.
TimeoutAnswersOk ==
    /\ pc = "clear"
    /\ tx_data_ptr' = 0
    /\ tx_data_len' = 0
    /\ Return("sent")
    /\ UNCHANGED <<queued, tx_queue, enc, slip_buf, tx_irq, tx_sem, wire, lateGive>>

\* ... so the handler cannot run its TX half between these two stores.
TimeoutClear ==
    /\ pc = "clear"
    /\ tx_data_ptr' = 0
    /\ tx_data_len' = 0
    /\ Return("timeout")
    /\ UNCHANGED <<queued, tx_queue, enc, slip_buf, tx_irq, tx_sem, wire, lateGive>>

TxThread ==
    \/ FifoGet \/ EncodeByte \/ SetPtr \/ SetLen \/ IrqEnable \/ SemTake
    \/ ReturnOk \/ TimeoutDisable \/ TimeoutClear

-----------------------------------------------------------------------------
(* The kernel: the 1000 ms of the wait are over. The thread is made ready, *)
(* and runs TimeoutDisable at some later time.                             *)

\* Seeded fault: k_sem_take with K_FOREVER.
NoTimeout == FALSE /\ UNCHANGED vars

\* Seeded fault: the result of k_sem_take is not looked at.
TimeoutTakenForToken ==
    /\ pc = "pend"
    /\ pc' = "ok"
    /\ UNCHANGED <<queued, tx_queue, cur, enc, slip_buf, shared, wire, result, lateGive>>

Timeout ==
    /\ pc = "pend"
    /\ pc' = "expired"
    /\ UNCHANGED <<queued, tx_queue, cur, enc, slip_buf, shared, wire, result, lateGive>>

\* Seeded fault: a semaphore without the limit 1.
SemGiveUnlimited ==
    IF pc = "pend"
    THEN pc' = "ok" /\ UNCHANGED <<tx_sem, lateGive>>
    ELSE /\ tx_sem' = tx_sem + 1
         /\ lateGive' = (lateGive \/ pc # "take")
         /\ UNCHANGED pc

\* k_sem_give by the handler: a waiter is made ready and takes the token with
\* it; without one the count becomes 1 (the limit).
SemGive ==
    IF pc = "pend"
    THEN pc' = "ok" /\ UNCHANGED <<tx_sem, lateGive>>
    ELSE /\ tx_sem' = 1
         /\ lateGive' = (lateGive \/ pc # "take")
         /\ UNCHANGED pc

-----------------------------------------------------------------------------
(* interrupt_handler, TX half; runs only while the interrupt is enabled.   *)

\* The frame that wrote cell i; a cell outside slip_buf is nobody's.
CellAt(i) == IF i \in 1 .. BufSize THEN slip_buf[i] ELSE 0

\* Seeded fault: the pointer is not advanced past what was taken.
IrqFillNoAdvance(n) ==
    /\ tx_irq /\ tx_data_ptr # 0 /\ n \in 1 .. tx_data_len
    /\ wire' = wire \o [i \in 1 .. n |->
                          <<CellAt(tx_data_ptr + i - 1), tx_data_ptr + i - 1>>]
    /\ tx_data_len' = tx_data_len - n
    /\ IF n = tx_data_len
       THEN tx_data_ptr' = 0 /\ tx_irq' = FALSE /\ SemGive
       ELSE UNCHANGED <<tx_data_ptr, tx_irq, tx_sem, pc, lateGive>>
    /\ UNCHANGED <<queued, tx_queue, cur, enc, slip_buf, result>>

\* One uart_fifo_fill that takes n > 0 bytes (taking none changes nothing).
IrqFill(n) ==
    /\ tx_irq /\ tx_data_ptr # 0 /\ n \in 1 .. tx_data_len
    /\ wire' = wire \o [i \in 1 .. n |->
                          <<CellAt(tx_data_ptr + i - 1), tx_data_ptr + i - 1>>]
    /\ tx_data_len' = tx_data_len - n
    /\ IF n = tx_data_len
       THEN tx_data_ptr' = 0 /\ tx_irq' = FALSE /\ SemGive
       ELSE /\ tx_data_ptr' = tx_data_ptr + n
            /\ UNCHANGED <<tx_irq, tx_sem, pc, lateGive>>
    /\ UNCHANGED <<queued, tx_queue, cur, enc, slip_buf, result>>

\* Nothing to send: the interrupt is switched off.
IrqIdle ==
    /\ tx_irq /\ (tx_data_ptr = 0 \/ tx_data_len = 0)
    /\ tx_irq' = FALSE
    /\ UNCHANGED <<queued, tx_queue, pc, cur, enc, slip_buf, tx_data_ptr,
                   tx_data_len, tx_sem, wire, result, lateGive>>

-----------------------------------------------------------------------------
Next ==
    \/ Enqueue
    \/ TxThread
    \/ Timeout
    \/ \E n \in 1 .. FifoDepth : IrqFill(n)
    \/ IrqIdle

(* The scheduler runs a ready tx_thread and the kernel timer expires. The  *)
(* UART owes nothing: its peer may hold it off for ever.                   *)
Spec == Init /\ [][Next]_vars /\ WF_vars(TxThread) /\ WF_vars(Timeout)
-----------------------------------------------------------------------------
(* Properties. Until a completion is given to nobody, the path is sound;   *)
(* lateGive marks the one race that ends this.                             *)

ThreadTyped ==
    /\ queued \in 0 .. MaxFrames
    /\ tx_queue \in Seq(Frames)
    /\ pc \in Labels
    /\ cur \in 0 .. MaxFrames
    /\ (cur = 0) <=> (pc = "get")
    /\ enc \in 0 .. BufSize

LinkTyped ==
    /\ slip_buf \in [1 .. BufSize -> 0 .. MaxFrames]
    /\ tx_data_ptr \in Nat
    /\ tx_data_len \in 0 .. BufSize
    /\ tx_irq \in BOOLEAN
    /\ tx_sem \in {0, 1}

HistoryTyped ==
    /\ wire \in Seq((0 .. MaxFrames) \X Nat)
    /\ result \in [Frames -> {"none", "sent", "timeout"}]
    /\ lateGive \in BOOLEAN

TypeOK == ThreadTyped /\ LinkTyped /\ HistoryTyped

\* slip_buf is static and refilled for each packet: no byte of it is stored
\* while the handler may still be reading the frame it holds.
NoReuseWhileSending ==
    [][slip_buf' # slip_buf => ~tx_irq \/ lateGive]_vars

\* The handler reads only inside slip_buf, although pointer and length are
\* stored separately by the thread and advanced by the handler.
ReadsInBounds ==
    tx_irq /\ ~lateGive => tx_data_ptr + tx_data_len <= BufSize + 1

\* On the line, after byte i of a frame comes its byte i + 1 or the first
\* byte of a later frame: no byte is repeated, skipped or from another frame.
InOrderOnWire ==
    ~lateGive =>
        \A k \in 1 .. Len(wire) - 1 :
            LET b == wire[k]  c == wire[k + 1] IN
            \/ c = <<b[1], b[2] + 1>>
            \/ c[1] > b[1] /\ c[2] = 1

OnWire(f, i) == \E k \in 1 .. Len(wire) : wire[k] = <<f, i>>

\* try_write answers 0 only for a frame that is completely on the line.
SentIsComplete ==
    \A f \in Frames : result[f] = "sent" => \A i \in 1 .. Lens[f] : OnWire(f, i)

SentIsCompleteUntilLateGive == ~lateGive => SentIsComplete

\* Whatever the UART does, tx_thread finishes with every packet queued (and
\* gives it back to the pool): the timed wait cannot hold it for ever.
EveryFrameAnswered ==
    \A f \in Frames : queued >= f ~> result[f] # "none"

\* Bytes of cur that are out: tx_data_len counts down once SetLen stored it.
Sent == IF pc \in {"get", "encode", "set_ptr", "set_len"}
        THEN 0 ELSE Lens[cur] - tx_data_len

\* The path implements the abstract line.
Line == INSTANCE SerialLine WITH
    waiting <- tx_queue, frame <- cur, out <- Sent, synced <- ~lateGive

ImplementsLine == Line!Spec

-----------------------------------------------------------------------------
(* The inductive invariant behind these properties. Each label of          *)
(* tx_thread fixes who owns the transfer: the thread (interrupt off) or    *)
(* the handler (Sending), and the wire ends with what is out of cur.       *)

Sending ==
    /\ tx_irq /\ tx_sem = 0
    /\ tx_data_len \in 1 .. Lens[cur]
    /\ tx_data_ptr + tx_data_len = Lens[cur] + 1

Idle == ~tx_irq /\ tx_data_ptr = 0 /\ tx_data_len = 0

Ownership ==
    /\ pc \in {"get", "encode", "set_ptr", "ok"} => Idle /\ tx_sem = 0
    /\ pc \in {"set_len", "enable"} =>
          /\ ~tx_irq /\ tx_data_ptr = 1 /\ tx_sem = 0
          /\ tx_data_len = IF pc = "enable" THEN Lens[cur] ELSE 0
    /\ pc = "take" => Sending \/ (Idle /\ tx_sem = 1)
    /\ pc \in {"pend", "expired"} => Sending
    /\ pc = "clear" => ~tx_irq /\ tx_sem = 0

\* slip_buf holds what is encoded of cur.
Encoded ==
    /\ pc = "encode" =>
          enc < Lens[cur] /\ \A i \in 1 .. enc : slip_buf[i] = cur
    /\ pc \notin {"get", "encode"} => \A i \in 1 .. Lens[cur] : slip_buf[i] = cur

\* Frames tx_thread has taken: tx_queue holds the others, in order.
Taken == queued - Len(tx_queue)

QueueOrder ==
    /\ Len(tx_queue) <= queued
    /\ \A i \in 1 .. Len(tx_queue) : tx_queue[i] = Taken + i
    /\ pc # "get" => cur = Taken
    /\ \A f \in Frames : f > Taken \/ f = cur => result[f] = "none"

\* Only frames taken so far are on the wire; of cur, exactly its first bytes.
WireOrder ==
    /\ \A k \in 1 .. Len(wire) :
          /\ wire[k][1] \in 1 .. Taken
          /\ wire[k][1] = cur => wire[k][2] \in 1 .. Sent
    /\ Sent > 0 => Len(wire) > 0 /\ wire[Len(wire)] = <<cur, Sent>>
    /\ \A i \in 1 .. Sent : OnWire(cur, i)

IInv ==
    /\ TypeOK
    /\ Encoded
    /\ QueueOrder
    /\ ~lateGive =>
          Ownership /\ WireOrder /\ InOrderOnWire /\ SentIsComplete
=============================================================================
