---------------------------- MODULE UartTxProofs ----------------------------
(***************************************************************************)
(* Proofs about UartTx, for any number of frames, of any encoded lengths   *)
(* that fit slip_buf, and any depth of the UART's FIFO.                    *)
(***************************************************************************)
EXTENDS UartTx, SequenceTheorems, TLAPS

LEMMA ConstantFacts ==
    /\ MaxFrames \in Nat /\ BufSize \in Nat \ {0} /\ FifoDepth \in Nat \ {0}
    /\ Lens \in [Frames -> 1 .. BufSize]
BY UartTxAssumption

\* A function on 1 .. n is a sequence of length n.
LEMMA FunctionIsSeq ==
    ASSUME NEW S, NEW n \in Nat, NEW f \in [1 .. n -> S]
    PROVE  f \in Seq(S) /\ Len(f) = n
OBVIOUS

-----------------------------------------------------------------------------
(* Types, with what EncodeByte needs to stay inside slip_buf.              *)

LEMMA InitTyped == Init => TypeOK /\ Encoded
<1> SUFFICES ASSUME Init PROVE TypeOK /\ Encoded
  OBVIOUS
<1>1. ThreadTyped
  BY ConstantFacts, EmptySeq DEF Init, ThreadTyped, Labels
<1>2. LinkTyped
  <2>1. tx_irq \in BOOLEAN /\ tx_sem \in {0, 1}
    BY Zenon DEF Init
  <2>2. tx_data_ptr \in Nat /\ tx_data_len \in 0 .. BufSize
    BY ConstantFacts DEF Init
  <2>3. slip_buf \in [1 .. BufSize -> 0 .. MaxFrames]
    BY ConstantFacts DEF Init
  <2>4. QED BY <2>1, <2>2, <2>3 DEF LinkTyped
<1>3. HistoryTyped
  BY EmptySeq DEF Init, HistoryTyped
<1>4. Encoded
  BY DEF Init, Encoded
<1>5. QED BY <1>1, <1>2, <1>3, <1>4 DEF TypeOK

LEMMA NextTyped ==
    ASSUME TypeOK, Encoded, [Next]_vars
    PROVE  TypeOK'
<1> USE ConstantFacts DEF TypeOK, ThreadTyped, LinkTyped, HistoryTyped, Frames, Labels, shared
<1>1. CASE Enqueue
  BY <1>1 DEF Enqueue
<1>2. CASE FifoGet
  <2>1. cur' \in Frames /\ tx_queue' \in Seq(Frames)
    <3>1. Head(tx_queue) \in Frames /\ Tail(tx_queue) \in Seq(Frames)
      BY <1>2, HeadTailProperties DEF FifoGet
    <3>2. cur' = Head(tx_queue) /\ tx_queue' = Tail(tx_queue)
      BY <1>2, Zenon DEF FifoGet
    <3> HIDE DEF TypeOK, ThreadTyped, LinkTyped, HistoryTyped, Frames
    <3>3. QED BY <3>1, <3>2
  <2>2. ThreadTyped'
    <3>1. /\ queued' = queued /\ pc' = "encode" /\ enc' = 0
      BY <1>2, Zenon DEF FifoGet
    <3>2. /\ cur' \in 0 .. MaxFrames /\ cur' # 0 /\ enc' \in 0 .. BufSize
          /\ queued' \in 0 .. MaxFrames
      BY <2>1, <3>1
    <3> HIDE DEF Frames
    <3>3. QED BY <2>1, <3>1, <3>2
  <2>3. LinkTyped'
    BY <1>2, Zenon DEF FifoGet
  <2>4. HistoryTyped'
    BY <1>2, Zenon DEF FifoGet
  <2>5. QED BY <2>2, <2>3, <2>4
<1>3. CASE EncodeByte
  <2>1. cur \in Frames /\ enc < Lens[cur] /\ Lens[cur] \in 1 .. BufSize
    BY <1>3 DEF EncodeByte, Encoded
  <2>2. enc' \in 1 .. BufSize
    BY <1>3, <2>1 DEF EncodeByte
  <2>3. QED BY <1>3, <2>1, <2>2, SMTT(30) DEF EncodeByte
<1>4. CASE SetPtr
  BY <1>4 DEF SetPtr
<1>5. CASE SetLen
  <2>1. Lens[cur] \in 0 .. BufSize
    BY <1>5 DEF SetLen
  <2>2. QED BY <1>5, <2>1 DEF SetLen
<1>6. CASE IrqEnable
  BY <1>6 DEF IrqEnable
<1>7. CASE SemTake
  BY <1>7 DEF SemTake
<1>8. CASE ReturnOk
  BY <1>8 DEF ReturnOk, Return
<1>9. CASE TimeoutDisable
  BY <1>9 DEF TimeoutDisable
<1>10. CASE TimeoutClear
  BY <1>10 DEF TimeoutClear, Return
<1>11. CASE Timeout
  BY <1>11 DEF Timeout
<1>12. ASSUME NEW n \in 1 .. FifoDepth, IrqFill(n)
       PROVE  TypeOK'
  <2> DEFINE chunk == [i \in 1 .. n |->
                         <<CellAt(tx_data_ptr + i - 1), tx_data_ptr + i - 1>>]
  <2>1. n \in Nat /\ n <= tx_data_len
    BY <1>12 DEF IrqFill
  <2>2. ASSUME NEW i \in 1 .. n
        PROVE  chunk[i] \in (0 .. MaxFrames) \X Nat
    <3>1. tx_data_ptr + i - 1 \in Nat
      BY <2>1
    <3>2. CellAt(tx_data_ptr + i - 1) \in 0 .. MaxFrames
      BY <3>1 DEF CellAt
    <3>3. QED BY <3>1, <3>2
  <2>3. chunk \in Seq((0 .. MaxFrames) \X Nat)
    <3> HIDE DEF chunk
    <3>1. chunk \in [1 .. n -> (0 .. MaxFrames) \X Nat]
      BY <2>2 DEF chunk
    <3>2. QED BY <2>1, <3>1, FunctionIsSeq
  <2>4. HistoryTyped'
    <3>1. wire' = wire \o chunk
      BY <1>12 DEF IrqFill
    <3>2. wire' \in Seq((0 .. MaxFrames) \X Nat)
      BY <2>3, <3>1, ConcatProperties
    <3>3. lateGive' \in BOOLEAN /\ result' = result
      BY <1>12 DEF IrqFill, SemGive
    <3>4. QED BY <3>2, <3>3
  <2>5. tx_data_len' \in 0 .. BufSize /\ tx_data_ptr' \in Nat
    <3>1. /\ tx_data_len' = tx_data_len - n
          /\ tx_data_ptr' = 0 \/ tx_data_ptr' = tx_data_ptr + n
      BY <1>12, Zenon DEF IrqFill
    <3>2. QED BY <2>1, <3>1
  <2>6. tx_irq' \in BOOLEAN /\ tx_sem' \in {0, 1} /\ slip_buf' = slip_buf
    BY <1>12 DEF IrqFill, SemGive
  <2>7. pc' = pc \/ (pc = "pend" /\ pc' = "ok")
    BY <1>12 DEF IrqFill, SemGive
  <2>8. ThreadTyped'
    BY <1>12, <2>7 DEF IrqFill
  <2>9. QED BY <2>4, <2>5, <2>6, <2>8
<1>13. CASE IrqIdle
  BY <1>13 DEF IrqIdle
<1>14. CASE UNCHANGED vars
  BY <1>14 DEF vars
<1>15. QED
  BY <1>1, <1>2, <1>3, <1>4, <1>5, <1>6, <1>7, <1>8, <1>9, <1>10, <1>11, <1>12,
     <1>13, <1>14 DEF Next, TxThread

LEMMA NextEncoded ==
    ASSUME TypeOK, Encoded, [Next]_vars
    PROVE  Encoded'
<1> USE ConstantFacts DEF TypeOK, ThreadTyped, LinkTyped, HistoryTyped,
                          Encoded, Frames, Labels, shared
<1>1. CASE Enqueue
  BY <1>1 DEF Enqueue
<1>2. CASE FifoGet
  <2>1. Head(tx_queue) \in Frames
    BY <1>2, HeadTailProperties DEF FifoGet
  <2>2. QED BY <1>2, <2>1, SMTT(30) DEF FifoGet
<1>3. CASE EncodeByte
  <2>1. cur \in Frames /\ enc < Lens[cur] /\ Lens[cur] \in 1 .. BufSize
    BY <1>3 DEF EncodeByte
  <2>2. \A i \in 1 .. enc' : slip_buf'[i] = cur
    BY <1>3, <2>1, SMTT(30) DEF EncodeByte
  <2>3. QED BY <1>3, <2>1, <2>2, SMTT(30) DEF EncodeByte
<1>4. CASE SetPtr
  BY <1>4 DEF SetPtr
<1>5. CASE SetLen
  BY <1>5 DEF SetLen
<1>6. CASE IrqEnable
  BY <1>6 DEF IrqEnable
<1>7. CASE SemTake
  BY <1>7 DEF SemTake
<1>8. CASE ReturnOk
  BY <1>8 DEF ReturnOk, Return
<1>9. CASE TimeoutDisable
  BY <1>9 DEF TimeoutDisable
<1>10. CASE TimeoutClear
  BY <1>10 DEF TimeoutClear, Return
<1>11. CASE Timeout
  BY <1>11 DEF Timeout
<1>12. ASSUME NEW n \in 1 .. FifoDepth, IrqFill(n)
       PROVE  Encoded'
  BY <1>12 DEF IrqFill, SemGive
<1>13. CASE IrqIdle
  BY <1>13 DEF IrqIdle
<1>14. CASE UNCHANGED vars
  BY <1>14 DEF vars
<1>15. QED
  BY <1>1, <1>2, <1>3, <1>4, <1>5, <1>6, <1>7, <1>8, <1>9, <1>10, <1>11, <1>12,
     <1>13, <1>14 DEF Next, TxThread

\* Types and encoding hold together: what is in slip_buf is the beginning of the frame's
\* encoding, as far as slip_buffer says.
THEOREM EncodingHolds == Spec => [](TypeOK /\ Encoded)
<1>1. TypeOK /\ Encoded /\ [Next]_vars => TypeOK' /\ Encoded'
  BY NextTyped, NextEncoded
<1>2. QED BY InitTyped, <1>1, PTL DEF Spec

\* Every value stays in its range, slip_buffer stays inside slip_buf, and
\* tx_thread holds a frame exactly when it is not waiting on tx_queue.
THEOREM TypeCorrect == Spec => []TypeOK
BY EncodingHolds, PTL

-----------------------------------------------------------------------------
(* tx_queue hands the frames over in the order they were numbered.         *)

LEMMA NextQueueOrder ==
    ASSUME TypeOK, QueueOrder, [Next]_vars
    PROVE  QueueOrder'
<1> USE ConstantFacts DEF TypeOK, ThreadTyped, HistoryTyped, QueueOrder, Taken,
                          Frames, Labels, shared
<1>1. CASE Enqueue
  <2>1. /\ tx_queue' \in Seq(Frames)
        /\ Len(tx_queue') = Len(tx_queue) + 1
        /\ \A i \in 1 .. Len(tx_queue) : tx_queue'[i] = tx_queue[i]
        /\ tx_queue'[Len(tx_queue) + 1] = queued + 1
    BY <1>1, AppendProperties DEF Enqueue
  <2>2. queued' = queued + 1 /\ pc' = pc /\ cur' = cur /\ result' = result
    BY <1>1 DEF Enqueue
  <2>3. Len(tx_queue) \in Nat /\ Taken' = Taken /\ Taken \in Nat
    BY <2>1, <2>2, LenProperties
  <2>4. \A i \in 1 .. Len(tx_queue') : tx_queue'[i] = Taken' + i
    <3>1. TAKE i \in 1 .. Len(tx_queue')
    <3>2. CASE i \in 1 .. Len(tx_queue)
      BY <2>1, <2>3, <3>2
    <3>3. CASE i = Len(tx_queue) + 1
      BY <2>1, <2>3, <3>3
    <3>4. QED BY <2>1, <2>3, <3>2, <3>3
  <2>5. Len(tx_queue') <= queued'
    BY <2>1, <2>2, <2>3
  <2> HIDE DEF TypeOK, Taken
  <2>8. pc' # "get" => cur' = Taken'
    BY <2>2, <2>3
  <2>6. \A f \in Frames : f > Taken' \/ f = cur' => result'[f] = "none"
    BY <2>2, <2>3, Zenon
  <2>7. QED BY <2>4, <2>5, <2>6, <2>8, Zenon
<1>2. CASE FifoGet
  <2>1. /\ Len(tx_queue') = Len(tx_queue) - 1
        /\ \A i \in 1 .. Len(tx_queue') : tx_queue'[i] = tx_queue[i + 1]
        /\ cur' = tx_queue[1]
        /\ Len(tx_queue) \in Nat \ {0}
    BY <1>2, HeadTailProperties, EmptySeq DEF FifoGet
  <2>2. queued' = queued /\ result' = result /\ Len(tx_queue) <= queued
    BY <1>2 DEF FifoGet
  <2>3. Taken \in Nat /\ Taken' = Taken + 1 /\ cur' = Taken'
    BY <2>1, <2>2
  <2>4. \A i \in 1 .. Len(tx_queue') : tx_queue'[i] = Taken' + i
    <3>1. TAKE i \in 1 .. Len(tx_queue')
    <3>2. tx_queue'[i] = tx_queue[i + 1] /\ i + 1 \in 1 .. Len(tx_queue)
      BY <2>1
    <3>3. tx_queue[i + 1] = Taken + (i + 1)
      BY <3>2
    <3>4. QED BY <2>3, <3>2, <3>3
  <2>5. Len(tx_queue') <= queued'
    BY <2>1, <2>2
  <2> HIDE DEF TypeOK, Taken
  <2>6. \A f \in Frames : f > Taken' \/ f = cur' => result'[f] = "none"
    <3>1. TAKE f \in Frames
    <3>2. HAVE f > Taken' \/ f = cur'
    <3>3. f > Taken
      BY <2>3, <3>2
    <3>4. QED BY <2>2, <3>3
  <2>7. QED BY <2>3, <2>4, <2>5, <2>6, Zenon
<1>3. CASE ReturnOk
  BY <1>3 DEF ReturnOk, Return
<1>4. CASE TimeoutClear
  BY <1>4 DEF TimeoutClear, Return
<1>5. ASSUME NEW n \in 1 .. FifoDepth, IrqFill(n)
      PROVE  QueueOrder'
  <2>1. pc' = pc \/ (pc = "pend" /\ pc' = "ok")
    BY <1>5 DEF IrqFill, SemGive
  <2>2. QED BY <1>5, <2>1 DEF IrqFill
<1>6. CASE EncodeByte \/ SetPtr \/ SetLen \/ IrqEnable \/ SemTake \/ TimeoutDisable
  BY <1>6 DEF EncodeByte, SetPtr, SetLen, IrqEnable, SemTake, TimeoutDisable
<1>7. CASE Timeout \/ IrqIdle \/ UNCHANGED vars
  BY <1>7 DEF Timeout, IrqIdle, vars
<1>8. QED
  BY <1>1, <1>2, <1>3, <1>4, <1>5, <1>6, <1>7 DEF Next, TxThread

-----------------------------------------------------------------------------
(* One fill by the handler, before any completion is given to nobody: the  *)
(* next n bytes of cur, and nothing else, are added to the wire.           *)

LEMMA FillFacts ==
    ASSUME TypeOK, Encoded, Ownership, NEW n \in 1 .. FifoDepth, IrqFill(n)
    PROVE  /\ pc \in {"take", "pend", "expired"}
           /\ Sending
           /\ Sent \in Nat /\ Sent + tx_data_len = Lens[cur] /\ tx_data_ptr = Sent + 1
           /\ n \in 1 .. tx_data_len
           /\ tx_data_len' = tx_data_len - n
           /\ Sent' = Sent + n
           /\ cur \in Frames /\ cur' = cur
<1> USE ConstantFacts DEF TypeOK, ThreadTyped, LinkTyped, Frames, Labels
<1>1. n \in 1 .. tx_data_len /\ tx_data_len' = tx_data_len - n /\ cur' = cur
  BY Zenon DEF IrqFill
<1>2. tx_irq /\ tx_data_ptr # 0
  BY DEF IrqFill
<1>3. pc \in {"take", "pend", "expired"} /\ Sending
  BY <1>2 DEF Ownership, Idle
<1>4. pc' \in {"take", "pend", "expired", "ok"}
  BY <1>3 DEF IrqFill, SemGive
<1>5. cur \in Frames /\ Lens[cur] \in 1 .. BufSize
  BY <1>3
<1>6. Sent = Lens[cur] - tx_data_len /\ Sent' = Lens[cur] - tx_data_len'
  BY <1>1, <1>3, <1>4 DEF Sent
<1>7. /\ Sent \in Nat /\ Sent + tx_data_len = Lens[cur]
      /\ tx_data_ptr = Sent + 1 /\ Sent' = Sent + n
  <2>1. tx_data_ptr + tx_data_len = Lens[cur] + 1 /\ tx_data_len \in 1 .. Lens[cur]
    BY <1>3, Zenon DEF Sending
  <2>2. tx_data_ptr \in Nat /\ Lens[cur] \in Nat /\ n \in Nat
    BY <1>5
  <2> HIDE ConstantFacts DEF TypeOK, ThreadTyped, LinkTyped
  <2>3. tx_data_len \in Nat /\ tx_data_len <= Lens[cur]
    BY <2>1, <2>2
  <2>4. Sent \in Nat /\ Sent + tx_data_len = Lens[cur]
    BY <1>6, <2>2, <2>3
  <2>5. tx_data_ptr = Sent + 1
    BY <2>1, <2>2, <2>3, <2>4
  <2>6. Sent' = Sent + n
    BY <1>1, <1>6, <2>2, <2>3
  <2>7. QED BY <2>4, <2>5, <2>6
<1>8. QED BY <1>1, <1>3, <1>5, <1>6, <1>7

LEMMA FillWire ==
    ASSUME TypeOK, Encoded, Ownership, NEW n \in 1 .. FifoDepth, IrqFill(n)
    PROVE  /\ Len(wire) \in Nat /\ Len(wire') = Len(wire) + n
           /\ \A k \in 1 .. Len(wire) : wire'[k] = wire[k]
           /\ \A i \in 1 .. n : wire'[Len(wire) + i] = <<cur, Sent + i>>
           /\ wire' = wire \o [i \in 1 .. n |-> <<cur, Sent + i>>]
<1> DEFINE Bytes == (0 .. MaxFrames) \X Nat
           chunk == [i \in 1 .. n |->
                       <<CellAt(tx_data_ptr + i - 1), tx_data_ptr + i - 1>>]
<1>1. /\ pc \notin {"get", "encode"}
      /\ Sent \in Nat /\ Sent + tx_data_len = Lens[cur] /\ tx_data_ptr = Sent + 1
      /\ n \in 1 .. tx_data_len /\ cur \in Frames
  BY FillFacts
<1>2. tx_data_len \in Nat /\ Lens[cur] \in 1 .. BufSize /\ MaxFrames \in Nat /\ n \in Nat
  BY <1>1, ConstantFacts DEF TypeOK, LinkTyped
<1>3. wire \in Seq(Bytes)
  BY DEF TypeOK, HistoryTyped
<1>4. wire' = wire \o chunk
  BY DEF IrqFill
<1>5. ASSUME NEW i \in 1 .. n
      PROVE  chunk[i] = <<cur, Sent + i>> /\ chunk[i] \in Bytes
  <2>1. tx_data_ptr + i - 1 = Sent + i /\ Sent + i \in 1 .. Lens[cur]
    BY <1>1, <1>2
  <2>2. Sent + i \in 1 .. BufSize /\ slip_buf[Sent + i] = cur
    BY <1>1, <1>2, <2>1, ConstantFacts DEF Encoded
  <2>3. chunk[i] = <<cur, Sent + i>>
    BY <2>1, <2>2 DEF CellAt
  <2>4. cur \in 0 .. MaxFrames /\ Sent + i \in Nat
    BY <1>1, <1>2 DEF Frames
  <2>5. QED BY <2>3, <2>4
<1>6. chunk \in [1 .. n -> Bytes] /\ chunk = [i \in 1 .. n |-> <<cur, Sent + i>>]
  BY <1>5
<1> HIDE DEF chunk, Bytes
<1>7. chunk \in Seq(Bytes) /\ Len(chunk) = n
  BY <1>2, <1>6, FunctionIsSeq
<1>8. Len(wire) \in Nat
  BY <1>3, LenProperties
<1>9. /\ Len(wire') = Len(wire) + n
      /\ \A k \in 1 .. Len(wire) + n :
            wire'[k] = IF k <= Len(wire) THEN wire[k] ELSE chunk[k - Len(wire)]
  BY <1>3, <1>4, <1>7, ConcatProperties
<1>10. \A k \in 1 .. Len(wire) : wire'[k] = wire[k]
  BY <1>2, <1>8, <1>9
<1>11. ASSUME NEW i \in 1 .. n
       PROVE  wire'[Len(wire) + i] = <<cur, Sent + i>>
  <2>1. /\ Len(wire) + i \in 1 .. Len(wire) + n /\ ~(Len(wire) + i <= Len(wire))
        /\ (Len(wire) + i) - Len(wire) = i
    BY <1>2, <1>8
  <2>2. wire'[Len(wire) + i] = chunk[i]
    BY <1>9, <2>1
  <2>3. QED BY <1>5, <2>2
<1>12. QED BY <1>4, <1>6, <1>8, <1>9, <1>10, <1>11

-----------------------------------------------------------------------------
(* Who owns the transfer. The only step that breaks this is a completion   *)
(* given to nobody, and it sets lateGive.                                  *)

LEMMA NextOwnership ==
    ASSUME TypeOK, Encoded, Ownership, [Next]_vars, ~lateGive'
    PROVE  Ownership'
<1>0. /\ Lens \in [Frames -> 1 .. BufSize] /\ BufSize \in Nat
      /\ (cur # 0 => cur \in Frames) /\ pc \in Labels /\ tx_sem \in {0, 1}
      /\ (cur = 0) <=> (pc = "get")
      /\ tx_data_ptr \in Nat /\ tx_data_len \in Nat
  BY ConstantFacts DEF TypeOK, ThreadTyped, LinkTyped, Frames
<1>1. CASE Enqueue
  BY <1>1 DEF Enqueue, Ownership, Sending, Idle, shared
<1>2. CASE FifoGet
  BY <1>2 DEF FifoGet, Ownership, Sending, Idle, shared
<1>3. CASE EncodeByte
  BY <1>3 DEF EncodeByte, Ownership, Sending, Idle, shared
<1>4. CASE SetPtr
  BY <1>4 DEF SetPtr, Ownership, Sending, Idle
<1>5. CASE SetLen
  BY <1>5 DEF SetLen, Ownership, Sending, Idle
<1>6. CASE IrqEnable
  <2>1. Lens[cur] \in Nat /\ Lens[cur] >= 1
    BY <1>0, <1>6 DEF IrqEnable
  <2>2. pc = "enable" /\ pc' = "take" /\ tx_irq' = TRUE /\ tx_sem' = tx_sem
        /\ tx_data_ptr' = tx_data_ptr /\ tx_data_len' = tx_data_len /\ cur' = cur
    BY <1>6 DEF IrqEnable
  <2>3. tx_sem = 0 /\ tx_data_ptr = 1 /\ tx_data_len = Lens[cur]
    BY <2>2 DEF Ownership
  <2>4. Sending'
    BY <2>1, <2>2, <2>3 DEF Sending
  <2>5. QED BY <2>2, <2>4 DEF Ownership
<1>7. CASE SemTake
  BY <1>7 DEF SemTake, Ownership, Sending, Idle
<1>8. CASE ReturnOk
  BY <1>8 DEF ReturnOk, Return, Ownership, Sending, Idle, shared
<1>9. CASE TimeoutDisable
  BY <1>9 DEF TimeoutDisable, Ownership, Sending, Idle
<1>10. CASE TimeoutClear
  BY <1>10 DEF TimeoutClear, Return, Ownership, Sending, Idle
<1>11. CASE Timeout
  BY <1>11 DEF Timeout, Ownership, Sending, Idle, shared
<1>12. ASSUME NEW n \in 1 .. FifoDepth, IrqFill(n)
       PROVE  Ownership'
  <2>1. /\ pc \in {"take", "pend", "expired"} /\ Sending /\ cur' = cur
        /\ n \in 1 .. tx_data_len /\ tx_data_len' = tx_data_len - n
    BY <1>12, FillFacts
  <2>2. CASE n = tx_data_len
    <3>1. tx_data_ptr' = 0 /\ tx_irq' = FALSE /\ SemGive
      BY <1>12, <2>2 DEF IrqFill
    <3>2. tx_data_len' = 0
      BY <1>0, <2>1, <2>2
    <3>3. Idle'
      BY <3>1, <3>2 DEF Idle
    <3>4. pc # "expired"
      BY <3>1 DEF SemGive
    <3>5. (pc' = "ok" /\ tx_sem' = 0) \/ (pc' = "take" /\ tx_sem' = 1)
      BY <2>1, <3>1, <3>4 DEF SemGive, Sending
    <3>6. QED BY <3>3, <3>5 DEF Ownership
  <2>3. CASE n # tx_data_len
    <3>1. /\ tx_data_ptr' = tx_data_ptr + n /\ tx_irq' = tx_irq
          /\ tx_sem' = tx_sem /\ pc' = pc
      BY <1>12, <2>3 DEF IrqFill
    <3>2. /\ tx_data_len \in 1 .. Lens[cur] /\ Lens[cur] \in Nat
          /\ tx_data_ptr + tx_data_len = Lens[cur] + 1
      BY <1>0, <2>1 DEF Sending
    <3>3. /\ tx_data_len' \in 1 .. Lens[cur]
          /\ tx_data_ptr' + tx_data_len' = Lens[cur] + 1
      BY <1>0, <2>1, <2>3, <3>1, <3>2
    <3>4. tx_irq' /\ tx_sem' = 0
      BY <2>1, <3>1, Zenon DEF Sending
    <3>5. Sending'
      BY <2>1, <3>3, <3>4 DEF Sending
    <3>6. QED BY <2>1, <3>1, <3>5 DEF Ownership
  <2>4. QED BY <2>2, <2>3
<1>13. CASE IrqIdle
  <2>1. tx_irq /\ (tx_data_ptr = 0 \/ tx_data_len = 0)
    BY <1>13 DEF IrqIdle
  <2>2. pc \in {"take", "pend", "expired"} /\ Sending
    BY <1>0, <2>1 DEF Ownership, Idle, Labels
  <2>3. tx_data_len \in 1 .. Lens[cur] /\ tx_data_ptr + tx_data_len = Lens[cur] + 1
    BY <2>2, Zenon DEF Sending
  <2>4. Lens[cur] \in Nat
    BY <1>0, <2>2
  <2>5. FALSE
    BY <1>0, <2>1, <2>3, <2>4
  <2>6. QED BY <2>5
<1>14. CASE UNCHANGED vars
  BY <1>14 DEF vars, Ownership, Sending, Idle
<1>15. QED
  BY <1>1, <1>2, <1>3, <1>4, <1>5, <1>6, <1>7, <1>8, <1>9, <1>10, <1>11, <1>12,
     <1>13, <1>14 DEF Next, TxThread

-----------------------------------------------------------------------------
(* The wire. Steps that add no byte keep it as it is; a fill extends it.   *)

LEMMA QuietWire ==
    ASSUME WireOrder, wire' = wire, Taken' = Taken, cur' = cur, Sent' = Sent
    PROVE  WireOrder'
BY DEF WireOrder, OnWire

\* tx_thread has no frame, or one of which nothing is out.
LEMMA FreshWire ==
    ASSUME TypeOK, QueueOrder, WireOrder, wire' = wire, Taken' \in Nat, Taken' >= Taken,
           Sent' = 0, cur' \notin 1 .. Taken
    PROVE  WireOrder'
<1>1. Taken \in Nat
  BY LenProperties DEF TypeOK, ThreadTyped, QueueOrder, Taken
<1>2. ASSUME NEW k \in 1 .. Len(wire)
      PROVE  wire[k][1] \in 1 .. Taken' /\ wire[k][1] # cur'
  BY <1>1, <1>2 DEF WireOrder
<1>3. \A k \in 1 .. Len(wire') : wire'[k][1] \in 1 .. Taken' /\ wire'[k][1] # cur'
  BY <1>2
<1>4. ~(Sent' > 0) /\ \A i \in 1 .. Sent' : FALSE
  OBVIOUS
<1>5. QED BY <1>3, <1>4 DEF WireOrder

LEMMA NextWireOrder ==
    ASSUME TypeOK, Encoded, QueueOrder, Ownership, WireOrder, [Next]_vars, ~lateGive',
           TypeOK', QueueOrder'
    PROVE  WireOrder'
<1>0. /\ Taken \in Nat /\ Taken' \in Nat /\ Lens \in [Frames -> 1 .. BufSize]
      /\ BufSize \in Nat /\ tx_data_len \in Nat
      /\ (cur # 0 => cur \in Frames) /\ ((cur = 0) <=> (pc = "get"))
  <2>1. Len(tx_queue) \in Nat /\ Len(tx_queue') \in Nat
    BY LenProperties DEF TypeOK, ThreadTyped
  <2>2. queued \in Nat /\ queued' \in Nat
    BY ConstantFacts DEF TypeOK, ThreadTyped
  <2>3. Taken \in Nat /\ Taken' \in Nat
    BY <2>1, <2>2 DEF QueueOrder, Taken
  <2>4. BufSize \in Nat /\ tx_data_len \in Nat
    BY ConstantFacts DEF TypeOK, LinkTyped
  <2>5. (cur # 0 => cur \in Frames) /\ ((cur = 0) <=> (pc = "get"))
    BY ConstantFacts DEF TypeOK, ThreadTyped, Frames
  <2>6. QED BY <2>3, <2>4, <2>5, ConstantFacts
<1>1. CASE Enqueue
  <2>1. /\ tx_queue' = Append(tx_queue, queued + 1) /\ queued' = queued + 1
        /\ wire' = wire /\ cur' = cur /\ pc' = pc /\ tx_data_len' = tx_data_len
    BY <1>1 DEF Enqueue, shared
  <2>2. /\ tx_queue \in Seq(Frames) /\ queued \in Nat /\ queued + 1 \in Frames
        /\ Len(tx_queue) \in Nat
    BY <1>1, ConstantFacts, LenProperties DEF Enqueue, TypeOK, ThreadTyped, Frames
  <2>3. Len(tx_queue') = Len(tx_queue) + 1
    BY <2>1, <2>2, AppendProperties
  <2>4. Taken' = Taken
    BY <2>1, <2>2, <2>3 DEF Taken
  <2>5. Sent' = Sent
    BY <2>1 DEF Sent
  <2>6. QED BY <2>1, <2>4, <2>5, QuietWire
<1>2. CASE FifoGet
  <2>1. wire' = wire /\ pc' = "encode" /\ queued' = queued /\ pc = "get"
    BY <1>2 DEF FifoGet
  <2>2. Len(tx_queue') = Len(tx_queue) - 1 /\ Len(tx_queue) \in Nat /\ queued \in Nat
    BY <1>2, HeadTailProperties, EmptySeq DEF FifoGet, TypeOK, ThreadTyped
  <2>3. Taken' = Taken + 1
    BY <2>1, <2>2 DEF Taken
  <2>4. cur' = Taken'
    BY <2>1 DEF QueueOrder
  <2>5. Sent' = 0
    BY <2>1 DEF Sent
  <2>6. cur' \notin 1 .. Taken /\ Taken' >= Taken
    BY <1>0, <2>3, <2>4
  <2>7. QED BY <1>0, <2>1, <2>5, <2>6, FreshWire
<1>3. CASE ReturnOk \/ TimeoutClear
  <2>1. wire' = wire /\ pc' = "get" /\ cur' = 0 /\ Taken' = Taken
    BY <1>3 DEF ReturnOk, TimeoutClear, Return, Taken
  <2>2. Sent' = 0
    BY <2>1 DEF Sent
  <2>3. cur' \notin 1 .. Taken /\ Taken' >= Taken
    BY <1>0, <2>1
  <2>4. QED BY <1>0, <2>1, <2>2, <2>3, FreshWire
<1>4. CASE EncodeByte \/ SetPtr
  <2>1. wire' = wire /\ cur' = cur /\ Taken' = Taken /\ tx_data_len' = tx_data_len
    BY <1>4 DEF EncodeByte, SetPtr, shared, Taken
  <2>2. Sent' = Sent
    BY <1>4, <2>1 DEF EncodeByte, SetPtr, Sent
  <2>3. QED BY <2>1, <2>2, QuietWire
<1>5. CASE SetLen
  <2>1. wire' = wire /\ cur' = cur /\ Taken' = Taken /\ pc = "set_len" /\ pc' = "enable"
    BY <1>5 DEF SetLen, Taken
  <2>2. tx_data_len' = Lens[cur] /\ Lens[cur] \in Nat
    BY <1>0, <1>5 DEF SetLen
  <2>3. Sent = 0 /\ Sent' = 0
    BY <2>1, <2>2 DEF Sent
  <2>4. QED BY <2>1, <2>3, QuietWire
<1>6. CASE IrqEnable \/ SemTake \/ TimeoutDisable \/ Timeout \/ IrqIdle
  <2>1. wire' = wire /\ cur' = cur /\ Taken' = Taken /\ tx_data_len' = tx_data_len
    BY <1>6 DEF IrqEnable, SemTake, TimeoutDisable, Timeout, IrqIdle, shared, Taken
  <2>2. Sent' = Sent
    BY <1>6, <2>1 DEF IrqEnable, SemTake, TimeoutDisable, Timeout, IrqIdle, Sent
  <2>3. QED BY <2>1, <2>2, QuietWire
<1>7. ASSUME NEW n \in 1 .. FifoDepth, IrqFill(n)
      PROVE  WireOrder'
  <2>1. /\ Len(wire) \in Nat /\ Len(wire') = Len(wire) + n
        /\ \A k \in 1 .. Len(wire) : wire'[k] = wire[k]
        /\ \A i \in 1 .. n : wire'[Len(wire) + i] = <<cur, Sent + i>>
    BY <1>7, FillWire
  <2>2. /\ Sent \in Nat /\ Sent' = Sent + n /\ cur \in Frames /\ cur' = cur
        /\ n \in 1 .. tx_data_len /\ pc # "get"
    BY <1>7, FillFacts
  <2>3. Taken' = Taken /\ cur = Taken
    BY <1>7, <2>2 DEF IrqFill, Taken, QueueOrder
  <2>4. n \in Nat /\ n >= 1 /\ cur \in 1 .. Taken
    BY <1>0, <2>2, <2>3, ConstantFacts DEF Frames
  <2>5. \A k \in 1 .. Len(wire) + n : k \in 1 .. Len(wire) \/ k - Len(wire) \in 1 .. n
    BY <2>1, <2>4
  <2>6. ASSUME NEW k \in 1 .. Len(wire')
        PROVE  wire'[k][1] \in 1 .. Taken' /\ (wire'[k][1] = cur' => wire'[k][2] \in 1 .. Sent')
    <3>1. CASE k \in 1 .. Len(wire)
      <4>1. wire'[k] = wire[k] /\ wire[k][1] \in 1 .. Taken
            /\ (wire[k][1] = cur => wire[k][2] \in 1 .. Sent)
        BY <2>1, <3>1 DEF WireOrder
      <4>2. \A x \in 1 .. Sent : x \in 1 .. Sent'
        BY <2>2, <2>4
      <4>3. QED BY <2>2, <2>3, <4>1, <4>2, Zenon
    <3>2. CASE k - Len(wire) \in 1 .. n
      <4>1. wire'[Len(wire) + (k - Len(wire))] = <<cur, Sent + (k - Len(wire))>>
        BY <2>1, <3>2
      <4>2. Len(wire) + (k - Len(wire)) = k
        BY <2>1
      <4>3. Sent + (k - Len(wire)) \in 1 .. Sent'
        BY <2>1, <2>2, <2>4, <3>2
      <4>4. QED BY <2>2, <2>3, <2>4, <4>1, <4>2, <4>3, SMTT(30)
    <3>3. QED BY <2>1, <2>5, <3>1, <3>2
  <2>7. Len(wire') > 0 /\ wire'[Len(wire')] = <<cur', Sent'>>
    BY <2>1, <2>2, <2>4
  <2>8. ASSUME NEW i \in 1 .. Sent'
        PROVE  OnWire(cur, i)'
    <3>1. CASE i \in 1 .. Sent
      <4>1. PICK k \in 1 .. Len(wire) : wire[k] = <<cur, i>>
        BY <3>1 DEF WireOrder, OnWire
      <4>2. k \in 1 .. Len(wire') /\ wire'[k] = <<cur', i>>
        BY <2>1, <2>2, <2>4, <4>1
      <4>3. QED BY <4>2 DEF OnWire
    <3>2. CASE i - Sent \in 1 .. n
      <4>1. PICK j \in 1 .. n : Sent + j = i
        BY <2>2, <3>2
      <4>2. wire'[Len(wire) + j] = <<cur', i>>
        BY <2>1, <2>2, <4>1
      <4>3. Len(wire) + j \in 1 .. Len(wire')
        BY <2>1, <2>4
      <4>4. QED BY <2>2, <4>2, <4>3 DEF OnWire
    <3>3. QED BY <2>2, <2>4, <3>1, <3>2
  <2>9. QED BY <2>6, <2>7, <2>8 DEF WireOrder
<1>8. CASE UNCHANGED vars
  <2>1. wire' = wire /\ cur' = cur /\ Taken' = Taken /\ Sent' = Sent
    BY <1>8 DEF vars, Taken, Sent
  <2>2. QED BY <2>1, QuietWire
<1>9. QED
  BY <1>1, <1>2, <1>3, <1>4, <1>5, <1>6, <1>7, <1>8 DEF Next, TxThread

LEMMA NextInOrder ==
    ASSUME TypeOK, Encoded, QueueOrder, Ownership, WireOrder, InOrderOnWire,
           [Next]_vars, ~lateGive, ~lateGive'
    PROVE  InOrderOnWire'
<1>1. CASE wire' = wire
  BY <1>1 DEF InOrderOnWire
<1>2. ASSUME NEW n \in 1 .. FifoDepth, IrqFill(n)
      PROVE  InOrderOnWire'
  <2>1. /\ Len(wire) \in Nat /\ Len(wire') = Len(wire) + n
        /\ \A k \in 1 .. Len(wire) : wire'[k] = wire[k]
        /\ \A i \in 1 .. n : wire'[Len(wire) + i] = <<cur, Sent + i>>
    BY <1>2, FillWire
  <2>2. Sent \in Nat /\ pc # "get" /\ cur \in Frames
    BY <1>2, FillFacts
  <2>3. n \in Nat /\ n >= 1 /\ cur = Taken /\ cur \in Nat
    BY <2>2, ConstantFacts DEF QueueOrder, Frames
  <2> SUFFICES ASSUME NEW k \in 1 .. Len(wire') - 1
               PROVE  \/ wire'[k + 1] = <<wire'[k][1], wire'[k][2] + 1>>
                      \/ wire'[k + 1][1] > wire'[k][1] /\ wire'[k + 1][2] = 1
    BY DEF InOrderOnWire
  <2>4. CASE k \in 1 .. Len(wire) - 1
    <3>1. k \in 1 .. Len(wire) /\ k + 1 \in 1 .. Len(wire)
      BY <2>1, <2>4
    <3>2. wire'[k] = wire[k] /\ wire'[k + 1] = wire[k + 1]
      BY <2>1, <3>1
    <3>3. QED BY <2>4, <3>2 DEF InOrderOnWire
  <2>5. CASE k = Len(wire)
    <3>1. wire'[k] = wire[k] /\ wire'[k + 1] = <<cur, Sent + 1>>
      BY <2>1, <2>3, <2>5
    <3>2. CASE Sent > 0
      BY <2>5, <3>1, <3>2 DEF WireOrder
    <3>3. CASE Sent = 0
      <4>1. wire[k][1] \in 1 .. Taken /\ wire[k][1] # cur
        BY <2>5, <3>3 DEF WireOrder
      <4>2. wire[k][1] < cur
        BY <2>3, <4>1
      <4>3. QED BY <2>3, <3>1, <3>3, <4>1, <4>2
    <3>4. QED BY <2>2, <3>2, <3>3
  <2>6. CASE k > Len(wire)
    <3>1. PICK i \in 1 .. n - 1 : k = Len(wire) + i
      BY <2>1, <2>3, <2>6, SMTT(30)
    <3>2. i \in 1 .. n /\ i + 1 \in 1 .. n /\ k + 1 = Len(wire) + (i + 1)
      BY <2>1, <2>3, <3>1
    <3>3. wire'[k] = <<cur, Sent + i>> /\ wire'[k + 1] = <<cur, Sent + (i + 1)>>
      BY <2>1, <3>1, <3>2
    <3>4. QED BY <2>2, <3>2, <3>3
  <2>7. QED BY <2>1, <2>3, <2>4, <2>5, <2>6
<1>3. QED
  BY <1>1, <1>2
     DEF Next, TxThread, Enqueue, FifoGet, EncodeByte, SetPtr, SetLen, IrqEnable,
         SemTake, ReturnOk, TimeoutDisable, TimeoutClear, Timeout, IrqIdle, vars

LEMMA NextSentIsComplete ==
    ASSUME TypeOK, Encoded, QueueOrder, Ownership, WireOrder, SentIsComplete,
           [Next]_vars
    PROVE  SentIsComplete'
<1>1. ASSUME NEW f, NEW i, OnWire(f, i)
      PROVE  OnWire(f, i)'
  <2>1. CASE wire' = wire
    BY <1>1, <2>1 DEF OnWire
  <2>2. ASSUME NEW n \in 1 .. FifoDepth, IrqFill(n)
        PROVE  OnWire(f, i)'
    <3>1. /\ Len(wire) \in Nat /\ Len(wire') = Len(wire) + n
          /\ \A k \in 1 .. Len(wire) : wire'[k] = wire[k]
      BY <2>2, FillWire
    <3>2. PICK k \in 1 .. Len(wire) : wire[k] = <<f, i>>
      BY <1>1 DEF OnWire
    <3>3. k \in 1 .. Len(wire') /\ wire'[k] = <<f, i>>
      BY <3>1, <3>2, ConstantFacts
    <3>4. QED BY <3>3 DEF OnWire
  <2>3. QED
    BY <2>1, <2>2
       DEF Next, TxThread, Enqueue, FifoGet, EncodeByte, SetPtr, SetLen, IrqEnable,
           SemTake, ReturnOk, TimeoutDisable, TimeoutClear, Timeout, IrqIdle, vars
<1>2. CASE result' = result
  BY <1>1, <1>2 DEF SentIsComplete
<1>3. CASE ReturnOk
  <2>1. pc = "ok" /\ result' = [result EXCEPT ![cur] = "sent"]
    BY <1>3 DEF ReturnOk, Return
  <2>2. cur \in Frames /\ result \in [Frames -> {"none", "sent", "timeout"}]
        /\ Lens[cur] \in Nat
    BY <2>1, ConstantFacts DEF TypeOK, ThreadTyped, HistoryTyped, Frames
  <2>3. tx_data_len = 0
    BY <2>1 DEF Ownership, Idle
  <2>4. Sent = Lens[cur]
    BY <2>1, <2>2, <2>3 DEF Sent
  <2>5. \A i \in 1 .. Lens[cur] : OnWire(cur, i)
    BY <2>4 DEF WireOrder
  <2>6. ASSUME NEW f \in Frames, result'[f] = "sent", NEW i \in 1 .. Lens[f]
        PROVE  OnWire(f, i)
    BY <2>1, <2>2, <2>5, <2>6 DEF SentIsComplete
  <2>7. QED BY <1>1, <2>6 DEF SentIsComplete
<1>4. CASE TimeoutClear
  <2>1. result' = [result EXCEPT ![cur] = "timeout"]
    BY <1>4 DEF TimeoutClear, Return
  <2>2. \A f \in Frames : result'[f] = "sent" => result[f] = "sent"
    BY <2>1 DEF TypeOK, HistoryTyped
  <2>3. QED BY <1>1, <2>2 DEF SentIsComplete
<1>5. QED
  BY <1>2, <1>3, <1>4
     DEF Next, TxThread, Enqueue, FifoGet, EncodeByte, SetPtr, SetLen, IrqEnable,
         SemTake, TimeoutDisable, Timeout, IrqFill, IrqIdle, vars

-----------------------------------------------------------------------------
(* The inductive invariant.                                                *)

LEMMA LateGiveStays ==
    ASSUME TypeOK, [Next]_vars, lateGive
    PROVE  lateGive'
<1>1. ASSUME NEW n \in 1 .. FifoDepth, IrqFill(n)
      PROVE  lateGive'
  <2>1. CASE n = tx_data_len
    BY <1>1, <2>1 DEF IrqFill, SemGive
  <2>2. CASE n # tx_data_len
    BY <1>1, <2>2 DEF IrqFill
  <2>3. QED BY <2>1, <2>2
<1>2. QED
  BY <1>1
     DEF Next, TxThread, Enqueue, FifoGet, EncodeByte, SetPtr, SetLen, IrqEnable,
         SemTake, ReturnOk, TimeoutDisable, TimeoutClear, Timeout, IrqIdle, vars

LEMMA InitIInv == Init => IInv
<1> SUFFICES ASSUME Init PROVE IInv
  OBVIOUS
<1>1. Len(tx_queue) = 0 /\ Len(wire) = 0 /\ Sent = 0
  BY EmptySeq DEF Init, Sent
<1>2. QueueOrder
  BY <1>1 DEF Init, QueueOrder, Taken
<1>3. Ownership
  BY DEF Init, Ownership, Idle
<1>4. WireOrder /\ InOrderOnWire
  BY <1>1 DEF WireOrder, InOrderOnWire
<1>5. SentIsComplete
  BY DEF Init, SentIsComplete
<1>6. QED BY <1>2, <1>3, <1>4, <1>5, InitTyped DEF IInv

LEMMA NextIInv == IInv /\ [Next]_vars => IInv'
<1> SUFFICES ASSUME IInv, [Next]_vars PROVE IInv'
  OBVIOUS
<1>1. TypeOK /\ Encoded /\ QueueOrder
  BY DEF IInv
<1>2. TypeOK' /\ Encoded' /\ QueueOrder'
  BY <1>1, NextTyped, NextEncoded, NextQueueOrder
<1>3. ASSUME ~lateGive'
      PROVE  Ownership' /\ WireOrder' /\ InOrderOnWire' /\ SentIsComplete'
  <2>1. ~lateGive
    BY <1>1, <1>3, LateGiveStays
  <2>2. Ownership /\ WireOrder /\ InOrderOnWire /\ SentIsComplete
    BY <2>1 DEF IInv
  <2>3. QED
    BY <1>1, <1>2, <1>3, <2>1, <2>2, NextOwnership, NextWireOrder, NextInOrder,
       NextSentIsComplete
<1>4. QED BY <1>2, <1>3 DEF IInv

\* Who owns the transfer, the order of the queue, what is encoded and what is on the
\* line fit together at every label of tx_thread.
THEOREM Invariance == Spec => []IInv
BY InitIInv, NextIInv, PTL DEF Spec

\* try_write answers 0 only for frames that are out, until a completion is
\* given to nobody.
THEOREM SentIsCompleteHolds == Spec => []SentIsCompleteUntilLateGive
<1>1. IInv => SentIsCompleteUntilLateGive
  BY DEF IInv, SentIsCompleteUntilLateGive
<1>2. QED BY Invariance, <1>1, PTL

\* Bytes leave in frame order and byte order, none twice.
THEOREM InOrderHolds == Spec => []InOrderOnWire
<1>1. IInv => InOrderOnWire
  BY DEF IInv, InOrderOnWire
<1>2. QED BY Invariance, <1>1, PTL

\* The handler never reads past slip_buf.
THEOREM ReadsInBoundsHolds == Spec => []ReadsInBounds
<1>1. IInv => ReadsInBounds
  <2> SUFFICES ASSUME IInv, tx_irq, ~lateGive
               PROVE  tx_data_ptr + tx_data_len <= BufSize + 1
    BY DEF ReadsInBounds
  <2>1. pc \in Labels /\ ((cur = 0) <=> (pc = "get")) /\ cur \in 0 .. MaxFrames
    BY DEF IInv, TypeOK, ThreadTyped
  <2>2. pc \in {"take", "pend", "expired"} /\ Sending
    BY <2>1 DEF IInv, Ownership, Idle, Labels
  <2>3. Lens[cur] \in 1 .. BufSize
    BY <2>1, <2>2, ConstantFacts DEF Frames
  <2>4. tx_data_ptr + tx_data_len = Lens[cur] + 1
    BY <2>2 DEF Sending
  <2>5. QED BY <2>3, <2>4, ConstantFacts
<1>2. QED BY Invariance, <1>1, PTL

\* No byte of slip_buf is stored while the handler may read it.
THEOREM NoReuseWhileSendingHolds == Spec => NoReuseWhileSending
<1>1. IInv /\ [Next]_vars => [slip_buf' # slip_buf => ~tx_irq \/ lateGive]_vars
  <2> SUFFICES ASSUME IInv, Next, slip_buf' # slip_buf, ~lateGive
               PROVE  ~tx_irq
    BY DEF vars
  <2>1. EncodeByte
    BY DEF Next, TxThread, Enqueue, FifoGet, SetPtr, SetLen, IrqEnable, SemTake,
           ReturnOk, TimeoutDisable, TimeoutClear, Timeout, IrqFill, IrqIdle
  <2>2. pc = "encode"
    BY <2>1 DEF EncodeByte
  <2>3. QED BY <2>2 DEF IInv, Ownership, Idle
<1>2. QED BY Invariance, <1>1, PTL DEF Spec, NoReuseWhileSending

-----------------------------------------------------------------------------
(* The path implements the abstract line.                                  *)

LEMMA LineInit == Init => Line!Init
<1> SUFFICES ASSUME Init PROVE Line!Init
  OBVIOUS
<1>1. DOMAIN Lens = Frames
  BY ConstantFacts
<1>2. QED BY <1>1 DEF Init, Line!Init, Sent

LEMMA LineStep == IInv /\ IInv' /\ [Next]_vars => [Line!Next]_(Line!vars)
<1> SUFFICES ASSUME IInv, IInv', [Next]_vars PROVE [Line!Next]_(Line!vars)
  OBVIOUS
<1>1. CASE lateGive'
  BY <1>1 DEF Line!Next
<1>2. CASE ~lateGive'
  <2>1. TypeOK /\ Encoded /\ QueueOrder /\ ~lateGive
    BY <1>2, LateGiveStays DEF IInv
  <2>2. Ownership /\ WireOrder
    BY <2>1 DEF IInv
  <2>3. DOMAIN Lens = Frames /\ ((cur = 0) <=> (pc = "get")) /\ cur \in 0 .. MaxFrames
        /\ MaxFrames \in Nat /\ Lens \in [Frames -> 1 .. BufSize] /\ BufSize \in Nat
    BY <2>1, ConstantFacts DEF TypeOK, ThreadTyped
  <2>4. CASE Enqueue
    <3>1. Taken \in Nat /\ Len(tx_queue) \in Nat /\ queued \in 0 .. MaxFrames /\ Taken <= queued
      BY <2>1, LenProperties DEF TypeOK, ThreadTyped, QueueOrder, Taken
    <3>2. queued + 1 \in Frames /\ queued + 1 > Taken
      BY <2>3, <2>4, <3>1 DEF Enqueue, Frames
    <3>3. result[queued + 1] = "none"
      BY <2>1, <3>2 DEF QueueOrder
    <3>4. cur # queued + 1
      BY <2>1, <2>3, <3>1 DEF QueueOrder
    <3>5. \A i \in 1 .. Len(tx_queue) : tx_queue[i] # queued + 1
      <4>1. TAKE i \in 1 .. Len(tx_queue)
      <4>2. tx_queue[i] = Taken + i /\ Taken + Len(tx_queue) = queued
        BY <2>1, <3>1 DEF QueueOrder, Taken
      <4>3. QED BY <3>1, <4>2
    <3>6. tx_queue' = Append(tx_queue, queued + 1) /\ cur' = cur /\ wire' = wire
          /\ result' = result /\ Sent' = Sent
      BY <2>4 DEF Enqueue, shared, Sent
    <3>7. Line!Accept
      BY <2>3, <3>2, <3>3, <3>4, <3>5, <3>6 DEF Line!Accept
    <3>8. QED BY <1>2, <2>1, <3>7 DEF Line!Next
  <2>5. CASE FifoGet
    <3>1. Line!Start
      BY <2>3, <2>5 DEF FifoGet, Line!Start, Sent
    <3>2. QED BY <1>2, <2>1, <3>1 DEF Line!Next
  <2>6. CASE ReturnOk
    <3>1. pc = "ok" /\ cur # 0 /\ tx_data_len = 0
      BY <2>2, <2>3, <2>6 DEF ReturnOk, Ownership, Idle
    <3>2. Lens[cur] \in Nat /\ Sent = Lens[cur]
      BY <2>3, <3>1 DEF Sent, Frames
    <3>3. result' = [result EXCEPT ![cur] = "sent"] /\ cur' = 0 /\ pc' = "get"
          /\ tx_queue' = tx_queue /\ wire' = wire
      BY <2>6 DEF ReturnOk, Return
    <3>4. Sent' = 0
      BY <3>3 DEF Sent
    <3>5. Line!Finish("sent")
      BY <3>1, <3>2, <3>3, <3>4 DEF Line!Finish
    <3>6. QED BY <1>2, <2>1, <3>5 DEF Line!Next
  <2>7. CASE TimeoutClear
    <3>1. pc = "clear" /\ cur # 0
      BY <2>3, <2>7 DEF TimeoutClear
    <3>2. result' = [result EXCEPT ![cur] = "timeout"] /\ cur' = 0 /\ pc' = "get"
          /\ tx_queue' = tx_queue /\ wire' = wire
      BY <2>7 DEF TimeoutClear, Return
    <3>3. Sent' = 0
      BY <3>2 DEF Sent
    <3>4. Line!Finish("timeout")
      BY <3>1, <3>2, <3>3 DEF Line!Finish
    <3>5. QED BY <1>2, <2>1, <3>4 DEF Line!Next
  <2>8. ASSUME NEW n \in 1 .. FifoDepth, IrqFill(n)
        PROVE  [Line!Next]_(Line!vars)
    <3>1. wire' = wire \o [i \in 1 .. n |-> <<cur, Sent + i>>]
      BY <2>1, <2>2, <2>8, FillWire
    <3>2. /\ Sent \in Nat /\ Sent + tx_data_len = Lens[cur] /\ Sent' = Sent + n
          /\ n \in 1 .. tx_data_len /\ pc # "get" /\ cur' = cur
      BY <2>1, <2>2, <2>8, FillFacts
    <3>3. tx_data_len \in Nat
      BY <2>1 DEF TypeOK, LinkTyped
    <3>4. Sent' \in Sent + 1 .. Lens[cur] /\ Sent' - Sent = n /\ cur # 0
      BY <2>3, <3>2, <3>3
    <3>5. tx_queue' = tx_queue /\ result' = result
      BY <2>8 DEF IrqFill
    <3>6. Line!Emit
      BY <3>1, <3>2, <3>4, <3>5, Zenon DEF Line!Emit
    <3>7. QED BY <1>2, <2>1, <3>6 DEF Line!Next
  <2>9. CASE EncodeByte \/ SetPtr \/ SetLen
    <3>1. tx_queue' = tx_queue /\ cur' = cur /\ wire' = wire /\ result' = result
      BY <2>9 DEF EncodeByte, SetPtr, SetLen
    <3>2. Sent = 0
      BY <2>9 DEF EncodeByte, SetPtr, SetLen, Sent
    <3>3. CASE EncodeByte \/ SetPtr
      BY <1>2, <2>1, <3>1, <3>2, <3>3 DEF EncodeByte, SetPtr, Sent, Line!vars
    <3>4. CASE SetLen
      <4>1. tx_data_len' = Lens[cur] /\ pc' = "enable" /\ Lens[cur] \in Nat
        BY <2>3, <3>4 DEF SetLen, Frames
      <4>2. Sent' = 0
        BY <3>1, <4>1 DEF Sent
      <4>3. QED BY <1>2, <2>1, <3>1, <3>2, <4>2 DEF Line!vars
    <3>5. QED BY <2>9, <3>3, <3>4
  <2>10. CASE IrqEnable \/ SemTake \/ TimeoutDisable \/ Timeout \/ IrqIdle \/ UNCHANGED vars
    <3>1. tx_queue' = tx_queue /\ cur' = cur /\ wire' = wire /\ result' = result
          /\ tx_data_len' = tx_data_len
      BY <2>10 DEF IrqEnable, SemTake, TimeoutDisable, Timeout, IrqIdle, shared, vars
    <3>2. Sent' = Sent
      BY <2>10, <3>1
         DEF IrqEnable, SemTake, TimeoutDisable, Timeout, IrqIdle, vars, Sent
    <3>3. QED BY <1>2, <2>1, <3>1, <3>2 DEF Line!vars
  <2>11. QED
    BY <2>4, <2>5, <2>6, <2>7, <2>8, <2>9, <2>10 DEF Next, TxThread
<1>3. QED BY <1>1, <1>2

\* Every behaviour of the transmit path is one of the abstract serial line.
THEOREM Refinement == Spec => ImplementsLine
<1>1. Init => Line!Init
  BY LineInit
<1>2. IInv /\ IInv' /\ [Next]_vars => [Line!Next]_(Line!vars)
  BY LineStep
<1>3. QED BY Invariance, <1>1, <1>2, PTL DEF Spec, ImplementsLine, Line!Spec
=============================================================================
