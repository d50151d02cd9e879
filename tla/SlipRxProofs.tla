---------------------------- MODULE SlipRxProofs ----------------------------
(***************************************************************************)
(* Proofs about SlipRx, for any payloads, any number of frames and lost    *)
(* bytes, and pools and packets of any size.                               *)
(***************************************************************************)
EXTENDS SlipRx, SequenceTheorems, TLAPS

Stored == Bytes \X (1 .. MaxFrames) \X Nat

Pkts == {p \in Seq(Stored) : Len(p) \in 1 .. Capacity}

LEMMA ConstantFacts ==
    /\ \A p \in Payloads : p \in Seq(Bytes) /\ Len(p) \in Nat \ {0}
    /\ MaxFrames \in Nat /\ MaxLost \in Nat
    /\ PoolSize \in Nat \ {0} /\ Capacity \in Nat \ {0}
    /\ NULL \notin Pkts
<1>1. \A p \in Payloads : p \in Seq(Bytes) /\ Len(p) \in Nat \ {0}
  BY SlipRxAssumption, EmptySeq
<1>2. Pkts \subseteq Seq(Bytes \X Nat \X Nat)
  <2> SUFFICES ASSUME NEW p \in Pkts PROVE p \in Seq(Bytes \X Nat \X Nat)
    OBVIOUS
  <2>1. p \in Seq(Stored)
    BY DEF Pkts
  <2>2. \A k \in 1 .. Len(p) : p[k] \in Bytes \X Nat \X Nat
    BY <2>1, ElementOfSeq DEF Stored
  <2>3. p = [k \in 1 .. Len(p) |-> p[k]] /\ Len(p) \in Nat
    BY <2>1, LenProperties
  <2>4. QED BY <2>2, <2>3
<1>3. QED BY <1>1, <1>2, SlipRxAssumption

-----------------------------------------------------------------------------
(* The inductive invariant.                                                *)

Typed ==
    /\ sent \in Seq(Payloads) /\ Len(sent) <= MaxFrames
    /\ pos \in Nat \ {0}
    /\ escaped \in BOOLEAN /\ idle \in BOOLEAN
    /\ lost \in 0 .. MaxLost
    /\ slip_state \in {"GARBAGE", "OK", "ESC"}
    /\ free \in Nat /\ radio \in Nat
    /\ pkt_curr \in Pkts \cup {NULL} /\ held \in Pkts \cup {NULL}
    /\ rx_queue \in Seq(Pkts) /\ delivered \in Seq(Pkts)
    /\ damaged \subseteq 1 .. Len(sent)

\* Where the host is in its frame.
HostInFrame ==
    /\ ~idle => Frame \in 1 .. MaxFrames /\ pos <= Len(Payload) + 1
    /\ escaped => ~idle /\ pos <= Len(Payload) /\ MustEscape(Payload[pos])

\* What is stored was sent before what the host sends next.
BehindAt(b, frame, done, at) == b[2] < frame \/ (b[2] = frame /\ (done \/ b[3] < at))

Behind(b) == BehindAt(b, Frame, idle, pos)

LastByte(p) == p[Len(p)]

StoredBehind ==
    /\ pkt_curr # NULL => Behind(LastByte(pkt_curr))
    /\ delivered # <<>> => Behind(LastByte(delivered[Len(delivered)]))

\* p holds n bytes of s, the host's frame f, from byte i on.
Run(p, s, f, i, n) ==
    /\ Len(p) = n
    /\ \A j \in 1 .. n : p[j] = <<s[i + j - 1], f, i + j - 1>>

InStep == slip_state = IF escaped THEN "ESC" ELSE "OK"

\* On a line that loses nothing the decoder is in step with the host, and the packet
\* being assembled reaches up to the byte the host sends next.
Lossless ==
    lost = 0 =>
        /\ InStep
        /\ pkt_curr # NULL =>
              /\ ~idle /\ pkt_curr[1][3] \in 1 .. pos
              /\ Run(pkt_curr, Payload, Frame, pkt_curr[1][3], pos - pkt_curr[1][3])
        /\ \A k \in 1 .. Len(delivered) :
              \E f \in 1 .. Frame : \E i \in 1 .. Len(sent[f]) :
                  Run(delivered[k], sent[f], f, i, Len(sent[f]) - i + 1)

\* Frame f and the n frames before it are undamaged.
Undamaged(f, n) ==
    /\ f \notin damaged
    /\ n >= 1 => f - 1 \notin damaged
    /\ n >= 2 => f - 2 \notin damaged

\* One undamaged frame brings the decoder out of the garbage, the second one empties
\* pkt_curr, the third one is assembled from its first byte on.
Recovery ==
    /\ Undamaged(Frame, 0) =>
          IF idle THEN slip_state = "OK"
          ELSE slip_state = "GARBAGE" \/ InStep \/ (pos = 1 /\ ~escaped)
    /\ Undamaged(Frame, 1) => InStep /\ (idle => pkt_curr = NULL)
    /\ Undamaged(Frame, 2) /\ ~idle =>
          IF pos = 1 THEN pkt_curr = NULL
          ELSE pkt_curr # NULL /\ Run(pkt_curr, Payload, Frame, 1, pos - 1)

Whole ==
    \A f \in 1 .. Frame :
        Complete(f) /\ Undamaged(f, 2) =>
            \E k \in 1 .. Len(delivered) : Run(delivered[k], sent[f], f, 1, Len(sent[f]))

IInv ==
    /\ Typed /\ HostInFrame /\ PoolConserved
    /\ OrderKept /\ StoredBehind
    /\ Lossless /\ Recovery /\ Whole
-----------------------------------------------------------------------------
(* The steps, byte by byte.                                                *)

LEMMA InitIInv == Init => IInv
<1> SUFFICES ASSUME Init PROVE IInv
  OBVIOUS
<1> USE ConstantFacts DEF Init
<1>1. /\ Len(sent) = 0 /\ Len(rx_queue) = 0 /\ Len(delivered) = 0
      /\ sent \in Seq(Payloads) /\ rx_queue \in Seq(Pkts) /\ delivered \in Seq(Pkts)
  BY EmptySeq
<1>2. escaped \in BOOLEAN /\ idle \in BOOLEAN
  BY Zenon
<1>3. Typed
  BY <1>1, <1>2 DEF Typed
<1>4. HostInFrame /\ PoolConserved
  BY <1>1 DEF HostInFrame, PoolConserved, One
<1>5. OrderKept /\ StoredBehind /\ Lossless
  BY <1>1 DEF OrderKept, StoredBehind, Lossless, InStep
<1>6. Recovery /\ Whole
  BY <1>1 DEF Recovery, Whole, Undamaged, InStep, Frame
<1>7. QED BY <1>3, <1>4, <1>5, <1>6 DEF IInv

\* What the decoder makes of the byte c.
Decodes(c, v) ==
    \/ slip_state = "OK" /\ c \notin {"END", "ESC"} /\ v = c
    \/ slip_state = "ESC" /\ c = "ESC_END" /\ v = "END"
    \/ slip_state = "ESC" /\ c = "ESC_ESC" /\ v = "ESC"

Skip ==
    /\ HostAdvance /\ UNCHANGED <<lost, radio, held>>
    /\ UNCHANGED <<pkt_curr, free, rx_queue, delivered, damaged>>
    /\ \/ Discard(LineByte) \/ BadEscape(LineByte) \/ BeginEscape(LineByte)
       \/ EndOfPacket(LineByte) /\ pkt_curr = NULL

Queue ==
    /\ HostAdvance /\ UNCHANGED <<lost, radio, held, slip_state, free, damaged>>
    /\ slip_state = "OK" /\ LineByte = "END" /\ pkt_curr # NULL /\ pkt_curr' = NULL
    /\ rx_queue' = Append(rx_queue, pkt_curr) /\ delivered' = Append(delivered, pkt_curr)

Decode(v) ==
    /\ HostAdvance /\ UNCHANGED <<lost, radio, held, rx_queue, delivered>>
    /\ Decodes(LineByte, v) /\ slip_state' = "OK"

LEMMA ReceiveCases ==
    ASSUME Receive
    PROVE  \/ Skip \/ Queue
           \/ \E v \in Bytes : Decode(v) /\ (NoBuffer \/ NoSpace \/ AddByte(v))
<1>1. HostAdvance /\ UNCHANGED <<lost, radio, held>>
  BY DEF Receive
<1>2. CASE Discard(LineByte) \/ BadEscape(LineByte) \/ BeginEscape(LineByte)
  BY <1>1, <1>2 DEF Skip, Discard, BadEscape, BeginEscape
<1>3. CASE EndOfPacket(LineByte)
  BY <1>1, <1>3 DEF Skip, Queue, EndOfPacket
<1>4. CASE Store(LineByte)
  BY <1>1, <1>4 DEF Store, Decode, Decodes
<1>5. QED BY <1>2, <1>3, <1>4 DEF Receive

\* The bytes of the encoding: the SLIP_END, a SLIP_ESC, or what stands for byte pos.
EndSent ==
    /\ pos = Len(Payload) + 1 /\ ~escaped /\ LineByte = "END"
    /\ idle' /\ ~escaped' /\ pos' = pos

EscSent ==
    /\ pos \in 1 .. Len(Payload) /\ ~escaped /\ LineByte = "ESC" /\ MustEscape(Payload[pos])
    /\ ~idle' /\ escaped' /\ pos' = pos

ByteSent ==
    /\ pos \in 1 .. Len(Payload) /\ ~idle' /\ ~escaped' /\ pos' = pos + 1
    /\ LineByte = IF escaped THEN IF Payload[pos] = "END" THEN "ESC_END" ELSE "ESC_ESC"
                  ELSE Payload[pos]
    /\ escaped <=> MustEscape(Payload[pos])

LEMMA HostFacts ==
    ASSUME Typed, HostInFrame, HostAdvance
    PROVE  /\ sent' = sent /\ ~idle /\ Frame \in 1 .. MaxFrames
           /\ Payload \in Seq(Bytes) /\ Len(Payload) \in Nat \ {0}
           /\ EndSent \/ EscSent \/ ByteSent
<1>1. sent' = sent /\ ~idle /\ Frame \in 1 .. MaxFrames /\ Frame = Len(sent)
  BY DEF HostAdvance, HostInFrame, Frame
<1>2. Payload \in Payloads
  BY <1>1, ElementOfSeq DEF Typed, Payload
<1>3. Payload \in Seq(Bytes) /\ Len(Payload) \in Nat \ {0}
  BY <1>2, ConstantFacts
<1>4. CASE pos > Len(Payload)
  <2>1. pos = Len(Payload) + 1 /\ ~escaped /\ ~(pos <= Len(Payload))
    BY <1>1, <1>3, <1>4 DEF Typed, HostInFrame
  <2>2. LineByte = "END" /\ idle' /\ ~escaped'
    BY <1>4, <2>1 DEF LineByte, HostAdvance
  <2>3. pos' = pos
    BY <2>2 DEF HostAdvance
  <2>4. QED BY <1>1, <1>3, <2>1, <2>2, <2>3 DEF EndSent
<1>5. CASE pos <= Len(Payload) /\ ~escaped /\ MustEscape(Payload[pos])
  <2>1. pos \in 1 .. Len(Payload) /\ ~(pos > Len(Payload))
    BY <1>3, <1>5 DEF Typed
  <2>2. ~idle' /\ escaped'
    BY <1>5, <2>1 DEF HostAdvance
  <2>3. pos' = pos /\ LineByte = "ESC"
    BY <1>5, <2>1, <2>2 DEF HostAdvance, LineByte
  <2>4. QED BY <1>1, <1>3, <1>5, <2>1, <2>2, <2>3 DEF EscSent
<1>6. CASE pos <= Len(Payload) /\ ~escaped /\ ~MustEscape(Payload[pos])
  BY <1>1, <1>3, <1>6 DEF Typed, HostInFrame, HostAdvance, LineByte, ByteSent, MustEscape
<1>7. CASE pos <= Len(Payload) /\ escaped
  BY <1>1, <1>3, <1>7 DEF Typed, HostInFrame, HostAdvance, LineByte, ByteSent, MustEscape
<1>8. pos > Len(Payload) \/ pos <= Len(Payload)
  BY <1>3 DEF Typed
<1>9. QED BY <1>1, <1>3, <1>4, <1>5, <1>6, <1>7, <1>8

\* A value is stored only when the host is done with a byte, and it is that byte if
\* the decoder is in step.
LEMMA DecodeFacts ==
    ASSUME Typed, HostInFrame, NEW v \in Bytes, Decode(v)
    PROVE  /\ ByteSent /\ <<v, Frame, pos>> \in Stored
           /\ InStep => v = Payload[pos]
<1>1. HostAdvance /\ Decodes(LineByte, v)
  BY DEF Decode
<1>2. LineByte \notin {"END", "ESC"}
  BY <1>1 DEF Decodes
<1>3. ByteSent /\ Frame \in 1 .. MaxFrames
  BY <1>1, <1>2, HostFacts DEF EndSent, EscSent
<1>4. InStep => v = Payload[pos]
  BY <1>1, <1>3 DEF InStep, ByteSent, Decodes, MustEscape
<1>5. QED BY <1>3, <1>4 DEF Typed, Stored

LEMMA NextHost ==
    ASSUME Typed, HostInFrame, [Next]_vars
    PROVE  HostInFrame'
<1>1. CASE HostStart
  <2>1. PICK p \in Payloads : sent' = Append(sent, p)
    BY <1>1 DEF HostStart
  <2>2. Len(sent') = Len(sent) + 1 /\ sent'[Len(sent')] = p /\ Len(sent) \in Nat
    BY <2>1, AppendProperties, LenProperties DEF Typed
  <2>3. Len(p) \in Nat \ {0}
    BY ConstantFacts
  <2>4. pos' = 1 /\ ~escaped' /\ ~idle' /\ Len(sent) < MaxFrames
    BY <1>1 DEF HostStart, Frame
  <2>5. QED BY <2>2, <2>3, <2>4, ConstantFacts DEF HostInFrame, Frame, Payload
<1>2. CASE HostAdvance
  <2>1. /\ sent' = sent /\ Frame \in 1 .. MaxFrames /\ Len(Payload) \in Nat
        /\ EndSent \/ EscSent \/ ByteSent
    BY <1>2, HostFacts
  <2>2. Frame' = Frame /\ Payload' = Payload
    BY <2>1 DEF Frame, Payload
  <2>3. QED BY <2>1, <2>2 DEF HostInFrame, EndSent, EscSent, ByteSent
<1>3. CASE UNCHANGED host
  BY <1>3 DEF host, HostInFrame, Frame, Payload
<1>4. QED BY <1>1, <1>2, <1>3
      DEF Next, Receive, LoseByte, RxGet, RxUnref, RadioAlloc, RadioUnref, vars, host

-----------------------------------------------------------------------------
(* Types, and the pool.                                                    *)

LEMMA AddedIsPacket ==
    ASSUME Typed, HostInFrame, NEW v \in Bytes, Decode(v), AddByte(v)
    PROVE  pkt_curr' \in Pkts
<1> USE ConstantFacts
<1>1. <<v, Frame, pos>> \in Stored
  BY DecodeFacts
<1>2. CASE pkt_curr = NULL
  <2>1. pkt_curr' = << <<v, Frame, pos>> >>
    BY <1>2 DEF AddByte
  <2>2. QED BY <1>1, <2>1 DEF Pkts
<1>3. CASE pkt_curr # NULL
  <2>1. /\ pkt_curr' = Append(pkt_curr, <<v, Frame, pos>>)
        /\ pkt_curr \in Seq(Stored) /\ Len(pkt_curr) < Capacity
    BY <1>3 DEF AddByte, Pkts, Typed
  <2>2. pkt_curr' \in Seq(Stored) /\ Len(pkt_curr') = Len(pkt_curr) + 1 /\ Len(pkt_curr) \in Nat
    BY <1>1, <2>1, AppendProperties, LenProperties
  <2>3. QED BY <2>1, <2>2 DEF Pkts
<1>4. QED BY <1>2, <1>3

LEMMA NextTyped ==
    ASSUME Typed, HostInFrame, [Next]_vars
    PROVE  Typed'
<1> USE ConstantFacts DEF Typed
<1>1. CASE HostStart
  <2>1. PICK p \in Payloads : sent' = Append(sent, p)
    BY <1>1 DEF HostStart
  <2>2. sent' \in Seq(Payloads) /\ Len(sent') = Len(sent) + 1 /\ Len(sent) \in Nat
    BY <2>1, AppendProperties, LenProperties
  <2>3. Len(sent) < MaxFrames /\ escaped' \in BOOLEAN /\ idle' \in BOOLEAN
    BY <1>1, Zenon DEF HostStart, Frame
  <2>4. damaged' \subseteq 1 .. Len(sent')
    BY <1>1, <2>2 DEF HostStart
  <2>5. QED BY <1>1, <2>2, <2>3, <2>4 DEF HostStart
<1>2. ASSUME HostAdvance
      PROVE  /\ sent' = sent /\ pos' \in Nat \ {0} /\ Frame \in 1 .. Len(sent)
             /\ escaped' \in BOOLEAN /\ idle' \in BOOLEAN
  <2>1. sent' = sent /\ Frame \in 1 .. Len(sent)
    BY <1>2, HostFacts DEF Frame
  <2>2. pos' \in Nat \ {0}
    BY <1>2, HostFacts DEF EndSent, EscSent, ByteSent
  <2>3. idle' \in BOOLEAN
    BY <1>2 DEF HostAdvance
  <2>4. escaped' \in BOOLEAN
    BY <1>2 DEF HostAdvance
  <2>5. QED BY <2>1, <2>2, <2>3, <2>4
<1>3. CASE Skip
  <2>1. slip_state' \in {"GARBAGE", "OK", "ESC"}
    BY <1>3 DEF Skip, Discard, BadEscape, BeginEscape, EndOfPacket
  <2>2. HostAdvance /\ UNCHANGED <<lost, radio, held, pkt_curr, free, rx_queue, delivered, damaged>>
    BY <1>3 DEF Skip
  <2>3. QED BY <1>2, <2>1, <2>2
<1>4. CASE Queue
  <2>1. /\ HostAdvance /\ UNCHANGED <<lost, radio, held, slip_state, free, damaged>>
        /\ pkt_curr' = NULL /\ pkt_curr \in Pkts
        /\ rx_queue' = Append(rx_queue, pkt_curr) /\ delivered' = Append(delivered, pkt_curr)
    BY <1>4 DEF Queue
  <2>2. rx_queue' \in Seq(Pkts) /\ delivered' \in Seq(Pkts)
    BY <2>1, AppendProperties
  <2>3. QED BY <1>2, <2>1, <2>2
<1>5. ASSUME NEW v \in Bytes, Decode(v), NoBuffer \/ NoSpace \/ AddByte(v)
      PROVE  Typed'
  <2>1. /\ HostAdvance /\ UNCHANGED <<lost, radio, held, rx_queue, delivered>>
        /\ slip_state' = "OK" /\ <<v, Frame, pos>> \in Stored
    BY <1>5, DecodeFacts DEF Decode
  <2>2. damaged' \subseteq 1 .. Len(sent')
    <3>1. damaged' \subseteq damaged \cup {Frame}
      BY <1>5, Zenon DEF NoBuffer, NoSpace, AddByte
    <3>2. QED BY <1>2, <2>1, <3>1
  <2>5. free' \in Nat
    BY <1>5 DEF NoBuffer, NoSpace, AddByte
  <2>3. pkt_curr' \in Pkts \cup {NULL}
    BY <1>5, AddedIsPacket DEF NoBuffer, NoSpace
  <2>6. QED BY <1>2, <2>1, <2>2, <2>3, <2>5
<1>6. CASE LoseByte
  <2>1. HostAdvance /\ lost' \in 0 .. MaxLost /\ damaged' = damaged \cup {Frame}
    BY <1>6 DEF LoseByte
  <2>2. UNCHANGED <<slip_state, pkt_curr, free, radio, rx_queue, held, delivered>>
    BY <1>6 DEF LoseByte
  <2>3. damaged' \subseteq 1 .. Len(sent')
    BY <1>2, <2>1
  <2>4. QED BY <1>2, <2>1, <2>2, <2>3
<1>7. CASE RxGet
  <2>1. held' \in Pkts /\ rx_queue' \in Seq(Pkts)
    BY <1>7, HeadTailProperties DEF RxGet
  <2>2. UNCHANGED <<sent, pos, escaped, idle, lost, slip_state, pkt_curr, free, radio,
                    delivered, damaged>>
    BY <1>7 DEF RxGet, host
  <2>3. QED BY <2>1, <2>2
<1>8. CASE RxUnref \/ RadioAlloc \/ RadioUnref \/ UNCHANGED vars
  <2>1. UNCHANGED <<sent, pos, escaped, idle, lost, slip_state, pkt_curr, rx_queue,
                    delivered, damaged>>
    BY <1>8 DEF RxUnref, RadioAlloc, RadioUnref, vars, host
  <2>2. free' \in Nat /\ radio' \in Nat /\ held' \in Pkts \cup {NULL}
    BY <1>8 DEF RxUnref, RadioAlloc, RadioUnref, vars
  <2>3. QED BY <2>1, <2>2
<1>9. QED
  BY <1>1, <1>3, <1>4, <1>5, <1>6, <1>7, <1>8, ReceiveCases DEF Next

LEMMA NextPool ==
    ASSUME Typed, HostInFrame, PoolConserved, [Next]_vars
    PROVE  PoolConserved'
<1> DEFINE curr == One(pkt_curr # NULL)
           work == One(held # NULL)
<1>0. /\ Len(rx_queue) \in Nat /\ free \in Nat /\ radio \in Nat
      /\ curr \in Nat /\ work \in Nat
      /\ free + radio + curr + Len(rx_queue) + work = PoolSize
  BY LenProperties DEF Typed, PoolConserved, One
<1>1. CASE UNCHANGED <<free, radio, pkt_curr, rx_queue, held>>
  BY <1>1 DEF PoolConserved
<1>2. CASE Queue
  <2>1. Len(rx_queue') = Len(rx_queue) + 1
    BY <1>2, AppendProperties DEF Queue, Typed
  <2>2. free' = free /\ radio' = radio /\ curr = 1 /\ curr' = 0 /\ work' = work
    BY <1>2 DEF Queue, One
  <2>3. QED BY <1>0, <2>1, <2>2 DEF PoolConserved
<1>3. ASSUME NEW v \in Bytes, Decode(v), NoBuffer \/ NoSpace \/ AddByte(v)
      PROVE  PoolConserved'
  <2>1. radio' = radio /\ rx_queue' = rx_queue /\ work' = work
    BY <1>3 DEF Decode
  <2>2. CASE NoBuffer
    <3>1. free' = free /\ curr' = curr
      BY <2>2 DEF NoBuffer
    <3>2. QED BY <1>0, <2>1, <3>1 DEF PoolConserved
  <2>3. CASE NoSpace
    <3>1. free' = free + 1 /\ curr = 1 /\ curr' = 0
      BY <2>3 DEF NoSpace, One
    <3>2. QED BY <1>0, <2>1, <3>1 DEF PoolConserved
  <2>4. CASE AddByte(v)
    <3>1. curr' = 1
      BY <1>3, <2>4, AddedIsPacket, ConstantFacts DEF One
    <3>2. CASE pkt_curr = NULL
      <4>1. free' = free - 1 /\ curr = 0
        BY <2>4, <3>2 DEF AddByte, One
      <4>2. QED BY <1>0, <2>1, <3>1, <4>1 DEF PoolConserved
    <3>3. CASE pkt_curr # NULL
      <4>1. free' = free /\ curr = 1
        BY <2>4, <3>3 DEF AddByte, One
      <4>2. QED BY <1>0, <2>1, <3>1, <4>1 DEF PoolConserved
    <3>4. QED BY <3>2, <3>3
  <2>5. QED BY <1>3, <2>2, <2>3, <2>4
<1>4. CASE RxGet
  <2>1. held' \in Pkts
    BY <1>4, HeadTailProperties DEF RxGet, Typed
  <2>2. Len(rx_queue') = Len(rx_queue) - 1
    BY <1>4, HeadTailProperties DEF RxGet, Typed
  <2>3. free' = free /\ radio' = radio /\ curr' = curr /\ work = 0 /\ work' = 1
    BY <1>4, <2>1, ConstantFacts DEF RxGet, One
  <2>4. QED BY <1>0, <2>2, <2>3 DEF PoolConserved
<1>5. CASE RxUnref
  <2>1. /\ free' = free + 1 /\ radio' = radio /\ curr' = curr /\ rx_queue' = rx_queue
        /\ work = 1 /\ work' = 0
    BY <1>5 DEF RxUnref, One
  <2>2. QED BY <1>0, <2>1 DEF PoolConserved
<1>6. CASE RadioAlloc \/ RadioUnref
  <2>1. curr' = curr /\ rx_queue' = rx_queue /\ work' = work
    BY <1>6 DEF RadioAlloc, RadioUnref
  <2>2. free' + radio' = free + radio /\ free' \in Nat /\ radio' \in Nat
    <3>1. free \in Nat /\ radio \in Nat
      BY <1>0
    <3>2. CASE RadioAlloc
      BY <3>1, <3>2 DEF RadioAlloc
    <3>3. CASE RadioUnref
      BY <3>1, <3>3 DEF RadioUnref
    <3>4. QED BY <1>6, <3>2, <3>3
  <2>3. QED BY <1>0, <2>1, <2>2 DEF PoolConserved
<1>7. QED
  BY <1>1, <1>2, <1>3, <1>4, <1>5, <1>6, ReceiveCases DEF Next, HostStart, Skip, LoseByte, vars

-----------------------------------------------------------------------------
(* Order.                                                                  *)

\* What is behind the host stays behind it, and what is stored now is behind it then.
LEMMA BehindStays ==
    ASSUME Typed, HostInFrame, HostStart \/ HostAdvance \/ UNCHANGED host
    PROVE  \A b \in Stored :
              Behind(b) => BehindAt(b, Len(sent'), idle', pos')
<1> SUFFICES ASSUME NEW b \in Stored, Behind(b)
             PROVE  BehindAt(b, Len(sent'), idle', pos')
  OBVIOUS
<1>1. b[2] \in Nat /\ b[3] \in Nat /\ Len(sent) \in Nat /\ pos \in Nat
  BY ConstantFacts, LenProperties DEF Stored, Typed
<1>2. CASE HostStart
  <2>1. Len(sent') = Len(sent) + 1 /\ idle
    BY <1>2, AppendProperties DEF HostStart, Typed
  <2>2. QED BY <1>1, <2>1 DEF Behind, BehindAt, Frame
<1>3. CASE HostAdvance
  <2>1. Len(sent') = Len(sent) /\ ~idle /\ (EndSent \/ EscSent \/ ByteSent)
    BY <1>3, HostFacts
  <2>2. Len(sent') = Len(sent) /\ ~idle
    BY <1>3, HostFacts
  <2>3. QED BY <1>1, <2>1, <2>2 DEF Behind, BehindAt, Frame, EndSent, EscSent, ByteSent
<1>4. CASE UNCHANGED host
  BY <1>4 DEF host, Behind, BehindAt, Frame
<1>5. QED BY <1>2, <1>3, <1>4

LEMMA PacketFacts ==
    ASSUME NEW p \in Pkts
    PROVE  /\ p \in Seq(Stored) /\ Len(p) \in Nat \ {0}
           /\ \A k \in 1 .. Len(p) : p[k] \in Stored
           /\ p[1] \in Stored /\ LastByte(p) \in Stored
BY ConstantFacts, ElementOfSeq DEF Pkts, LastByte

\* A byte appended to a packet it is later than.
LEMMA AppendIncreasing ==
    ASSUME NEW p \in Pkts, NEW b \in Stored, Increasing(p), Later(LastByte(p), b)
    PROVE  /\ Increasing(Append(p, b))
           /\ LastByte(Append(p, b)) = b /\ Append(p, b)[1] = p[1]
<1> DEFINE q == Append(p, b)
<1>1. /\ p \in Seq(Stored) /\ Len(p) \in Nat \ {0} /\ Len(q) = Len(p) + 1
      /\ \A k \in 1 .. Len(p) : q[k] = p[k]
      /\ q[Len(p) + 1] = b
  BY PacketFacts, AppendProperties
<1>2. ASSUME NEW k \in 1 .. Len(q) - 1
      PROVE  Later(q[k], q[k + 1])
  <2>1. CASE k = Len(p)
    BY <1>1, <2>1 DEF LastByte
  <2>2. CASE k # Len(p)
    <3>1. k \in 1 .. Len(p) - 1 /\ k \in 1 .. Len(p) /\ k + 1 \in 1 .. Len(p)
      BY <1>1, <2>2
    <3>2. QED BY <1>1, <3>1 DEF Increasing
  <2>3. QED BY <2>1, <2>2
<1>3. QED BY <1>1, <1>2 DEF Increasing, LastByte

LEMMA NextOrder ==
    ASSUME Typed, HostInFrame, OrderKept, StoredBehind, [Next]_vars
    PROVE  OrderKept' /\ StoredBehind'
<1>1. /\ pkt_curr # NULL => pkt_curr \in Pkts /\ LastByte(pkt_curr) \in Stored
      /\ delivered # <<>> => LastByte(delivered[Len(delivered)]) \in Stored
  <2>1. delivered # <<>> => delivered[Len(delivered)] \in Pkts
    BY EmptySeq, ElementOfSeq DEF Typed
  <2>2. QED BY <2>1, PacketFacts DEF Typed
<1>2. HostStart \/ HostAdvance \/ UNCHANGED host
  BY DEF Next, Receive, LoseByte, RxGet, RxUnref, RadioAlloc, RadioUnref, vars, host
<1>3. /\ pkt_curr # NULL => BehindAt(LastByte(pkt_curr), Len(sent'), idle', pos')
      /\ delivered # <<>> =>
            BehindAt(LastByte(delivered[Len(delivered)]), Len(sent'), idle', pos')
  BY <1>1, <1>2, BehindStays DEF StoredBehind
<1>4. CASE UNCHANGED <<pkt_curr, delivered>>
  BY <1>3, <1>4 DEF StoredBehind, Behind, Frame, OrderKept
<1>5. CASE Queue
  <2>1. /\ Len(delivered') = Len(delivered) + 1 /\ Len(delivered) \in Nat
        /\ \A k \in 1 .. Len(delivered) : delivered'[k] = delivered[k]
        /\ delivered'[Len(delivered')] = pkt_curr
        /\ pkt_curr # NULL /\ pkt_curr' = NULL
    BY <1>1, <1>5, AppendProperties, LenProperties DEF Queue, Typed
  <2>2. StoredBehind'
    BY <1>3, <2>1 DEF StoredBehind, Behind, Frame
  <2>3. \A k \in 1 .. Len(delivered') : k \in 1 .. Len(delivered) \/ k = Len(delivered')
    BY <2>1
  <2>4. \A k \in 1 .. Len(delivered') : Increasing(delivered'[k])
    BY <2>1, <2>3 DEF OrderKept
  <2>5. ASSUME NEW k \in 1 .. Len(delivered') - 1
        PROVE  Later(LastByte(delivered'[k]), delivered'[k + 1][1])
    <3>1. CASE k = Len(delivered)
      <4>1. delivered # <<>> /\ k \in 1 .. Len(delivered)
        BY <2>1, <3>1, EmptySeq DEF Typed
      <4>2. QED BY <2>1, <3>1, <4>1 DEF OrderKept, LastByte
    <3>2. CASE k # Len(delivered)
      <4>1. k \in 1 .. Len(delivered) - 1 /\ k \in 1 .. Len(delivered) /\ k + 1 \in 1 .. Len(delivered)
        BY <2>1, <3>2
      <4>2. QED BY <2>1, <4>1 DEF OrderKept, LastByte
    <3>3. QED BY <3>1, <3>2
  <2>6. QED BY <2>1, <2>2, <2>4, <2>5 DEF OrderKept, LastByte
<1>6. ASSUME NEW v \in Bytes, Decode(v), NoBuffer \/ NoSpace \/ AddByte(v)
      PROVE  OrderKept' /\ StoredBehind'
  <2> DEFINE b == <<v, Frame, pos>>
  <2>1. /\ delivered' = delivered /\ b \in Stored
        /\ HostAdvance /\ ByteSent
    BY <1>6, DecodeFacts DEF Decode
  <2>2. /\ Len(sent') = Frame /\ ~idle /\ ~idle' /\ pos' = pos + 1 /\ pos \in Nat
        /\ b[2] = Frame /\ b[3] = pos
    BY <2>1, HostFacts DEF ByteSent, Frame, Typed
  <2>3. BehindAt(b, Len(sent'), idle', pos')
    BY <2>2 DEF BehindAt
  <2>4. \A a \in Stored : Behind(a) => Later(a, b)
    BY <2>2 DEF Behind, BehindAt, Later
  <2>5. CASE NoBuffer \/ NoSpace
    <3>1. pkt_curr' = NULL
      BY <2>5 DEF NoBuffer, NoSpace
    <3>2. QED BY <1>3, <2>1, <3>1 DEF StoredBehind, Behind, Frame, OrderKept
  <2>6. CASE AddByte(v) /\ pkt_curr = NULL
    <3>1. pkt_curr' = <<b>>
      BY <2>6 DEF AddByte
    <3>2. Len(pkt_curr') = 1 /\ pkt_curr'[1] = b /\ LastByte(pkt_curr') = b
      BY <3>1 DEF LastByte
    <3>3. Increasing(pkt_curr')
      BY <3>2 DEF Increasing
    <3>4. delivered # <<>> => Later(LastByte(delivered[Len(delivered)]), b)
      BY <1>1, <2>4 DEF StoredBehind
    <3>5. QED
      BY <1>3, <2>1, <2>3, <3>2, <3>3, <3>4
         DEF StoredBehind, Behind, Frame, OrderKept, LastByte
  <2>7. CASE AddByte(v) /\ pkt_curr # NULL
    <3>1. pkt_curr' = Append(pkt_curr, b) /\ pkt_curr \in Pkts
      BY <1>1, <2>7 DEF AddByte
    <3>2. Increasing(pkt_curr) /\ Later(LastByte(pkt_curr), b)
      BY <1>1, <2>4, <2>7 DEF StoredBehind, OrderKept
    <3>3. Increasing(pkt_curr') /\ LastByte(pkt_curr') = b /\ pkt_curr'[1] = pkt_curr[1]
      BY <2>1, <3>1, <3>2, AppendIncreasing
    <3>4. QED
      BY <1>3, <2>1, <2>3, <2>7, <3>3 DEF StoredBehind, Behind, Frame, OrderKept, LastByte
  <2>8. QED BY <1>6, <2>5, <2>6, <2>7
<1>7. QED
  BY <1>4, <1>5, <1>6, ReceiveCases
     DEF Next, HostStart, Skip, LoseByte, RxGet, RxUnref, RadioAlloc, RadioUnref, vars

-----------------------------------------------------------------------------
(* Which bytes of which frame a packet holds.                              *)

LEMMA StartFacts ==
    ASSUME Typed, HostInFrame, HostStart
    PROVE  /\ Len(sent) \in Nat /\ Frame' = Frame + 1 /\ Frame = Len(sent)
           /\ \A f \in 1 .. Len(sent) : sent'[f] = sent[f]
           /\ idle /\ ~escaped /\ pos' = 1 /\ ~escaped' /\ ~idle'
           /\ UNCHANGED <<lost, slip_state, pkt_curr, delivered, damaged>>
<1>1. PICK p \in Payloads : sent' = Append(sent, p)
  BY DEF HostStart
<1>2. /\ Len(sent) \in Nat /\ Len(sent') = Len(sent) + 1
      /\ \A f \in 1 .. Len(sent) : sent'[f] = sent[f]
  BY <1>1, AppendProperties, LenProperties DEF Typed
<1>3. idle /\ pos' = 1 /\ ~escaped' /\ ~idle'
  BY DEF HostStart
<1>4. ~escaped
  BY <1>3 DEF HostInFrame
<1>5. UNCHANGED <<lost, slip_state, pkt_curr, delivered, damaged>>
  BY DEF HostStart
<1>6. QED BY <1>2, <1>3, <1>4, <1>5 DEF Frame

LEMMA AppendRun ==
    ASSUME NEW p \in Pkts, NEW s, NEW f, NEW i \in Nat \ {0}, NEW n \in Nat,
           Run(p, s, f, i, n), NEW b \in Stored, b = <<s[i + n], f, i + n>>
    PROVE  Run(Append(p, b), s, f, i, n + 1) /\ Append(p, b)[1] = p[1]
<1> DEFINE q == Append(p, b)
<1>1. /\ Len(p) \in Nat \ {0} /\ Len(p) = n /\ Len(q) = Len(p) + 1
      /\ \A k \in 1 .. Len(p) : q[k] = p[k]
      /\ q[Len(p) + 1] = b
  BY PacketFacts, AppendProperties DEF Run
<1> HIDE DEF q
<1>2. ASSUME NEW j \in 1 .. n + 1
      PROVE  q[j] = <<s[i + j - 1], f, i + j - 1>>
  <2>1. CASE j = n + 1
    <3>1. i + j - 1 = i + n
      BY <2>1
    <3>2. QED BY <1>1, <2>1, <3>1
  <2>2. CASE j # n + 1
    <3>1. j \in 1 .. n
      BY <2>2
    <3>2. QED BY <1>1, <3>1 DEF Run
  <2>3. QED BY <2>1, <2>2
<1>3. Run(q, s, f, i, n + 1) /\ q[1] = p[1]
  BY <1>1, <1>2 DEF Run
<1>4. QED BY <1>3 DEF q

LEMMA SingleRun ==
    ASSUME NEW s, NEW f, NEW i \in Nat
    PROVE  Run(<< <<s[i], f, i>> >>, s, f, i, 1)
<1> DEFINE p == << <<s[i], f, i>> >>
<1>1. Len(p) = 1 /\ p[1] = <<s[i], f, i>>
  OBVIOUS
<1>2. \A j \in 1 .. 1 : j = 1 /\ i + j - 1 = i
  OBVIOUS
<1>3. QED BY <1>1, <1>2 DEF Run

\* In step, a byte that is not stored is a SLIP_ESC or the end of nothing.
LEMMA SkipInStep ==
    ASSUME Typed, HostInFrame, Skip, InStep
    PROVE  /\ InStep' /\ pkt_curr' = pkt_curr /\ sent' = sent
           /\ \/ EscSent
              \/ EndSent /\ pkt_curr = NULL
<1>1. sent' = sent /\ (EndSent \/ EscSent \/ ByteSent)
  BY HostFacts DEF Skip
<1>2. sent' = sent /\ pkt_curr' = pkt_curr /\ slip_state # "GARBAGE"
  BY HostFacts DEF Skip, InStep
<1>3. CASE BadEscape(LineByte)
  BY <1>1, <1>3 DEF BadEscape, InStep, ByteSent, EscSent, EndSent
<1>4. CASE BeginEscape(LineByte)
  <2>1. slip_state = "OK" /\ LineByte = "ESC" /\ slip_state' = "ESC" /\ ~escaped
    BY <1>4 DEF BeginEscape, InStep
  <2>2. EscSent
    BY <1>1, <2>1 DEF EndSent, ByteSent, MustEscape
  <2>3. QED BY <1>2, <2>1, <2>2 DEF InStep, EscSent
<1>5. CASE EndOfPacket(LineByte) /\ pkt_curr = NULL
  <2>1. slip_state = "OK" /\ LineByte = "END" /\ slip_state' = "OK" /\ ~escaped
    BY <1>5 DEF EndOfPacket, InStep
  <2>2. EndSent
    BY <1>1, <2>1 DEF EscSent, ByteSent, MustEscape
  <2>3. QED BY <1>2, <1>5, <2>1, <2>2 DEF InStep, EndSent
<1>6. QED BY <1>2, <1>3, <1>4, <1>5 DEF Skip, Discard

LEMMA QueueFacts ==
    ASSUME Typed, HostInFrame, Queue
    PROVE  /\ EndSent /\ sent' = sent /\ slip_state = "OK" /\ slip_state' = "OK"
           /\ pkt_curr \in Pkts /\ pkt_curr' = NULL
           /\ Len(delivered') = Len(delivered) + 1 /\ Len(delivered) \in Nat
           /\ \A k \in 1 .. Len(delivered) : delivered'[k] = delivered[k]
           /\ delivered'[Len(delivered')] = pkt_curr
<1>1. sent' = sent /\ LineByte = "END"
  BY HostFacts DEF Queue
<1>2. EndSent
  BY <1>1, HostFacts DEF Queue, EscSent, ByteSent, MustEscape
<1>3. /\ slip_state = "OK" /\ slip_state' = "OK" /\ pkt_curr \in Pkts /\ pkt_curr' = NULL
      /\ delivered' = Append(delivered, pkt_curr) /\ delivered \in Seq(Pkts)
  BY DEF Queue, Typed
<1>4. QED BY <1>1, <1>2, <1>3, AppendProperties, LenProperties

LEMMA NextLossless ==
    ASSUME Typed, HostInFrame, Lossless, [Next]_vars
    PROVE  Lossless'
<1>1. CASE HostStart
  <2>1. ASSUME lost = 0 PROVE pkt_curr = NULL /\ InStep'
    BY <1>1, <2>1, StartFacts DEF Lossless, InStep
  <2>2. ASSUME lost = 0, NEW k \in 1 .. Len(delivered)
        PROVE  \E f \in 1 .. Frame' : \E i \in 1 .. Len(sent'[f]) :
                  Run(delivered[k], sent'[f], f, i, Len(sent'[f]) - i + 1)
    <3>1. PICK f \in 1 .. Frame : \E i \in 1 .. Len(sent[f]) :
                  Run(delivered[k], sent[f], f, i, Len(sent[f]) - i + 1)
      BY <2>2 DEF Lossless
    <3>2. sent'[f] = sent[f] /\ f \in 1 .. Frame'
      BY <1>1, StartFacts
    <3>3. QED BY <3>1, <3>2
  <2>3. QED BY <1>1, <2>1, <2>2, StartFacts DEF Lossless
<1>2. CASE Skip
  <2>1. /\ lost' = lost /\ pkt_curr' = pkt_curr /\ delivered' = delivered
        /\ sent' = sent /\ Frame' = Frame /\ Payload' = Payload
    BY <1>2, HostFacts DEF Skip, Frame, Payload
  <2>2. SUFFICES ASSUME lost = 0 PROVE InStep' /\ (pkt_curr # NULL => ~idle' /\ pos' = pos)
    BY <2>1 DEF Lossless
  <2>3. QED BY <1>2, <2>2, SkipInStep DEF Lossless, EscSent
<1>3. CASE Queue
  <2>1. lost' = lost /\ Frame' = Frame /\ Payload' = Payload
    BY <1>3, QueueFacts DEF Queue, Frame, Payload
  <2>2. Frame \in 1 .. MaxFrames /\ Frame \in Nat /\ Len(Payload) \in Nat \ {0}
    BY <1>3, HostFacts, ConstantFacts DEF Queue
  <2>3. SUFFICES ASSUME lost = 0
                 PROVE  /\ InStep'
                        /\ \A k \in 1 .. Len(delivered') :
                              \E f \in 1 .. Frame : \E i \in 1 .. Len(sent[f]) :
                                 Run(delivered'[k], sent[f], f, i, Len(sent[f]) - i + 1)
    BY <1>3, <2>1, QueueFacts DEF Lossless
  <2>4. InStep'
    BY <1>3, QueueFacts DEF InStep, EndSent
  <2>5. ASSUME NEW k \in 1 .. Len(delivered')
        PROVE  \E f \in 1 .. Frame : \E i \in 1 .. Len(sent[f]) :
                                 Run(delivered'[k], sent[f], f, i, Len(sent[f]) - i + 1)
    <3>1. CASE k \in 1 .. Len(delivered)
      BY <1>3, <2>3, <3>1, QueueFacts DEF Lossless
    <3>2. CASE k = Len(delivered')
      <4> DEFINE i == pkt_curr[1][3]
      <4>1. pkt_curr \in Pkts /\ pkt_curr # NULL /\ delivered'[k] = pkt_curr
        BY <1>3, <3>2, QueueFacts, ConstantFacts
      <4>2. i \in 1 .. pos /\ Run(pkt_curr, Payload, Frame, i, pos - i)
        BY <2>3, <4>1 DEF Lossless
      <4>3. Len(pkt_curr) \in Nat \ {0} /\ Len(pkt_curr) = pos - i
        BY <4>1, <4>2, PacketFacts DEF Run
      <4>4. pos = Len(Payload) + 1
        BY <1>3, QueueFacts DEF EndSent
      <4> HIDE DEF i
      <4>5. i \in 1 .. Len(Payload) /\ pos - i = Len(Payload) - i + 1
        BY <2>2, <4>2, <4>3, <4>4
      <4>6. Payload = sent[Frame] /\ Frame \in 1 .. Frame
        BY <2>2 DEF Payload
      <4>7. QED BY <4>1, <4>2, <4>5, <4>6
    <3>3. QED BY <1>3, <3>1, <3>2, QueueFacts
  <2>6. QED BY <2>4, <2>5
<1>4. ASSUME NEW v \in Bytes, Decode(v), NoBuffer \/ NoSpace \/ AddByte(v)
      PROVE  Lossless'
  <2> DEFINE b == <<v, Frame, pos>>
             i == pkt_curr[1][3]
  <2>1. /\ lost' = lost /\ delivered' = delivered /\ sent' = sent
        /\ Frame' = Frame /\ Payload' = Payload /\ b \in Stored /\ slip_state' = "OK"
        /\ ~idle' /\ ~escaped' /\ pos' = pos + 1 /\ pos \in Nat \ {0}
    BY <1>4, HostFacts, DecodeFacts DEF Decode, Frame, Payload, ByteSent, Typed
  <2>2. InStep'
    BY <2>1 DEF InStep
  <2>9. lost = 0 => \A k \in 1 .. Len(delivered') :
              \E f \in 1 .. Frame' : \E j \in 1 .. Len(sent'[f]) :
                  Run(delivered'[k], sent'[f], f, j, Len(sent'[f]) - j + 1)
    BY <2>1 DEF Lossless
  <2>3. SUFFICES ASSUME lost = 0, pkt_curr' # NULL
                 PROVE  /\ pkt_curr'[1][3] \in 1 .. pos'
                        /\ Run(pkt_curr', Payload', Frame', pkt_curr'[1][3], pos' - pkt_curr'[1][3])
    BY <2>1, <2>2, <2>9 DEF Lossless
  <2>4. AddByte(v)
    BY <1>4, <2>3 DEF NoBuffer, NoSpace
  <2>5. v = Payload[pos]
    BY <1>4, <2>3, DecodeFacts DEF Lossless
  <2>6. CASE pkt_curr = NULL
    <3>1. pkt_curr' = <<b>>
      BY <2>4, <2>6 DEF AddByte
    <3>2. pkt_curr'[1][3] = pos
      BY <3>1
    <3>3. Run(pkt_curr', Payload, Frame, pos, 1)
      BY <2>1, <2>5, <3>1, SingleRun
    <3>4. pos + 1 - pos = 1 /\ pos \in 1 .. pos + 1
      BY <2>1
    <3>5. QED BY <2>1, <3>2, <3>3, <3>4
  <2>7. CASE pkt_curr # NULL
    <3>1. pkt_curr' = Append(pkt_curr, b) /\ pkt_curr \in Pkts
      BY <2>4, <2>7 DEF AddByte, Typed
    <3>2. i \in 1 .. pos /\ Run(pkt_curr, Payload, Frame, i, pos - i)
      BY <2>3, <2>7 DEF Lossless
    <3> HIDE DEF i
    <3>3. i \in Nat \ {0} /\ pos - i \in Nat /\ i + (pos - i) = pos /\ pos + 1 - i = (pos - i) + 1
      BY <2>1, <3>2
    <3>4. Run(pkt_curr', Payload, Frame, i, (pos - i) + 1) /\ pkt_curr'[1] = pkt_curr[1]
      BY <2>1, <2>5, <3>1, <3>2, <3>3, AppendRun
    <3>5. pkt_curr'[1][3] = i
      BY <3>4 DEF i
    <3>6. i \in 1 .. pos + 1
      BY <2>1, <3>2
    <3>7. QED BY <2>1, <3>3, <3>4, <3>5, <3>6
  <2>8. QED BY <2>6, <2>7
<1>5. CASE LoseByte
  <2>1. lost' # 0
    BY <1>5 DEF LoseByte, Typed
  <2>2. QED BY <2>1 DEF Lossless
<1>6. CASE RxGet \/ RxUnref \/ RadioAlloc \/ RadioUnref \/ UNCHANGED vars
  <2>1. UNCHANGED <<sent, pos, escaped, idle, lost, slip_state, pkt_curr, delivered>>
    BY <1>6 DEF RxGet, RxUnref, RadioAlloc, RadioUnref, vars, host
  <2>2. QED BY <2>1 DEF Lossless, InStep, Frame, Payload
<1>7. QED
  BY <1>1, <1>2, <1>3, <1>4, <1>5, <1>6, ReceiveCases DEF Next
-----------------------------------------------------------------------------
(* Recovery after damage.                                                  *)

\* What does not touch the host, the decoder and the packets queued.
LEMMA QuietFacts ==
    ASSUME RxGet \/ RxUnref \/ RadioAlloc \/ RadioUnref \/ UNCHANGED vars
    PROVE  UNCHANGED <<sent, pos, escaped, idle, lost, slip_state, pkt_curr, delivered, damaged>>
BY DEF RxGet, RxUnref, RadioAlloc, RadioUnref, vars, host

\* Whatever state it is in, the decoder does not leave the garbage within a frame.
LEMMA SkipAnyhow ==
    ASSUME Typed, HostInFrame, Skip,
           slip_state = "GARBAGE" \/ InStep \/ (pos = 1 /\ ~escaped)
    PROVE  /\ idle' => slip_state' = "OK"
           /\ ~idle' => slip_state' = "GARBAGE" \/ InStep'
<1>1. Len(Payload) \in Nat \ {0} /\ pos \in Nat
  BY HostFacts DEF Skip, Typed
<1>2. CASE InStep
  BY <1>2, SkipInStep DEF InStep, EscSent, EndSent
<1>3. CASE EndSent
  <2>1. pos # 1 /\ LineByte = "END" /\ ~escaped /\ idle'
    BY <1>1, <1>3 DEF EndSent
  <2>2. CASE slip_state = "GARBAGE"
    BY <2>1, <2>2 DEF Skip, Discard, BadEscape, BeginEscape, EndOfPacket
  <2>3. QED BY <1>2, <2>1, <2>2
<1>4. CASE EscSent \/ ByteSent
  <2>1. LineByte # "END" /\ ~idle'
    BY <1>4 DEF EscSent, ByteSent, MustEscape
  <2>2. CASE Discard(LineByte) \/ BadEscape(LineByte)
    BY <2>1, <2>2 DEF Discard, BadEscape
  <2>3. CASE BeginEscape(LineByte)
    <3>1. EscSent /\ slip_state' = "ESC"
      BY <1>4, <2>3 DEF BeginEscape, ByteSent, MustEscape
    <3>2. QED BY <2>1, <3>1 DEF EscSent, InStep
  <2>4. QED BY <2>1, <2>2, <2>3 DEF Skip, EndOfPacket
<1>5. QED BY <1>3, <1>4, HostFacts DEF Skip

LEMMA NextRecovery ==
    ASSUME Typed, HostInFrame, Recovery, [Next]_vars
    PROVE  Recovery'
<1>1. CASE HostStart
  <2>1. Frame' \notin damaged /\ Frame' - 1 = Frame /\ Frame' - 2 = Frame - 1 /\ Frame \in Nat
    BY <1>1, StartFacts DEF Typed
  <2>2. damaged' = damaged /\ slip_state' = slip_state /\ pkt_curr' = pkt_curr
    BY <1>1, StartFacts
  <2>3. Undamaged(Frame, 0) => slip_state = "OK"
    BY <1>1, StartFacts DEF Recovery
  <2>4. Undamaged(Frame, 1) => pkt_curr = NULL
    BY <1>1, StartFacts DEF Recovery
  <2>5. Frame' - 1 \notin damaged => Undamaged(Frame, 0)
    BY <2>1 DEF Undamaged
  <2>6. Frame' - 1 \notin damaged /\ Frame' - 2 \notin damaged => Undamaged(Frame, 1)
    BY <2>1 DEF Undamaged
  <2>7. idle' = FALSE /\ ~escaped' /\ pos' = 1
    BY <1>1, StartFacts DEF HostStart
  <2>8. Undamaged(Frame, 1)' => InStep'
    BY <2>2, <2>3, <2>5, <2>7 DEF Undamaged, InStep
  <2>9. Undamaged(Frame, 2)' => pkt_curr' = NULL
    BY <2>2, <2>4, <2>6 DEF Undamaged
  <2>10. QED BY <2>7, <2>8, <2>9 DEF Recovery
<1>2. CASE Skip
  <2>1. /\ damaged' = damaged /\ pkt_curr' = pkt_curr /\ ~idle
        /\ sent' = sent /\ Frame' = Frame /\ Payload' = Payload
    BY <1>2, HostFacts DEF Skip, Frame, Payload
  <2>2. \A n \in 0 .. 2 : Undamaged(Frame, n)' <=> Undamaged(Frame, n)
    BY <2>1 DEF Undamaged
  <2>3. Undamaged(Frame, 0) =>
            /\ idle' => slip_state' = "OK"
            /\ ~idle' => slip_state' = "GARBAGE" \/ InStep'
    BY <1>2, <2>1, SkipAnyhow DEF Recovery
  <2>4. Undamaged(Frame, 1) =>
            InStep' /\ (EscSent \/ (EndSent /\ pkt_curr = NULL))
    BY <1>2, SkipInStep DEF Recovery
  <2>5. Undamaged(Frame, 2) => Undamaged(Frame, 1)
    BY DEF Undamaged
  <2>6. Undamaged(Frame, 2) /\ ~idle' => pos' = pos
    BY <2>4, <2>5 DEF EscSent, EndSent
  <2>7. Undamaged(Frame, 1) => InStep' /\ (idle' => pkt_curr' = NULL)
    BY <2>1, <2>4 DEF EscSent, EndSent
  <2>8. Undamaged(Frame, 2) /\ ~idle' =>
            IF pos' = 1 THEN pkt_curr' = NULL
            ELSE pkt_curr' # NULL /\ Run(pkt_curr', Payload', Frame', 1, pos' - 1)
    BY <2>1, <2>6 DEF Recovery
  <2>9. QED BY <2>2, <2>3, <2>7, <2>8 DEF Recovery
<1>3. CASE Queue
  <2>1. idle' /\ ~escaped' /\ slip_state' = "OK" /\ pkt_curr' = NULL
    BY <1>3, QueueFacts DEF EndSent
  <2>2. QED BY <2>1 DEF Recovery, InStep
<1>4. ASSUME NEW v \in Bytes, Decode(v), NoBuffer \/ NoSpace \/ AddByte(v)
      PROVE  Recovery'
  <2> DEFINE b == <<v, Frame, pos>>
  <2>1. /\ sent' = sent /\ Frame' = Frame /\ Payload' = Payload
        /\ b \in Stored /\ slip_state' = "OK"
        /\ ~idle /\ ~idle' /\ ~escaped' /\ pos' = pos + 1 /\ pos \in Nat \ {0}
    BY <1>4, HostFacts, DecodeFacts DEF Decode, Frame, Payload, ByteSent, Typed
  <2>2. InStep'
    BY <2>1 DEF InStep
  <2>3. SUFFICES ASSUME Undamaged(Frame, 2)'
                 PROVE  pkt_curr' # NULL /\ Run(pkt_curr', Payload, Frame, 1, pos)
    BY <2>1, <2>2 DEF Recovery
  <2>4. AddByte(v) /\ damaged' = damaged
    BY <1>4, <2>1, <2>3 DEF NoBuffer, NoSpace, AddByte, Undamaged
  <2>5. Undamaged(Frame, 2) /\ Undamaged(Frame, 1)
    BY <2>1, <2>3, <2>4 DEF Undamaged
  <2>6. v = Payload[pos]
    BY <1>4, <2>5, DecodeFacts DEF Recovery
  <2>7. pkt_curr' # NULL
    BY <1>4, <2>4, AddedIsPacket, ConstantFacts
  <2>8. CASE pos = 1
    <3>1. pkt_curr' = <<b>>
      BY <2>1, <2>4, <2>5, <2>8 DEF AddByte, Recovery
    <3>2. QED BY <2>1, <2>6, <2>7, <2>8, <3>1, SingleRun
  <2>9. CASE pos # 1
    <3>1. pkt_curr # NULL /\ Run(pkt_curr, Payload, Frame, 1, pos - 1)
      BY <2>1, <2>5, <2>9 DEF Recovery
    <3>2. pkt_curr' = Append(pkt_curr, b) /\ pkt_curr \in Pkts
      BY <2>4, <3>1 DEF AddByte, Typed
    <3>3. pos - 1 \in Nat /\ 1 + (pos - 1) = pos /\ (pos - 1) + 1 = pos
      BY <2>1
    <3>4. Run(pkt_curr', Payload, Frame, 1, (pos - 1) + 1)
      <4> DEFINE n == pos - 1
      <4>1. b = <<Payload[1 + n], Frame, 1 + n>> /\ n \in Nat
        BY <2>6, <3>3
      <4>2. Run(pkt_curr, Payload, Frame, 1, n)
        BY <3>1
      <4> HIDE DEF n, b
      <4>3. Run(Append(pkt_curr, b), Payload, Frame, 1, n + 1)
        BY <2>1, <3>2, <4>1, <4>2, AppendRun
      <4>4. QED BY <3>2, <4>3 DEF n
    <3>5. QED BY <2>7, <3>3, <3>4
  <2>10. QED BY <2>8, <2>9
<1>5. CASE LoseByte
  <2>1. Frame' = Frame /\ Frame \in damaged'
    BY <1>5, HostFacts DEF LoseByte, Frame
  <2>2. QED BY <2>1 DEF Recovery, Undamaged
<1>6. CASE RxGet \/ RxUnref \/ RadioAlloc \/ RadioUnref \/ UNCHANGED vars
  BY <1>6, QuietFacts DEF Recovery, Undamaged, InStep, Frame, Payload
<1>7. QED
  BY <1>1, <1>2, <1>3, <1>4, <1>5, <1>6, ReceiveCases DEF Next

LEMMA NextWhole ==
    ASSUME Typed, HostInFrame, Recovery, Whole, [Next]_vars
    PROVE  Whole'
<1>1. CASE HostStart
  <2>1. ASSUME NEW f \in 1 .. Frame', Complete(f)', Undamaged(f, 2)'
        PROVE  \E k \in 1 .. Len(delivered') : Run(delivered'[k], sent'[f], f, 1, Len(sent'[f]))
    <3>1. f \in 1 .. Frame /\ Complete(f)
      BY <1>1, <2>1, StartFacts DEF Complete
    <3>2. Undamaged(f, 2) /\ sent'[f] = sent[f] /\ delivered' = delivered
      BY <1>1, <2>1, <3>1, StartFacts DEF Undamaged
    <3>3. QED BY <3>1, <3>2 DEF Whole
  <2>2. QED BY <2>1 DEF Whole
\* Frames before the one that is on the line.
<1>2. ASSUME HostAdvance, damaged \subseteq damaged',
             \A k \in 1 .. Len(delivered) :
                k \in 1 .. Len(delivered') /\ delivered'[k] = delivered[k],
             idle' /\ Undamaged(Frame, 2)' =>
                \E k \in 1 .. Len(delivered') :
                    Run(delivered'[k], Payload, Frame, 1, Len(Payload))
      PROVE  Whole'
  <2>1. sent' = sent /\ Frame' = Frame /\ Frame \in Nat
    BY <1>2, HostFacts DEF Frame
  <2>2. ASSUME NEW f \in 1 .. Frame', Complete(f)', Undamaged(f, 2)'
        PROVE  \E k \in 1 .. Len(delivered') : Run(delivered'[k], sent'[f], f, 1, Len(sent'[f]))
    <3>1. CASE f = Frame
      <4>1. idle' /\ Payload = sent'[f]
        BY <2>1, <2>2, <3>1 DEF Complete, Payload
      <4>2. Undamaged(Frame, 2)'
        BY <2>1, <2>2, <3>1
      <4>3. QED BY <1>2, <3>1, <4>1, <4>2
    <3>2. CASE f # Frame
      <4>1. f \in 1 .. Frame /\ Complete(f) /\ Undamaged(f, 2)
        BY <1>2, <2>1, <2>2, <3>2 DEF Complete, Undamaged
      <4>2. PICK k \in 1 .. Len(delivered) : Run(delivered[k], sent[f], f, 1, Len(sent[f]))
        BY <4>1 DEF Whole
      <4>3. QED BY <1>2, <2>1, <4>2
    <3>3. QED BY <3>1, <3>2
  <2>3. QED BY <2>2 DEF Whole
<1>3. CASE Skip
  <2>1. HostAdvance /\ damaged' = damaged /\ delivered' = delivered /\ Frame' = Frame
    BY <1>3, HostFacts DEF Skip, Frame
  <2>2. ASSUME idle', Undamaged(Frame, 2)' PROVE FALSE
    <3>1. Undamaged(Frame, 2) /\ Undamaged(Frame, 1)
      BY <2>1, <2>2 DEF Undamaged
    <3>2. InStep /\ ~idle
      BY <2>1, <3>1, HostFacts DEF Recovery
    <3>3. EndSent /\ pkt_curr = NULL
      BY <1>3, <2>2, <3>2, SkipInStep DEF EscSent
    <3>4. pos # 1
      BY <2>1, <3>3, HostFacts DEF EndSent
    <3>5. QED BY <3>1, <3>2, <3>3, <3>4 DEF Recovery
  <2>3. QED BY <1>2, <2>1, <2>2
<1>4. CASE Queue
  <2>1. HostAdvance /\ damaged' = damaged /\ Frame' = Frame
    BY <1>4, HostFacts DEF Queue, Frame
  <2>2. \A k \in 1 .. Len(delivered) : k \in 1 .. Len(delivered') /\ delivered'[k] = delivered[k]
    BY <1>4, QueueFacts
  <2>3. ASSUME Undamaged(Frame, 2)'
        PROVE  \E k \in 1 .. Len(delivered') : Run(delivered'[k], Payload, Frame, 1, Len(Payload))
    <3>1. Undamaged(Frame, 2)
      BY <2>1, <2>3 DEF Undamaged
    <3>2. ~idle /\ Len(Payload) \in Nat \ {0}
      BY <2>1, HostFacts
    <3>3. pos = Len(Payload) + 1
      BY <1>4, QueueFacts DEF EndSent
    <3>4. Run(pkt_curr, Payload, Frame, 1, pos - 1) /\ pos # 1 /\ pos - 1 = Len(Payload)
      BY <3>1, <3>2, <3>3 DEF Recovery
    <3>5. Len(delivered') \in 1 .. Len(delivered') /\ delivered'[Len(delivered')] = pkt_curr
      BY <1>4, QueueFacts
    <3>6. QED BY <3>4, <3>5
  <2>4. QED BY <1>2, <2>1, <2>2, <2>3
<1>5. ASSUME NEW v \in Bytes, Decode(v), NoBuffer \/ NoSpace \/ AddByte(v)
      PROVE  Whole'
  <2>1. HostAdvance /\ delivered' = delivered /\ ~idle'
    BY <1>5, DecodeFacts DEF Decode, ByteSent
  <2>2. damaged \subseteq damaged'
    BY <1>5, Zenon DEF NoBuffer, NoSpace, AddByte
  <2>3. QED BY <1>2, <2>1, <2>2
<1>6. CASE LoseByte
  <2>1. /\ HostAdvance /\ delivered' = delivered
        /\ damaged \subseteq damaged' /\ Frame \in damaged' /\ Frame' = Frame
    BY <1>6, HostFacts DEF LoseByte, Frame
  <2>2. ~Undamaged(Frame, 2)'
    BY <2>1 DEF Undamaged
  <2>3. QED BY <1>2, <2>1, <2>2
<1>7. CASE RxGet \/ RxUnref \/ RadioAlloc \/ RadioUnref \/ UNCHANGED vars
  BY <1>7, QuietFacts DEF Whole, Undamaged, Complete, Frame
<1>8. QED
  BY <1>1, <1>3, <1>4, <1>5, <1>6, <1>7, ReceiveCases DEF Next

-----------------------------------------------------------------------------
(* The theorems.                                                           *)

LEMMA NextIInv ==
    ASSUME IInv, [Next]_vars
    PROVE  IInv'
BY NextTyped, NextHost, NextPool, NextOrder, NextLossless, NextRecovery, NextWhole DEF IInv

\* The types, the position of the host in its frame, and what the packets hold fit
\* together after every byte.
THEOREM Invariance == Spec => []IInv
<1>1. IInv /\ [Next]_vars => IInv'
  BY NextIInv
<1>2. QED BY InitIInv, <1>1, PTL DEF Spec

\* Every variable keeps its type; no packet is empty and nothing is stored past its
\* tailroom.
THEOREM TypeCorrect == Spec => []TypeOK
<1>1. IInv => TypeOK
  <2> SUFFICES ASSUME IInv PROVE TypeOK
    OBVIOUS
  <2> USE ConstantFacts DEF IInv, Typed
  <2>1. ASSUME NEW p \in Pkts PROVE p \in Packets /\ Len(p) \in 1 .. Capacity
    BY <2>1 DEF Pkts, Packets, Stored
  <2>2. \A p \in Held : p \in Pkts
    BY DEF Held
  <2>3. \A p \in Range(rx_queue) \cup Range(delivered) : p \in Pkts
    BY LenProperties, ElementOfSeq DEF Range
  <2>4. free \in 0 .. PoolSize /\ radio \in 0 .. PoolSize
    BY LenProperties DEF PoolConserved, One
  <2>5. damaged \subseteq 1 .. MaxFrames
    BY LenProperties
  <2>6. QED BY <2>1, <2>2, <2>3, <2>4, <2>5 DEF TypeOK
<1>2. QED BY Invariance, <1>1, PTL

\* Each packet of the pool is free or in exactly one place: none leaks, none is given
\* back twice, whatever the line loses and wherever packets are dropped.
THEOREM PoolConservedHolds == Spec => []PoolConserved
<1>1. IInv => PoolConserved
  BY DEF IInv
<1>2. QED BY Invariance, <1>1, PTL

\* Bytes reach rx_thread in the order sent, none of them twice.
THEOREM OrderKeptHolds == Spec => []OrderKept
<1>1. IInv => OrderKept
  BY DEF IInv
<1>2. QED BY Invariance, <1>1, PTL

LEMMA RunIsTail ==
    ASSUME NEW p \in Pkts, NEW f, NEW i \in Nat, Len(sent[f]) \in Nat, i <= Len(sent[f]),
           Run(p, sent[f], f, i, Len(sent[f]) - i + 1)
    PROVE  IsTail(p, f, i)
<1>1. p = [j \in 1 .. Len(p) |-> p[j]]
  BY PacketFacts, LenProperties
<1>2. QED BY <1>1 DEF Run, IsTail

\* On a line that loses nothing, starvation of the pool and oversized frames cut the
\* beginning of a frame but never mix two frames or alter a byte.
THEOREM TailsOnlyHolds == Spec => []TailsOnly
<1>1. IInv => TailsOnly
  <2> SUFFICES ASSUME IInv, lost = 0, NEW k \in 1 .. Len(delivered)
               PROVE  IsTail(delivered[k], delivered[k][1][2], delivered[k][1][3])
    BY DEF TailsOnly
  <2>0. PICK f \in 1 .. Frame : \E i \in 1 .. Len(sent[f]) :
                 Run(delivered[k], sent[f], f, i, Len(sent[f]) - i + 1)
    BY DEF IInv, Lossless
  <2>1. PICK i \in 1 .. Len(sent[f]) : Run(delivered[k], sent[f], f, i, Len(sent[f]) - i + 1)
    BY <2>0
  <2>2. delivered[k] \in Pkts /\ Len(sent[f]) \in Nat \ {0}
    BY ElementOfSeq, ConstantFacts DEF IInv, Typed, Frame
  <2>3. 1 \in 1 .. Len(sent[f]) - i + 1 /\ i + 1 - 1 = i
    BY <2>2
  <2>4. delivered[k][1] = <<sent[f][i], f, i>>
    BY <2>1, <2>3 DEF Run
  <2>5. IsTail(delivered[k], f, i)
    BY <2>1, <2>2, RunIsTail
  <2>6. QED BY <2>4, <2>5
<1>2. QED BY Invariance, <1>1, PTL

\* A lost byte, a missing buffer or an oversized packet spoils at most the frame it
\* happens in and the two after it.
THEOREM DamageBoundedHolds == Spec => []DamageBounded
<1>1. IInv => DamageBounded
  <2> SUFFICES ASSUME IInv, NEW f \in 1 .. Frame, Complete(f), {f - 2, f - 1, f} \cap damaged = {}
               PROVE  \E k \in 1 .. Len(delivered) : IsTail(delivered[k], f, 1)
    BY DEF DamageBounded
  <2>1. Undamaged(f, 2)
    BY DEF Undamaged
  <2>2. PICK k \in 1 .. Len(delivered) : Run(delivered[k], sent[f], f, 1, Len(sent[f]))
    BY <2>1 DEF IInv, Whole
  <2>3. delivered[k] \in Pkts /\ Len(sent[f]) \in Nat \ {0}
    BY ElementOfSeq, ConstantFacts DEF IInv, Typed, Frame
  <2>4. Len(sent[f]) - 1 + 1 = Len(sent[f])
    BY <2>3
  <2>5. QED BY <2>2, <2>3, <2>4, RunIsTail
<1>2. QED BY Invariance, <1>1, PTL
=============================================================================
