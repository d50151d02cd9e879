-------------------------- MODULE UsbBridgeProofs ---------------------------
(***************************************************************************)
(* Proofs about UsbBridge, for any ring, contents and numbers of frames.   *)
(***************************************************************************)
EXTENDS UsbBridge, SequenceTheorems, WellFoundedInduction, TLAPS

-----------------------------------------------------------------------------
(* The inductive invariant.                                                *)

Packet == [kind : {"M", "R", "radio"}, data : Seq(ByteValues)]
Command == [kind : {"M", "S"}, seq : 0 .. SeqRange - 1]

\* What slip_buffer makes of frame f, among the frames fr.
Code(fr, f) == SlipBuffer(f, fr[f].data)

LastEnd(es) == IF es = <<>> THEN 0 ELSE es[Len(es)]

IsEnd(b, f) == b[1] = f /\ b[3] = "END"

\* A byte of the stream follows the bytes of its frame before it, and only those.
Whole(fr, u) ==
    \A i \in 1 .. Len(u) :
        /\ u[i][1] \in 1 .. Len(fr) /\ u[i][2] \in 1 .. Len(Code(fr, u[i][1])) /\ u[i][2] <= i
        /\ \A m \in 1 .. u[i][2] : u[i - u[i][2] + m] = Code(fr, u[i][1])[m]

\* Frames come in order, and the bytes of a frame next to each other.
InLine(u) ==
    \A i, j \in 1 .. Len(u) : i < j =>
        u[i][1] < u[j][1] \/ (u[i][1] = u[j][1] /\ u[j][2] = u[i][2] + (j - i))

\* Of the frames after last, those that were not cut have their END in the stream, each
\* before the bytes of any later frame; those that were cut have none.
Ending(fr, u, last, ct) ==
    /\ \A i \in 1 .. Len(u) :
          /\ last < u[i][1]
          /\ u[i][1] \in ct => u[i][3] # "END"
          /\ \A f \in last + 1 .. u[i][1] - 1 :
                f \in ct \/ \E j \in 1 .. Len(u) : j < i /\ IsEnd(u[j], f)
    /\ \A f \in last + 1 .. Len(fr) : f \in ct \/ \E j \in 1 .. Len(u) : IsEnd(u[j], f)

\* u is a stream of frames of fr, after the END of frame last, where those of ct were cut.
Stream(fr, u, last, ct) == Whole(fr, u) /\ InLine(u) /\ Ending(fr, u, last, ct)

\* What the stick has written and the bridge has not split off, with what is still to be
\* written.
Unread == slip_buffer \o (ring \o out)

\* The bridge splits at END; tx_thread writes the last frame it took.
AtWork ==
    /\ Stream(frames, Unread, LastEnd(ends), cut)
    /\ \A i \in 1 .. Len(slip_buffer) : slip_buffer[i][3] # "END"
    /\ out # <<>> => Len(frames) \notin cut
    /\ \A i \in 1 .. Len(out) : out[i][1] = Len(frames)

\* Replies carry what the stick knows when it makes them.
Honest(p, done) ==
    /\ p.kind = "M" => p.data = <<"!", "M", "mac", "mac", "x">>
    /\ p.kind = "R" => \E s \in 0 .. SeqRange - 1, status \in {"ok", "err"} :
          /\ p.data = <<"!", "R", Digit(s), status, "x">>
          /\ status = "ok" => s \in done
    /\ p.kind = "radio" => p.data \in Contents

AllHonest(q, done) == \A i \in 1 .. Len(q) : Honest(q[i], done)

Packets == AllHonest(tx_queue, radioed) /\ AllHonest(frames, radioed)

Booted ==
    /\ rx_queue # <<>> => boot = "running"
    /\ boot \in {"irq", "running"} => mac_addr = "mac"
    /\ taken # "none" => ends # <<>>

IInv == TypeOK /\ AtWork /\ Packets /\ Booted /\ CutsSpoilNeighbours /\ BridgeBelieves

-----------------------------------------------------------------------------
(* Induction over the numbers: a set that has 0 and the successor of each  *)
(* of its members has all of them.                                         *)

LEMMA SetInduction ==
    ASSUME NEW T \in SUBSET Nat, 0 \in T, \A n \in Nat : n \in T => n + 1 \in T
    PROVE  T = Nat
<1> DEFINE less == {ss \in Nat \X Nat : ss[1] < ss[2]}
           rest == Nat \ T
<1>1. SUFFICES ASSUME rest # {} PROVE FALSE
  OBVIOUS
<1>2. IsWellFoundedOn(less, Nat)
  BY NatLessThanWellFounded DEF OpToRel
<1>3. PICK x \in rest : \A y \in rest : <<y, x>> \notin less
  BY <1>1, <1>2, WFMin
<1>4. x # 0 /\ x \in Nat
  OBVIOUS
<1>5. x - 1 \in Nat /\ x - 1 < x
  BY <1>4
<1>6. <<x - 1, x>> \in less
  BY <1>4, <1>5
<1>7. x - 1 \in T
  BY <1>3, <1>5, <1>6
<1>8. (x - 1) + 1 \in T
  BY <1>5, <1>7
<1>9. QED BY <1>4, <1>8

\* f is what step makes of init and the entries of d, one after the other.
Follows(f, S, init, d, step) ==
    /\ f \in [0 .. Len(d) -> S] /\ f[0] = init
    /\ \A n \in 1 .. Len(d) : f[n] = step[<<f[n - 1], d[n]>>]

\* A function that is defined by recursion over a sequence exists.
LEMMA Recursion ==
    ASSUME NEW S, NEW init \in S, NEW D, NEW d \in Seq(D), NEW step \in [S \X D -> S]
    PROVE  \E f : Follows(f, S, init, d, step)
<1> DEFINE Solves(f, m) == /\ f \in [0 .. m -> S] /\ f[0] = init
                           /\ \A n \in 1 .. m : f[n] = step[<<f[n - 1], d[n]>>]
           T == {m \in Nat : m <= Len(d) => \E f : Solves(f, m)}
<1>0. Len(d) \in Nat /\ \A n \in 1 .. Len(d) : d[n] \in D
  BY ElementOfSeq, LenProperties
<1>1. 0 \in T
  <2>1. Solves([n \in 0 .. 0 |-> init], 0)
    OBVIOUS
  <2>2. QED BY <2>1
<1>2. ASSUME NEW m \in Nat, m \in T PROVE m + 1 \in T
  <2>1. SUFFICES ASSUME m + 1 <= Len(d) PROVE \E f : Solves(f, m + 1)
    OBVIOUS
  <2>2. PICK f : Solves(f, m)
    BY <1>0, <1>2, <2>1
  <2> DEFINE g == [n \in 0 .. m + 1 |-> IF n = m + 1 THEN step[<<f[m], d[m + 1]>>] ELSE f[n]]
  <2>3. m \in 0 .. m /\ m + 1 \in 1 .. Len(d) /\ m + 1 \in 0 .. m + 1
    BY <1>0, <2>1
  <2>4. step[<<f[m], d[m + 1]>>] \in S
    BY <1>0, <2>2, <2>3
  <2>5. \A n \in 0 .. m : f[n] \in S /\ n \in 0 .. m + 1 /\ n # m + 1
    BY <2>2
  <2>6. \A n \in 0 .. m + 1 : n \in 0 .. m \/ n = m + 1
    OBVIOUS
  <2>7. g \in [0 .. m + 1 -> S]
    BY <2>4, <2>5, <2>6
  <2>8. (\A n \in 0 .. m : g[n] = f[n]) /\ g[m + 1] = step[<<f[m], d[m + 1]>>]
    BY <2>3, <2>5
  <2> HIDE DEF g
  <2>9. g[0] = init
    BY <2>2, <2>8
  <2>10. ASSUME NEW n \in 1 .. m + 1 PROVE g[n] = step[<<g[n - 1], d[n]>>]
    <3>1. CASE n = m + 1
      <4>1. n - 1 = m
        BY <3>1
      <4>2. QED BY <2>3, <2>8, <3>1, <4>1
    <3>2. CASE n \in 1 .. m
      <4>1. n \in 0 .. m /\ n - 1 \in 0 .. m
        BY <3>2
      <4>2. QED BY <2>2, <2>8, <3>2, <4>1
    <3>3. QED BY <3>1, <3>2
  <2>11. QED BY <2>7, <2>9, <2>10
<1>3. T = Nat
  <2> HIDE DEF Solves
  <2>1. T \in SUBSET Nat
    OBVIOUS
  <2> HIDE DEF T
  <2>2. QED BY <1>1, <1>2, <2>1, SetInduction
<1>4. \E f : Solves(f, Len(d))
  <2> HIDE DEF Solves
  <2>1. QED BY <1>0, <1>3
<1>5. QED BY <1>4 DEF Follows

\* What has been shown for 0 and for each number from the one before, up to a bound.
LEMMA UpTo ==
    ASSUME NEW N \in Nat, NEW P \in SUBSET Nat, 0 \in P,
           \A n \in Nat : n < N /\ n \in P => n + 1 \in P
    PROVE  \A n \in 0 .. N : n \in P
<1> DEFINE T == {n \in Nat : n <= N => n \in P}
<1>1. T \in SUBSET Nat /\ 0 \in T
  OBVIOUS
<1>2. \A n \in Nat : n \in T => n + 1 \in T
  OBVIOUS
<1> HIDE DEF T
<1>3. T = Nat
  BY <1>1, <1>2, SetInduction
<1>4. QED BY <1>3 DEF T

-----------------------------------------------------------------------------
(* What the stick makes of a frame, and the bridge of that.                *)

Byte == Nat \X Nat \X ByteValues
DecodeState == [esc : BOOLEAN, bytes : Bytes]

LEMMA ByteValuesFacts ==
    /\ {"!", "M", "R", "END", "ESC", "ESC_END", "ESC_ESC", "unset", "mac", "ok", "err", "x"}
          \subseteq ByteValues
    /\ Digits \in Seq(ByteValues)
<1>1. Digits \in Seq(Range(Digits)) /\ Range(Digits) \subseteq ByteValues
  BY UsbBridgeAssumption, SeqOfRange DEF ByteValues
<1>2. Digits \in Seq(ByteValues)
  BY <1>1, SeqMonotonic
<1>3. QED BY <1>2 DEF ByteValues

LEMMA SlipCodeFacts ==
    ASSUME NEW v \in ByteValues
    PROVE  /\ SlipCode(v) \in Seq(ByteValues) /\ Len(SlipCode(v)) \in {1, 2}
           /\ v \in {"END", "ESC"} =>
                 /\ Len(SlipCode(v)) = 2 /\ SlipCode(v)[1] = "ESC"
                 /\ SlipCode(v)[2] = IF v = "END" THEN "ESC_END" ELSE "ESC_ESC"
           /\ v \notin {"END", "ESC"} => Len(SlipCode(v)) = 1 /\ SlipCode(v)[1] = v
<1>1. CASE v = "END"
  <2>1. SlipCode(v) = <<"ESC", "ESC_END">>
    BY <1>1 DEF SlipCode
  <2>2. SlipCode(v) \in Seq(ByteValues)
    BY <2>1, ByteValuesFacts
  <2>3. Len(SlipCode(v)) = 2 /\ SlipCode(v)[1] = "ESC" /\ SlipCode(v)[2] = "ESC_END"
    BY <2>1
  <2>4. QED BY <1>1, <2>2, <2>3
<1>2. CASE v = "ESC"
  <2>1. SlipCode(v) = <<"ESC", "ESC_ESC">>
    BY <1>2 DEF SlipCode
  <2>2. QED BY <1>2, <2>1, ByteValuesFacts
<1>3. CASE v \notin {"END", "ESC"}
  BY <1>3 DEF SlipCode
<1>4. QED BY <1>1, <1>2, <1>3

LEMMA EncodedRecursion ==
    ASSUME NEW data \in Seq(ByteValues)
    PROVE  \E code \in [0 .. Len(data) -> Seq(ByteValues)] :
              /\ code[0] = <<>>
              /\ \A n \in 1 .. Len(data) : code[n] = code[n - 1] \o SlipCode(data[n])
              /\ Encoded(data) = Append(code[Len(data)], "END")
<1> DEFINE N == Len(data)
           empty == <<>>
           add(x, v) == x \o SlipCode(v)
           Value(f, n) == IF n = 0 THEN empty ELSE add(f[n - 1], data[n])
           Solves(f) == f = [n \in 0 .. N |-> Value(f, n)]
           step == [x \in Seq(ByteValues) \X ByteValues |-> add(x[1], x[2])]
<1>1. N \in Nat /\ \A n \in 1 .. N : data[n] \in ByteValues
  BY LenProperties, ElementOfSeq
<1>0. \A x \in Seq(ByteValues), v \in ByteValues : add(x, v) \in Seq(ByteValues)
  BY SlipCodeFacts, ConcatProperties
<1>a. empty \in Seq(ByteValues)
  BY EmptySeq
<1> HIDE DEF add, empty
<1>2. step \in [Seq(ByteValues) \X ByteValues -> Seq(ByteValues)]
  BY <1>0
<1>3. \A x \in Seq(ByteValues), v \in ByteValues : step[<<x, v>>] = add(x, v)
  OBVIOUS
<1> HIDE DEF step
<1>b. PICK f : Follows(f, Seq(ByteValues), empty, data, step)
  BY <1>2, <1>a, Recursion
<1>4. /\ f \in [0 .. N -> Seq(ByteValues)] /\ f[0] = empty
      /\ \A n \in 1 .. N : f[n] = step[<<f[n - 1], data[n]>>]
  BY <1>b DEF Follows
<1>5. Solves(f)
  <2>1. ASSUME NEW n \in 0 .. N PROVE f[n] = Value(f, n)
    <3>1. CASE n = 0
      BY <1>4, <3>1
    <3>2. CASE n \in 1 .. N
      <4>1. f[n - 1] \in Seq(ByteValues)
        BY <1>1, <1>4, <3>2
      <4>2. QED BY <1>1, <1>3, <1>4, <3>2, <4>1
    <3>3. QED BY <1>1, <3>1, <3>2
  <2> HIDE DEF Value
  <2>2. f = [n \in 0 .. N |-> f[n]]
    BY <1>4
  <2>3. QED BY <2>1, <2>2
<1> DEFINE code == CHOOSE g : Solves(g)
<1>6. Encoded(data) = Append(code[N], "END")
  BY DEF Encoded, add, empty
<1>7. Solves(code)
  <2> HIDE DEF Solves
  <2>1. QED BY <1>5, Zenon
<1> HIDE DEF code
<1>8. code[0] = empty /\ \A n \in 1 .. N : code[n] = add(code[n - 1], data[n])
  BY <1>1, <1>7
<1>9. code \in [0 .. N -> Seq(ByteValues)]
  <2> DEFINE P == {n \in Nat : code[n] \in Seq(ByteValues)}
  <2>1. P \in SUBSET Nat /\ 0 \in P
    BY <1>8, <1>a
  <2>2. ASSUME NEW n \in Nat, n < N, n \in P PROVE n + 1 \in P
    <3>1. n + 1 \in 1 .. N /\ (n + 1) - 1 = n /\ code[n] \in Seq(ByteValues)
      BY <1>1, <2>2
    <3>2. code[n + 1] = add(code[n], data[n + 1])
      BY <1>8, <3>1
    <3>3. code[n + 1] \in Seq(ByteValues)
      BY <1>0, <1>1, <3>1, <3>2
    <3>4. QED BY <3>3
  <2> HIDE DEF P
  <2>3. \A n \in 0 .. N : n \in P
    BY <1>1, <2>1, <2>2, UpTo
  <2>4. DOMAIN code = 0 .. N /\ code = [n \in 0 .. N |-> code[n]]
    <3> HIDE DEF Value
    <3>1. code = [n \in 0 .. N |-> Value(code, n)]
      BY <1>7
    <3>2. QED BY <3>1
  <2>5. QED BY <2>3, <2>4 DEF P
<1>10. QED BY <1>6, <1>8, <1>9 DEF add, empty

LEMMA DecodeByteType ==
    ASSUME NEW s \in DecodeState, NEW b \in Byte
    PROVE  DecodeByte(s, b) \in DecodeState
<1>1. <<b[1], b[2], "END">> \in Byte /\ <<b[1], b[2], "ESC">> \in Byte
  <2>1. b[1] \in Nat /\ b[2] \in Nat
    BY DEF Byte
  <2>2. "END" \in ByteValues /\ "ESC" \in ByteValues
    BY ByteValuesFacts
  <2>3. QED BY <2>1, <2>2 DEF Byte
<1>2. \A x \in Byte : Append(s.bytes, x) \in Bytes
  BY AppendProperties DEF Bytes, Byte, DecodeState
<1>3. s.bytes \in Bytes /\ s.esc \in BOOLEAN
  BY DEF DecodeState
<1>4. QED BY <1>1, <1>2, <1>3 DEF DecodeByte, DecodeState

LEMMA DecodeRecursion ==
    ASSUME NEW data \in Bytes
    PROVE  \E read \in [0 .. Len(data) -> DecodeState] :
              /\ read[0] = [esc |-> FALSE, bytes |-> <<>>]
              /\ \A n \in 1 .. Len(data) : read[n] = DecodeByte(read[n - 1], data[n])
              /\ DecodeSlip(data) = read[Len(data)].bytes
<1> DEFINE N == Len(data)
           start == [esc |-> FALSE, bytes |-> <<>>]
           Value(f, n) == IF n = 0 THEN start ELSE DecodeByte(f[n - 1], data[n])
           Solves(f) == f = [n \in 0 .. N |-> Value(f, n)]
           step == [x \in DecodeState \X Byte |-> DecodeByte(x[1], x[2])]
<1>1. data \in Seq(Byte) /\ N \in Nat /\ \A n \in 1 .. N : data[n] \in Byte
  BY LenProperties, ElementOfSeq DEF Bytes, Byte
<1>2. step \in [DecodeState \X Byte -> DecodeState]
  BY DecodeByteType
<1>3. \A x \in DecodeState, b \in Byte : step[<<x, b>>] = DecodeByte(x, b)
  OBVIOUS
<1>a. start \in DecodeState
  BY EmptySeq DEF DecodeState, Bytes
<1> HIDE DEF step, start
<1>b. PICK f : Follows(f, DecodeState, start, data, step)
  BY <1>1, <1>2, <1>a, Recursion
<1>4. /\ f \in [0 .. N -> DecodeState] /\ f[0] = start
      /\ \A n \in 1 .. N : f[n] = step[<<f[n - 1], data[n]>>]
  BY <1>b DEF Follows
<1>5. Solves(f)
  <2>1. ASSUME NEW n \in 0 .. N PROVE f[n] = Value(f, n)
    <3>1. CASE n = 0
      BY <1>4, <3>1
    <3>2. CASE n \in 1 .. N
      <4>1. f[n - 1] \in DecodeState
        BY <1>1, <1>4, <3>2
      <4>2. QED BY <1>1, <1>3, <1>4, <3>2, <4>1
    <3>3. QED BY <1>1, <3>1, <3>2
  <2> HIDE DEF Value
  <2>2. f = [n \in 0 .. N |-> f[n]]
    BY <1>4
  <2>3. QED BY <2>1, <2>2
<1> DEFINE read == CHOOSE g : Solves(g)
<1>6. DecodeSlip(data) = read[N].bytes
  BY DEF DecodeSlip, start
<1>7. Solves(read)
  <2> HIDE DEF Solves
  <2>1. QED BY <1>5, Zenon
<1> HIDE DEF read
<1>8. read[0] = start /\ \A n \in 1 .. N : read[n] = DecodeByte(read[n - 1], data[n])
  BY <1>1, <1>7
<1>9. read \in [0 .. N -> DecodeState]
  <2> DEFINE P == {n \in Nat : read[n] \in DecodeState}
  <2>1. P \in SUBSET Nat /\ 0 \in P
    BY <1>8, <1>a
  <2>2. ASSUME NEW n \in Nat, n < N, n \in P PROVE n + 1 \in P
    <3>1. n + 1 \in 1 .. N /\ (n + 1) - 1 = n /\ read[n] \in DecodeState
      BY <1>1, <2>2
    <3>2. read[n + 1] = DecodeByte(read[n], data[n + 1])
      BY <1>8, <3>1
    <3>3. QED BY <1>1, <3>1, <3>2, DecodeByteType
  <2> HIDE DEF P
  <2>3. \A n \in 0 .. N : n \in P
    BY <1>1, <2>1, <2>2, UpTo
  <2>4. DOMAIN read = 0 .. N /\ read = [n \in 0 .. N |-> read[n]]
    <3> HIDE DEF Value
    <3>1. read = [n \in 0 .. N |-> Value(read, n)]
      BY <1>7
    <3>2. QED BY <3>1
  <2>5. QED BY <2>3, <2>4 DEF P
<1>10. QED BY <1>6, <1>8, <1>9 DEF start

\* The last byte of a frame is its END, and no other is.
LEMMA EncodedFacts ==
    ASSUME NEW data \in Seq(ByteValues)
    PROVE  /\ Encoded(data) \in Seq(ByteValues) /\ Len(Encoded(data)) \in Nat \ {0}
           /\ \A m \in 1 .. Len(Encoded(data)) :
                 Encoded(data)[m] = "END" <=> m = Len(Encoded(data))
<1> DEFINE N == Len(data)
<1>1. PICK code \in [0 .. N -> Seq(ByteValues)] :
          /\ code[0] = <<>>
          /\ \A n \in 1 .. N : code[n] = code[n - 1] \o SlipCode(data[n])
          /\ Encoded(data) = Append(code[N], "END")
  BY EncodedRecursion
<1>2. N \in Nat /\ \A n \in 1 .. N : data[n] \in ByteValues
  BY LenProperties, ElementOfSeq
<1>3. \A v \in ByteValues : \A m \in 1 .. Len(SlipCode(v)) : SlipCode(v)[m] # "END"
  <2> TAKE v \in ByteValues
  <2> TAKE m \in 1 .. Len(SlipCode(v))
  <2>1. CASE v \in {"END", "ESC"}
    <3>1. m = 1 \/ m = 2
      BY <2>1, SlipCodeFacts, SMTT(30)
    <3>2. SlipCode(v)[1] # "END" /\ SlipCode(v)[2] # "END"
      BY <2>1, SlipCodeFacts
    <3>3. QED BY <3>1, <3>2
  <2>2. CASE v \notin {"END", "ESC"}
    <3>0. Len(SlipCode(v)) = 1
      BY <2>2, SlipCodeFacts
    <3>1. m = 1
      BY <3>0
    <3>2. QED BY <2>2, <3>1, SlipCodeFacts
  <2>3. QED BY <2>1, <2>2
<1> DEFINE P == {n \in Nat : \A m \in 1 .. Len(code[n]) : code[n][m] # "END"}
<1>4. P \in SUBSET Nat /\ 0 \in P
  <2>1. Len(code[0]) = 0
    BY <1>1
  <2>2. QED BY <2>1
<1>5. ASSUME NEW n \in Nat, n < N, n \in P PROVE n + 1 \in P
  <2> DEFINE x == code[n]
             y == SlipCode(data[n + 1])
  <2>1. n + 1 \in 1 .. N /\ (n + 1) - 1 = n /\ n \in 0 .. N
    BY <1>2, <1>5
  <2>2. x \in Seq(ByteValues) /\ y \in Seq(ByteValues) /\ data[n + 1] \in ByteValues
    BY <1>1, <1>2, <2>1, SlipCodeFacts
  <2>3. code[n + 1] = x \o y
    BY <1>1, <2>1
  <2>4. /\ \A m \in 1 .. Len(x) : x[m] # "END"
        /\ \A m \in 1 .. Len(y) : y[m] # "END"
    BY <1>3, <1>5, <2>2
  <2> HIDE DEF x, y
  <2>5. /\ Len(x) \in Nat /\ Len(y) \in Nat /\ Len(x \o y) = Len(x) + Len(y)
        /\ \A i \in 1 .. Len(x) + Len(y) : (x \o y)[i] =
              IF i <= Len(x) THEN x[i] ELSE y[i - Len(x)]
    BY <2>2, LenProperties, ConcatProperties
  <2>6. ASSUME NEW m \in 1 .. Len(code[n + 1]) PROVE code[n + 1][m] # "END"
    <3>1. m \in 1 .. Len(x) + Len(y)
      BY <2>3, <2>5
    <3>2. m <= Len(x) \/ m - Len(x) \in 1 .. Len(y)
      BY <2>5, <3>1
    <3>3. QED BY <2>3, <2>4, <2>5, <3>1, <3>2
  <2>7. QED BY <2>6
<1> HIDE DEF P
<1>6. N \in P
  <2>1. \A n \in 0 .. N : n \in P
    <3> HIDE DEF N
    <3>1. QED BY <1>2, <1>4, <1>5, UpTo
  <2>2. QED BY <1>2, <2>1
<1> DEFINE c == code[N]
<1>7. c \in Seq(ByteValues) /\ "END" \in ByteValues
  BY <1>1, <1>2, ByteValuesFacts
<1>8. \A m \in 1 .. Len(c) : c[m] # "END"
  BY <1>6 DEF P
<1>9. Encoded(data) = Append(c, "END")
  BY <1>1
<1> HIDE DEF c
<1>10. /\ Append(c, "END") \in Seq(ByteValues) /\ Len(c) \in Nat
       /\ Len(Append(c, "END")) = Len(c) + 1
       /\ \A i \in 1.. Len(c) : Append(c, "END")[i] = c[i]
       /\ Append(c, "END")[Len(c) + 1] = "END"
  BY <1>7, AppendProperties, LenProperties
<1>11. QED BY <1>8, <1>9, <1>10

LEMMA DecodeSlipType ==
    ASSUME NEW data \in Bytes
    PROVE  DecodeSlip(data) \in Bytes
<1>1. PICK read \in [0 .. Len(data) -> DecodeState] :
          DecodeSlip(data) = read[Len(data)].bytes
  BY DecodeRecursion
<1>2. Len(data) \in Nat
  BY LenProperties DEF Bytes
<1>3. QED BY <1>1, <1>2 DEF DecodeState

LEMMA ByteFacts ==
    ASSUME NEW b \in Byte
    PROVE  /\ b = <<b[1], b[2], b[3]>>
           /\ b[1] \in Nat /\ b[2] \in Nat /\ b[3] \in ByteValues
BY DEF Byte

LEMMA DecodeByteFacts ==
    ASSUME NEW s \in DecodeState, NEW b \in Byte
    PROVE  /\ ~s.esc /\ b[3] = "ESC" => DecodeByte(s, b) = [esc |-> TRUE, bytes |-> s.bytes]
           /\ ~s.esc /\ b[3] # "ESC" =>
                 DecodeByte(s, b) = [esc |-> FALSE, bytes |-> Append(s.bytes, b)]
           /\ s.esc /\ b[3] = "ESC_END" =>
                 DecodeByte(s, b) =
                     [esc |-> FALSE, bytes |-> Append(s.bytes, <<b[1], b[2], "END">>)]
           /\ s.esc /\ b[3] = "ESC_ESC" =>
                 DecodeByte(s, b) =
                     [esc |-> FALSE, bytes |-> Append(s.bytes, <<b[1], b[2], "ESC">>)]
<1> s = [esc |-> s.esc, bytes |-> s.bytes] /\ s.esc \in BOOLEAN
  BY DEF DecodeState
<1>1. CASE ~s.esc /\ b[3] = "ESC"
  BY <1>1 DEF DecodeByte
<1>2. CASE ~s.esc /\ b[3] # "ESC"
  BY <1>2 DEF DecodeByte
<1>3. CASE s.esc /\ b[3] = "ESC_END"
  BY <1>3 DEF DecodeByte
<1>4. CASE s.esc /\ b[3] = "ESC_ESC"
  BY <1>4 DEF DecodeByte
<1>5. QED BY <1>1, <1>2, <1>3, <1>4

\* The bytes bs are those of frame f up to the one at n of its data.
Decoded(bs, f, data, n) ==
    /\ bs \in Bytes /\ Len(bs) = n
    /\ \A i \in 1 .. n : bs[i][1] = f /\ bs[i][3] = data[i]

LEMMA DecodedNext ==
    ASSUME NEW f \in Nat, NEW data \in Seq(ByteValues), NEW n \in Nat, n < Len(data),
           NEW bs, Decoded(bs, f, data, n), NEW p \in Nat
    PROVE  Decoded(Append(bs, <<f, p, data[n + 1]>>), f, data, n + 1)
<1> DEFINE b == <<f, p, data[n + 1]>>
<1>1. n + 1 \in 1 .. Len(data) /\ Len(data) \in Nat
  BY LenProperties
<1>2. b \in Byte
  BY <1>1, ElementOfSeq DEF Byte
<1>3. b[1] = f /\ b[3] = data[n + 1]
  OBVIOUS
<1> HIDE DEF b
<1>4. /\ Append(bs, b) \in Bytes /\ Len(Append(bs, b)) = Len(bs) + 1
      /\ \A i \in 1 .. Len(bs) : Append(bs, b)[i] = bs[i]
      /\ Append(bs, b)[Len(bs) + 1] = b
  BY <1>2, AppendProperties DEF Decoded, Bytes, Byte
<1>5. \A i \in 1 .. n + 1 : i \in 1 .. n \/ i = n + 1
  OBVIOUS
<1>6. Decoded(Append(bs, b), f, data, n + 1)
  BY <1>3, <1>4, <1>5 DEF Decoded
<1>7. QED BY <1>6 DEF b

\* One byte of the frame, with or without an ESC before it.
LEMMA DecodeNext ==
    ASSUME NEW f \in Nat, NEW data \in Seq(ByteValues), NEW n \in Nat, n < Len(data),
           NEW s \in Bytes, NEW k \in Nat, k + Len(SlipCode(data[n + 1])) <= Len(s),
           \A m \in 1 .. Len(SlipCode(data[n + 1])) :
              s[k + m][1] = f /\ s[k + m][3] = SlipCode(data[n + 1])[m],
           NEW read \in [0 .. Len(s) -> DecodeState],
           \A m \in 1 .. Len(s) : read[m] = DecodeByte(read[m - 1], s[m]),
           ~read[k].esc, Decoded(read[k].bytes, f, data, n)
    PROVE  LET l == k + Len(SlipCode(data[n + 1]))
           IN  ~read[l].esc /\ Decoded(read[l].bytes, f, data, n + 1)
<1> DEFINE v == data[n + 1]
<1>0. v \in ByteValues /\ Len(s) \in Nat
  BY ElementOfSeq, LenProperties DEF Bytes
<1>1. \A m \in 1 .. Len(s) : s[m] \in Byte /\ s[m] = <<s[m][1], s[m][2], s[m][3]>> /\ s[m][2] \in Nat
  <2>1. \A m \in 1 .. Len(s) : s[m] \in Byte
    BY ElementOfSeq DEF Bytes, Byte
  <2>2. QED BY <2>1, ByteFacts
<1>2. CASE v \notin {"END", "ESC"}
  <2>1. Len(SlipCode(v)) = 1 /\ SlipCode(v)[1] = v
    BY <1>0, <1>2, SlipCodeFacts
  <2>2. k + 1 \in 1 .. Len(s) /\ (k + 1) - 1 = k /\ k \in 0 .. Len(s) /\ 1 \in 1 .. 1
    BY <1>0, <2>1
  <2>3. s[k + 1][1] = f /\ s[k + 1][3] = v
    BY <2>1, <2>2
  <2>4. read[k + 1] = DecodeByte(read[k], s[k + 1]) /\ read[k] \in DecodeState
    BY <2>2
  <2>5. read[k + 1] = [esc |-> FALSE, bytes |-> Append(read[k].bytes, s[k + 1])]
    BY <1>1, <1>2, <2>2, <2>3, <2>4, DecodeByteFacts
  <2>6. s[k + 1] = <<f, s[k + 1][2], v>> /\ s[k + 1][2] \in Nat
    BY <1>1, <2>2, <2>3
  <2>7. Decoded(Append(read[k].bytes, s[k + 1]), f, data, n + 1)
    BY <2>6, DecodedNext
  <2>8. QED BY <2>1, <2>5, <2>7
<1>3. CASE v \in {"END", "ESC"}
  <2>1. /\ Len(SlipCode(v)) = 2 /\ SlipCode(v)[1] = "ESC"
        /\ SlipCode(v)[2] = IF v = "END" THEN "ESC_END" ELSE "ESC_ESC"
    BY <1>0, <1>3, SlipCodeFacts
  <2>2. /\ k + 1 \in 1 .. Len(s) /\ (k + 1) - 1 = k /\ k \in 0 .. Len(s) /\ 1 \in 1 .. 2
        /\ k + 2 \in 1 .. Len(s) /\ (k + 2) - 1 = k + 1 /\ k + 1 \in 0 .. Len(s) /\ 2 \in 1 .. 2
    BY <1>0, <2>1
  <2>3. s[k + 1][3] = "ESC" /\ s[k + 2][1] = f /\ s[k + 2][3] = SlipCode(v)[2]
    BY <2>1, <2>2
  <2>4. /\ read[k + 1] = DecodeByte(read[k], s[k + 1]) /\ read[k] \in DecodeState
        /\ read[k + 2] = DecodeByte(read[k + 1], s[k + 2]) /\ read[k + 1] \in DecodeState
    BY <2>2
  <2>5. read[k + 1] = [esc |-> TRUE, bytes |-> read[k].bytes]
    BY <1>1, <2>2, <2>3, <2>4, DecodeByteFacts
  <2>6. read[k + 1].esc /\ read[k + 1].bytes = read[k].bytes
    BY <2>5
  <2> DEFINE b == <<f, s[k + 2][2], v>>
  <2>7. read[k + 2] = [esc |-> FALSE, bytes |-> Append(read[k].bytes, b)]
    <3>1. CASE v = "END"
      <4>1. s[k + 2][3] = "ESC_END"
        BY <2>1, <2>3, <3>1
      <4>2. DecodeByte(read[k + 1], s[k + 2]) =
                [esc |-> FALSE,
                 bytes |-> Append(read[k + 1].bytes, <<s[k + 2][1], s[k + 2][2], "END">>)]
        BY <1>1, <2>2, <2>4, <2>6, <4>1, DecodeByteFacts
      <4>3. QED BY <2>3, <2>4, <2>6, <3>1, <4>2
    <3>2. CASE v = "ESC"
      <4>1. s[k + 2][3] = "ESC_ESC"
        BY <2>1, <2>3, <3>2
      <4>2. DecodeByte(read[k + 1], s[k + 2]) =
                [esc |-> FALSE,
                 bytes |-> Append(read[k + 1].bytes, <<s[k + 2][1], s[k + 2][2], "ESC">>)]
        BY <1>1, <2>2, <2>4, <2>6, <4>1, DecodeByteFacts
      <4>3. QED BY <2>3, <2>4, <2>6, <3>2, <4>2
    <3>3. QED BY <1>3, <3>1, <3>2
  <2>8. Decoded(Append(read[k].bytes, b), f, data, n + 1)
    BY <1>1, <2>2, DecodedNext
  <2> HIDE DEF b
  <2>9. QED BY <2>1, <2>7, <2>8
<1>4. QED BY <1>2, <1>3

\* decode_slip undoes slip_buffer.
LEMMA DecodeEncoded ==
    ASSUME NEW f \in Nat, NEW data \in Seq(ByteValues),
           NEW s \in Bytes, Len(s) = Len(Encoded(data)) - 1,
           \A m \in 1 .. Len(s) : s[m][1] = f /\ s[m][3] = Encoded(data)[m]
    PROVE  Decoded(DecodeSlip(s), f, data, Len(data))
<1> DEFINE N == Len(data)
<1>1. PICK code \in [0 .. N -> Seq(ByteValues)] :
          /\ code[0] = <<>>
          /\ \A n \in 1 .. N : code[n] = code[n - 1] \o SlipCode(data[n])
          /\ Encoded(data) = Append(code[N], "END")
  BY EncodedRecursion
<1>2. PICK read \in [0 .. Len(s) -> DecodeState] :
          /\ read[0] = [esc |-> FALSE, bytes |-> <<>>]
          /\ \A n \in 1 .. Len(s) : read[n] = DecodeByte(read[n - 1], s[n])
          /\ DecodeSlip(s) = read[Len(s)].bytes
  BY DecodeRecursion
<1>3. /\ N \in Nat /\ Len(s) \in Nat
      /\ \A n \in 1 .. N : data[n] \in ByteValues
  BY LenProperties, ElementOfSeq DEF Bytes
<1> DEFINE Agrees(c) == Len(c) <= Len(s) /\ \A m \in 1 .. Len(c) : s[m][3] = c[m]
           Reads(n) == LET k == Len(code[n])
                       IN  ~read[k].esc /\ Decoded(read[k].bytes, f, data, n)
           P == {n \in Nat : Agrees(code[n]) => Reads(n)}
<1>4. P \in SUBSET Nat /\ 0 \in P
  <2>1. Len(code[0]) = 0 /\ read[0].bytes = <<>> /\ ~read[0].esc
    BY <1>1, <1>2
  <2>2. Decoded(<<>>, f, data, 0)
    BY EmptySeq DEF Decoded, Bytes
  <2>3. Reads(0)
    BY <2>1, <2>2
  <2> HIDE DEF Reads, Agrees
  <2>4. QED BY <2>3
<1>5. ASSUME NEW n \in Nat, n < N, n \in P PROVE n + 1 \in P
  <2>0. SUFFICES ASSUME Agrees(code[n + 1]) PROVE Reads(n + 1)
    <3> HIDE DEF Agrees, Reads
    <3>1. QED OBVIOUS
  <2> DEFINE x == code[n]
             y == SlipCode(data[n + 1])
  <2>1. n + 1 \in 1 .. N /\ (n + 1) - 1 = n /\ n \in 0 .. N
    BY <1>3, <1>5
  <2>2. x \in Seq(ByteValues) /\ y \in Seq(ByteValues) /\ data[n + 1] \in ByteValues
    BY <1>1, <1>3, <2>1, SlipCodeFacts
  <2>3. code[n + 1] = x \o y
    BY <1>1, <2>1
  <2>a. Agrees(x \o y)
    BY <2>0, <2>3
  <2>4. Agrees(x) => Reads(n)
    BY <1>5
  <2>b. Len(x) \in Nat
    BY <2>2, LenProperties
  <2> HIDE DEF x, y, Reads, P
  <2>5. /\ Len(x) \in Nat /\ Len(y) \in Nat /\ Len(x \o y) = Len(x) + Len(y)
        /\ \A i \in 1 .. Len(x) + Len(y) : (x \o y)[i] =
              IF i <= Len(x) THEN x[i] ELSE y[i - Len(x)]
    BY <2>2, LenProperties, ConcatProperties
  <2>6. Len(x) + Len(y) <= Len(s) /\ Agrees(x)
    BY <1>3, <2>5, <2>a, SMTT(30)
  <2>7. \A m \in 1 .. Len(y) : s[Len(x) + m][1] = f /\ s[Len(x) + m][3] = y[m]
    <3> TAKE m \in 1 .. Len(y)
    <3>1. Len(x) + m \in 1 .. Len(x) + Len(y) /\ ~(Len(x) + m <= Len(x))
          /\ (Len(x) + m) - Len(x) = m
      BY <2>5
    <3>2. (x \o y)[Len(x) + m] = y[m]
      BY <2>5, <3>1
    <3>3. s[Len(x) + m][3] = (x \o y)[Len(x) + m]
      BY <2>5, <2>a, <3>1
    <3>4. Len(x) + m \in 1 .. Len(s)
      BY <1>3, <2>5, <2>6, <3>1
    <3>5. QED BY <3>2, <3>3, <3>4
  <2>8. ~read[Len(x)].esc /\ Decoded(read[Len(x)].bytes, f, data, n)
    BY <2>4, <2>6 DEF Reads, x
  <2>9. LET l == Len(x) + Len(y) IN ~read[l].esc /\ Decoded(read[l].bytes, f, data, n + 1)
    BY <1>2, <1>5, <2>5, <2>6, <2>7, <2>8, DecodeNext DEF y
  <2>10. Len(code[n + 1]) = Len(x) + Len(y)
    BY <2>3, <2>5
  <2>11. QED BY <2>9, <2>10 DEF Reads
<1>6. N \in P
  <2> HIDE DEF P
  <2>1. \A n \in 0 .. N : n \in P
    <3> HIDE DEF N
    <3>1. QED BY <1>3, <1>4, <1>5, UpTo
  <2>2. QED BY <1>3, <2>1
<1> DEFINE c == code[N]
<1>7. c \in Seq(ByteValues)
  <2>1. N \in 0 .. N
    BY <1>3
  <2> HIDE DEF N
  <2>2. QED BY <1>1, <2>1
<1>8. Encoded(data) = Append(c, "END")
  BY <1>1
<1> HIDE DEF c
<1>9. /\ Len(c) \in Nat /\ Len(Encoded(data)) = Len(c) + 1
      /\ \A i \in 1 .. Len(c) : Encoded(data)[i] = c[i]
  BY <1>7, <1>8, AppendProperties, LenProperties, ByteValuesFacts
<1>10. Len(c) = Len(s) /\ Agrees(c)
  BY <1>3, <1>9
<1>11. Reads(N)
  <2> HIDE DEF Reads, Agrees
  <2>1. QED BY <1>6, <1>10 DEF c
<1>12. ~read[Len(c)].esc /\ Decoded(read[Len(c)].bytes, f, data, N)
  BY <1>11 DEF c
<1>13. QED BY <1>2, <1>10, <1>12

-----------------------------------------------------------------------------
(* The stream.                                                             *)

LEMMA CodeFacts ==
    ASSUME NEW fr \in Seq(Packet), NEW f \in 1 .. Len(fr)
    PROVE  /\ Code(fr, f) \in Bytes /\ Len(Code(fr, f)) \in Nat \ {0}
           /\ Len(Code(fr, f)) = Len(Encoded(fr[f].data))
           /\ \A k \in 1 .. Len(Code(fr, f)) :
                 /\ Code(fr, f)[k][1] = f /\ Code(fr, f)[k][2] = k
                 /\ Code(fr, f)[k][3] = Encoded(fr[f].data)[k]
                 /\ Code(fr, f)[k][3] = "END" <=> k = Len(Code(fr, f))
<1> DEFINE e == Encoded(fr[f].data)
           c == [k \in 1 .. Len(e) |-> <<f, k, e[k]>>]
<1>1. fr[f].data \in Seq(ByteValues)
  <2>1. fr[f] \in Packet
    BY ElementOfSeq
  <2>2. QED BY <2>1 DEF Packet
<1>2. /\ e \in Seq(ByteValues) /\ Len(e) \in Nat \ {0}
      /\ \A m \in 1 .. Len(e) : e[m] = "END" <=> m = Len(e)
  BY <1>1, EncodedFacts
<1>3. Code(fr, f) = c
  BY DEF Code, SlipBuffer
<1>4. f \in Nat
  BY LenProperties
<1> HIDE DEF e
<1>5. \A k \in 1 .. Len(e) : e[k] \in ByteValues /\ k \in Nat
  BY <1>2, ElementOfSeq
<1>6. \A k \in 1 .. Len(e) : <<f, k, e[k]>> \in Byte
  BY <1>4, <1>5 DEF Byte
<1>7. c \in Seq(Byte) /\ Len(c) = Len(e)
  BY <1>2, <1>6
<1>8. QED BY <1>2, <1>3, <1>7 DEF Bytes, Byte, e

LEMMA CodeByte ==
    ASSUME NEW fr \in Seq(Packet), NEW f \in 1 .. Len(fr), NEW k \in 1 .. Len(Code(fr, f))
    PROVE  /\ Code(fr, f)[k][1] = f /\ Code(fr, f)[k][2] = k
           /\ Code(fr, f)[k][3] = "END" <=> k = Len(Code(fr, f))
BY CodeFacts

\* The next frame, of which nothing has been written.
LEMMA StreamTaken ==
    ASSUME NEW fr \in Seq(Packet), NEW u \in Bytes, NEW last \in 0 .. Len(fr),
           NEW ct \in SUBSET (1 .. Len(fr)), Stream(fr, u, last, ct), NEW x \in Packet
    PROVE  LET gr == Append(fr, x)
           IN  Stream(gr, u \o Code(gr, Len(fr) + 1), last, ct)
<1> DEFINE n == Len(fr) + 1
           gr == Append(fr, x)
           c == Code(gr, n)
           v == u \o c
<1>1. /\ Len(fr) \in Nat /\ Len(gr) = n /\ gr \in Seq(Packet)
      /\ \A f \in 1 .. Len(fr) : gr[f] = fr[f]
  BY LenProperties, AppendProperties
<1>2. \A f \in 1 .. Len(fr) : Code(gr, f) = Code(fr, f)
  BY <1>1 DEF Code
<1>3. /\ c \in Bytes /\ Len(c) \in Nat \ {0}
      /\ \A k \in 1 .. Len(c) : c[k][1] = n /\ c[k][2] = k /\ (c[k][3] = "END" <=> k = Len(c))
  <2>1. n \in 1 .. Len(gr)
    BY <1>1
  <2> HIDE DEF gr, n
  <2>2. QED BY <1>1, <2>1, CodeFacts
<1> HIDE DEF gr, c
<1>4. /\ Len(u) \in Nat /\ Len(v) = Len(u) + Len(c)
      /\ \A i \in 1 .. Len(u) : v[i] = u[i]
      /\ \A k \in 1 .. Len(c) : v[Len(u) + k] = c[k]
  BY <1>3, LenProperties, ConcatProperties DEF Bytes
<1> HIDE DEF v
<1>5. \A i \in 1 .. Len(v) :
          i \in 1 .. Len(u) \/ (i - Len(u) \in 1 .. Len(c) /\ i = Len(u) + (i - Len(u)))
  BY <1>3, <1>4
<1>a. \A i \in 1 .. Len(v) : i - Len(u) \in 1 .. Len(c) =>
          v[i][1] = n /\ v[i][2] = i - Len(u)
  <2> SUFFICES ASSUME NEW i \in 1 .. Len(v), i - Len(u) \in 1 .. Len(c)
               PROVE  v[i][1] = n /\ v[i][2] = i - Len(u)
    OBVIOUS
  <2>1. v[i] = c[i - Len(u)]
    BY <1>4, <1>5
  <2>2. QED BY <1>3, <2>1
<1>6. Whole(gr, v)
  <2> SUFFICES ASSUME NEW i \in 1 .. Len(v)
               PROVE  /\ v[i][1] \in 1 .. Len(gr) /\ v[i][2] \in 1 .. Len(Code(gr, v[i][1]))
                      /\ v[i][2] <= i
                      /\ \A m \in 1 .. v[i][2] : v[i - v[i][2] + m] = Code(gr, v[i][1])[m]
    BY DEF Whole
  <2>1. CASE i \in 1 .. Len(u)
    <3>1. /\ u[i][1] \in 1 .. Len(fr) /\ u[i][2] \in 1 .. Len(Code(fr, u[i][1]))
          /\ u[i][2] <= i
          /\ \A m \in 1 .. u[i][2] : u[i - u[i][2] + m] = Code(fr, u[i][1])[m]
      BY <2>1 DEF Stream, Whole
    <3>2. v[i] = u[i] /\ Code(gr, u[i][1]) = Code(fr, u[i][1]) /\ u[i][1] \in 1 .. Len(gr)
      BY <1>1, <1>2, <1>4, <2>1, <3>1
    <3>3. u[i][2] \in Nat
      <4>1. u[i] \in Byte
        BY <2>1, ElementOfSeq DEF Bytes, Byte
      <4>2. QED BY <4>1 DEF Byte
    <3>4. \A m \in 1 .. u[i][2] : i - u[i][2] + m \in 1 .. Len(u)
      BY <1>4, <2>1, <3>1, <3>3, SMTT(30)
    <3>5. \A m \in 1 .. u[i][2] : v[i - u[i][2] + m] = u[i - u[i][2] + m]
      BY <1>4, <3>4
    <3>6. QED BY <3>1, <3>2, <3>5
  <2>2. CASE i - Len(u) \in 1 .. Len(c)
    <3> DEFINE k == i - Len(u)
    <3>1. v[i] = c[k] /\ v[i][1] = n /\ v[i][2] = k
      BY <1>3, <1>4, <1>5, <2>2, SMTT(30)
    <3>2. n \in 1 .. Len(gr) /\ k <= i /\ k \in 1 .. Len(c)
      BY <1>1, <1>4, <2>2
    <3>3. \A m \in 1 .. k : i - k + m = Len(u) + m /\ m \in 1 .. Len(c)
      BY <1>3, <1>4, <2>2
    <3>4. \A m \in 1 .. k : v[i - k + m] = c[m]
      BY <1>4, <3>3
    <3>5. QED BY <3>1, <3>2, <3>4 DEF c
  <2>3. QED BY <1>5, <2>1, <2>2
<1>7. InLine(v)
  <2> SUFFICES ASSUME NEW i \in 1 .. Len(v), NEW j \in 1 .. Len(v), i < j
               PROVE  v[i][1] < v[j][1] \/ (v[i][1] = v[j][1] /\ v[j][2] = v[i][2] + (j - i))
    BY DEF InLine
  <2>1. CASE i \in 1 .. Len(u) /\ j \in 1 .. Len(u)
    BY <1>4, <2>1, SMTT(30) DEF Stream, InLine
  <2>2. CASE i \in 1 .. Len(u) /\ j - Len(u) \in 1 .. Len(c)
    <3>1. v[i][1] \in 1 .. Len(fr)
      BY <1>4, <2>2 DEF Stream, Whole
    <3>2. v[j][1] = n
      BY <1>3, <1>4, <1>5, <2>2
    <3>3. QED BY <1>1, <3>1, <3>2
  <2>3. CASE i - Len(u) \in 1 .. Len(c) /\ j - Len(u) \in 1 .. Len(c)
    <3>1. v[i][1] = n /\ v[j][1] = n /\ v[i][2] = i - Len(u) /\ v[j][2] = j - Len(u)
      BY <1>a, <2>3
    <3>2. j - Len(u) = (i - Len(u)) + (j - i)
      BY <1>4
    <3>3. QED BY <3>1, <3>2
  <2>4. CASE i - Len(u) \in 1 .. Len(c) /\ j \in 1 .. Len(u)
    BY <1>4, <2>4
  <2>5. QED BY <1>5, <2>1, <2>2, <2>3, <2>4
<1>8. Ending(gr, v, last, ct)
  <2>1. \A j \in 1 .. Len(u) : j \in 1 .. Len(v) /\ v[j] = u[j] /\ j < Len(u) + 1
    BY <1>3, <1>4
  <2>2. \A f \in last + 1 .. Len(fr) : f \in ct \/ \E j \in 1 .. Len(u) : IsEnd(u[j], f)
    BY DEF Stream, Ending
  <2>3. ASSUME NEW i \in 1 .. Len(v)
        PROVE  /\ last < v[i][1]
               /\ v[i][1] \in ct => v[i][3] # "END"
               /\ \A f \in last + 1 .. v[i][1] - 1 :
                     f \in ct \/ \E j \in 1 .. Len(v) : j < i /\ IsEnd(v[j], f)
    <3>1. CASE i \in 1 .. Len(u)
      <4>1. /\ last < u[i][1]
            /\ u[i][1] \in ct => u[i][3] # "END"
            /\ \A f \in last + 1 .. u[i][1] - 1 :
                  f \in ct \/ \E j \in 1 .. Len(u) : j < i /\ IsEnd(u[j], f)
        BY <3>1 DEF Stream, Ending
      <4>2. QED BY <2>1, <3>1, <4>1
    <3>2. CASE i - Len(u) \in 1 .. Len(c)
      <4>1. v[i][1] = n /\ last < n /\ n \notin ct /\ n - 1 = Len(fr)
        <5>1. v[i][1] = n
          BY <1>a, <3>2
        <5>2. QED BY <1>1, <5>1
      <4>2. \A j \in 1 .. Len(u) : j < i
        BY <1>4, <3>2
      <4>3. \A f \in last + 1 .. Len(fr) :
                f \in ct \/ \E j \in 1 .. Len(v) : j < i /\ IsEnd(v[j], f)
        BY <2>1, <2>2, <4>2
      <4>4. QED BY <4>1, <4>3
    <3>3. QED BY <1>5, <3>1, <3>2
  <2>4. ASSUME NEW f \in last + 1 .. Len(gr)
        PROVE  f \in ct \/ \E j \in 1 .. Len(v) : IsEnd(v[j], f)
    <3>1. CASE f \in last + 1 .. Len(fr)
      BY <2>1, <2>2, <3>1
    <3>2. CASE f = n
      <4>1. Len(v) \in 1 .. Len(v) /\ v[Len(v)] = c[Len(c)] /\ Len(c) \in 1 .. Len(c)
        BY <1>3, <1>4
      <4>2. QED BY <1>3, <3>2, <4>1 DEF IsEnd
    <3>3. QED BY <1>1, <3>1, <3>2
  <2>5. QED BY <2>3, <2>4 DEF Ending
<1>9. Stream(gr, v, last, ct)
  BY <1>6, <1>7, <1>8 DEF Stream
<1>10. QED BY <1>9 DEF v, c, gr

\* The rest of the last frame is not written.
LEMMA StreamCut ==
    ASSUME NEW fr \in Seq(Packet), NEW u \in Bytes, NEW last \in 0 .. Len(fr),
           NEW ct, Stream(fr, u, last, ct),
           NEW v \in Bytes, Len(v) < Len(u), \A i \in 1 .. Len(v) : v[i] = u[i],
           \A i \in 1 .. Len(u) : Len(v) < i => u[i][1] = Len(fr)
    PROVE  Stream(fr, v, last, ct \cup {Len(fr)})
<1> DEFINE n == Len(fr)
<1>1. Len(u) \in Nat /\ Len(v) \in Nat /\ n \in Nat
  BY LenProperties DEF Bytes
<1>2. \A i \in 1 .. Len(v) : i \in 1 .. Len(u) /\ v[i] = u[i]
  BY <1>1
<1>3. \A i \in 1 .. Len(u) : u[i] \in Byte /\ u[i][2] \in Nat
  <2>1. \A i \in 1 .. Len(u) : u[i] \in Byte
    BY ElementOfSeq DEF Bytes, Byte
  <2>2. QED BY <2>1, ByteFacts
<1>4. Whole(fr, v)
  <2> SUFFICES ASSUME NEW i \in 1 .. Len(v)
               PROVE  /\ v[i][1] \in 1 .. Len(fr) /\ v[i][2] \in 1 .. Len(Code(fr, v[i][1]))
                      /\ v[i][2] <= i
                      /\ \A m \in 1 .. v[i][2] : v[i - v[i][2] + m] = Code(fr, v[i][1])[m]
    BY DEF Whole
  <2>1. /\ u[i][1] \in 1 .. Len(fr) /\ u[i][2] \in 1 .. Len(Code(fr, u[i][1]))
        /\ u[i][2] <= i
        /\ \A m \in 1 .. u[i][2] : u[i - u[i][2] + m] = Code(fr, u[i][1])[m]
    BY <1>2 DEF Stream, Whole
  <2>2. \A m \in 1 .. u[i][2] : i - u[i][2] + m \in 1 .. Len(v)
    BY <1>1, <1>2, <1>3, <2>1, SMTT(30)
  <2>3. QED BY <1>2, <2>1, <2>2
<1>5. InLine(v)
  BY <1>2 DEF Stream, InLine
<1>6. Len(u) \in 1 .. Len(u) /\ u[Len(u)][1] = n /\ last < n
  BY <1>1 DEF Stream, Ending
<1>7. ASSUME NEW i \in 1 .. Len(v), v[i][1] = n PROVE v[i][3] # "END"
  <2>1. i < Len(u) /\ i \in 1 .. Len(u) /\ u[i][1] = n
    BY <1>1, <1>7
  <2>2. u[Len(u)][2] = u[i][2] + (Len(u) - i)
    BY <1>1, <1>6, <2>1, SMTT(30) DEF Stream, InLine
  <2>3. /\ n \in 1 .. Len(fr) /\ u[Len(u)][2] \in 1 .. Len(Code(fr, n))
        /\ u[i][2] \in 1 .. Len(Code(fr, n))
        /\ \A m \in 1 .. u[i][2] : u[i - u[i][2] + m] = Code(fr, n)[m]
    BY <1>6, <2>1 DEF Stream, Whole
  <2>4. u[i][2] \in 1 .. u[i][2] /\ i - u[i][2] + u[i][2] = i
    BY <1>3, <2>1, <2>3
  <2>5. u[i] = Code(fr, n)[u[i][2]]
    BY <2>3, <2>4
  <2>6. u[i][2] # Len(Code(fr, n))
    BY <1>1, <1>3, <2>1, <2>2, <2>3, CodeFacts
  <2>7. \A q \in 1 .. Len(Code(fr, n)) :
            q # Len(Code(fr, n)) => Code(fr, n)[q][3] # "END"
    <3>1. ASSUME NEW f \in 1 .. Len(fr), NEW q \in 1 .. Len(Code(fr, f)), q # Len(Code(fr, f))
          PROVE  Code(fr, f)[q][3] # "END"
      <4>1. Code(fr, f)[q][3] = "END" <=> q = Len(Code(fr, f))
        BY CodeByte
      <4>2. QED BY <3>1, <4>1
    <3>2. n \in 1 .. Len(fr)
      BY <2>3
    <3> HIDE DEF n
    <3>3. QED BY <3>1, <3>2
  <2>8. Code(fr, n)[u[i][2]][3] # "END"
    BY <2>3, <2>6, <2>7
  <2>9. QED BY <1>2, <2>5, <2>8
<1>8. Ending(fr, v, last, ct \cup {n})
  <2>1. ASSUME NEW i \in 1 .. Len(v)
        PROVE  /\ last < v[i][1]
               /\ v[i][1] \in ct \cup {n} => v[i][3] # "END"
               /\ \A f \in last + 1 .. v[i][1] - 1 :
                     f \in ct \cup {n} \/ \E j \in 1 .. Len(v) : j < i /\ IsEnd(v[j], f)
    <3>1. /\ last < u[i][1]
          /\ u[i][1] \in ct => u[i][3] # "END"
          /\ \A f \in last + 1 .. u[i][1] - 1 :
                f \in ct \/ \E j \in 1 .. Len(u) : j < i /\ IsEnd(u[j], f)
      BY <1>2 DEF Stream, Ending
    <3>2. \A j \in 1 .. Len(u) : j < i => j \in 1 .. Len(v) /\ v[j] = u[j]
      BY <1>1, <1>2
    <3>3. QED BY <1>2, <1>7, <3>1, <3>2
  <2>2. ASSUME NEW f \in last + 1 .. Len(fr), f # n
        PROVE  f \in ct \/ \E j \in 1 .. Len(v) : IsEnd(v[j], f)
    <3>1. f \in ct \/ \E j \in 1 .. Len(u) : IsEnd(u[j], f)
      BY DEF Stream, Ending
    <3>2. \A j \in 1 .. Len(u) : IsEnd(u[j], f) => j \in 1 .. Len(v)
      BY <1>1, <2>2 DEF IsEnd
    <3>3. QED BY <1>2, <3>1, <3>2
  <2>3. QED BY <2>1, <2>2 DEF Ending
<1>9. QED BY <1>4, <1>5, <1>8 DEF Stream

\* The first END of u is at k + 1, and v is the rest.
FirstEnd(u, k, v) ==
    /\ k < Len(u) /\ u[k + 1][3] = "END" /\ \A i \in 1 .. k : u[i][3] # "END"
    /\ Len(v) = Len(u) - (k + 1) /\ \A i \in 1 .. Len(v) : v[i] = u[k + 1 + i]

\* It is the END of f, the first after last that was not cut, and before it there is all
\* of f, and nothing else unless the one before was cut.
Splits(fr, u, k, v, last, ct, f) ==
    /\ f \in 1 .. Len(fr) /\ last < f /\ f \notin ct
    /\ \A g \in last + 1 .. f - 1 : g \in ct
    /\ Stream(fr, v, f, ct)
    /\ f - 1 \notin ct =>
          k = Len(Code(fr, f)) - 1 /\ \A m \in 1 .. k : u[m] = Code(fr, f)[m]

\* The bridge splits the stream at its first END.
LEMMA StreamSplit ==
    ASSUME NEW fr \in Seq(Packet), NEW u \in Bytes, NEW last \in 0 .. Len(fr),
           NEW ct, Stream(fr, u, last, ct),
           NEW k \in Nat, NEW v \in Bytes, FirstEnd(u, k, v)
    PROVE  Splits(fr, u, k, v, last, ct, u[k + 1][1])
<1> /\ k < Len(u) /\ u[k + 1][3] = "END" /\ \A i \in 1 .. k : u[i][3] # "END"
    /\ Len(v) = Len(u) - (k + 1) /\ \A i \in 1 .. Len(v) : v[i] = u[k + 1 + i]
  BY DEF FirstEnd
<1> DEFINE f == u[k + 1][1]
           e == k + 1
<1>1. Len(u) \in Nat /\ Len(v) \in Nat /\ Len(fr) \in Nat /\ e \in 1 .. Len(u)
  BY LenProperties DEF Bytes
<1>2. \A i \in 1 .. Len(u) : u[i] \in Byte /\ u[i][1] \in Nat /\ u[i][2] \in Nat
  <2>1. \A i \in 1 .. Len(u) : u[i] \in Byte
    BY ElementOfSeq DEF Bytes, Byte
  <2>2. QED BY <2>1, ByteFacts
<1>3. /\ f \in 1 .. Len(fr) /\ u[e][2] \in 1 .. Len(Code(fr, f)) /\ u[e][2] <= e
      /\ \A m \in 1 .. u[e][2] : u[e - u[e][2] + m] = Code(fr, f)[m]
  BY <1>1 DEF Stream, Whole
<1>4. u[e][2] = Len(Code(fr, f))
  <2>1. u[e][2] \in 1 .. u[e][2] /\ e - u[e][2] + u[e][2] = e
    BY <1>1, <1>2, <1>3, SMTT(30)
  <2>2. u[e] = Code(fr, f)[u[e][2]]
    BY <1>3, <2>1
  <2>3. QED BY <1>3, <2>2, CodeFacts, SMTT(30)
<1>5. last < f /\ f \notin ct
  BY <1>1 DEF Stream, Ending
<1>6. \A g \in last + 1 .. f - 1 : g \in ct
  <2> SUFFICES ASSUME NEW g \in last + 1 .. f - 1, g \notin ct PROVE FALSE
    OBVIOUS
  <2>1. \E j \in 1 .. Len(u) : j < e /\ IsEnd(u[j], g)
    BY <1>1 DEF Stream, Ending
  <2>2. QED BY <1>1, <2>1 DEF IsEnd
<1>7. ASSUME NEW i \in 1 .. Len(u), e < i PROVE f < u[i][1] /\ u[i][2] < i - k
  <2>1. f < u[i][1] \/ (f = u[i][1] /\ u[i][2] = u[e][2] + (i - e))
    BY <1>1, <1>7 DEF Stream, InLine
  <2>2. /\ u[i][1] \in 1 .. Len(fr) /\ u[i][2] \in 1 .. Len(Code(fr, u[i][1]))
        /\ \A m \in 1 .. u[i][2] : u[i - u[i][2] + m] = Code(fr, u[i][1])[m]
    BY DEF Stream, Whole
  <2>3. f < u[i][1]
    <3> SUFFICES ASSUME f = u[i][1], u[i][2] = u[e][2] + (i - e) PROVE FALSE
      BY <2>1
    <3>1. Len(Code(fr, f)) \in Nat
      BY <1>3, CodeFacts
    <3>2. QED BY <1>1, <1>2, <1>4, <1>7, <2>2, <3>1
  <2>4. ASSUME u[i][2] >= i - k PROVE FALSE
    <3> DEFINE m == u[i][2] - (i - e)
    <3>1. m \in 1 .. u[i][2] /\ i - u[i][2] + m = e
      BY <1>1, <1>2, <1>7, <2>4, SMTT(30)
    <3>2. u[e] = Code(fr, u[i][1])[m]
      BY <2>2, <3>1
    <3>3. m \in 1 .. Len(Code(fr, u[i][1]))
      <4>1. Len(Code(fr, u[i][1])) \in Nat
        BY <2>2, CodeFacts
      <4>2. QED BY <1>2, <2>2, <3>1, <4>1
    <3> DEFINE g == u[i][1]
    <3> HIDE DEF m, g
    <3>a. g \in 1 .. Len(fr) /\ m \in 1 .. Len(Code(fr, g))
      BY <2>2, <3>3 DEF g
    <3>b. Code(fr, g)[m][1] = g
      BY <3>a, CodeByte
    <3>4. u[e][1] = u[i][1]
      BY <3>2, <3>b DEF g
    <3>5. QED BY <1>2, <2>3, <3>4
  <2>5. u[i][2] \in Nat /\ i - k \in Int
    BY <1>2
  <2>6. u[i][2] < i - k
    <3> DEFINE p == u[i][2]
               l == i - k
    <3>1. p \in Nat /\ l \in Int /\ ~(p >= l)
      BY <2>4, <2>5
    <3> HIDE DEF p, l
    <3>2. p < l
      BY <3>1
    <3>3. QED BY <3>2 DEF p, l
  <2>7. QED BY <2>3, <2>6
<1>8. \A i \in 1 .. Len(v) : e + i \in 1 .. Len(u) /\ e < e + i /\ v[i] = u[e + i]
  BY <1>1
<1>9. Whole(fr, v)
  <2> SUFFICES ASSUME NEW i \in 1 .. Len(v)
               PROVE  /\ v[i][1] \in 1 .. Len(fr) /\ v[i][2] \in 1 .. Len(Code(fr, v[i][1]))
                      /\ v[i][2] <= i
                      /\ \A m \in 1 .. v[i][2] : v[i - v[i][2] + m] = Code(fr, v[i][1])[m]
    BY DEF Whole
  <2> DEFINE p == u[e + i][2]
  <2>1. /\ u[e + i][1] \in 1 .. Len(fr) /\ p \in 1 .. Len(Code(fr, u[e + i][1]))
        /\ \A m \in 1 .. p : u[(e + i) - p + m] = Code(fr, u[e + i][1])[m]
    BY <1>8 DEF Stream, Whole
  <2>2. p < (e + i) - k /\ p \in Nat
    BY <1>2, <1>7, <1>8
  <2> HIDE DEF p
  <2>3. p <= i
    BY <1>1, <2>2
  <2>4. \A m \in 1 .. p : (i - p) + m \in 1 .. Len(v) /\ e + ((i - p) + m) = (e + i) - p + m
    BY <1>1, <2>2, <2>3
  <2>5. \A m \in 1 .. p : v[i - p + m] = u[(e + i) - p + m]
    BY <1>8, <2>4
  <2>6. v[i] = u[e + i] /\ v[i][2] = p
    BY <1>8 DEF p
  <2>7. QED BY <2>1, <2>3, <2>5, <2>6
<1>10. InLine(v)
  <2> SUFFICES ASSUME NEW i \in 1 .. Len(v), NEW j \in 1 .. Len(v), i < j
               PROVE  v[i][1] < v[j][1] \/ (v[i][1] = v[j][1] /\ v[j][2] = v[i][2] + (j - i))
    BY DEF InLine
  <2>1. e + i < e + j /\ (e + j) - (e + i) = j - i
    BY <1>1
  <2>2. \/ u[e + i][1] < u[e + j][1]
        \/ u[e + i][1] = u[e + j][1] /\ u[e + j][2] = u[e + i][2] + ((e + j) - (e + i))
    BY <1>8, <2>1 DEF Stream, InLine
  <2>3. QED BY <1>8, <2>1, <2>2
<1>11. Ending(fr, v, f, ct)
  <2>1. ASSUME NEW g \in f + 1 .. Len(fr), NEW j \in 1 .. Len(u), IsEnd(u[j], g)
        PROVE  j - e \in 1 .. Len(v) /\ IsEnd(v[j - e], g)
    <3>1. g # f /\ ~(g < f)
      BY <1>1, <1>3, SMTT(30)
    <3>2. j # e
      BY <2>1, <3>1 DEF IsEnd
    <3>3. ~(j < e)
      BY <1>1, <2>1 DEF IsEnd
    <3>4. j - e \in 1 .. Len(v) /\ e + (j - e) = j
      BY <1>1, <3>2, <3>3
    <3>5. QED BY <1>8, <2>1, <3>4
  <2>2. ASSUME NEW i \in 1 .. Len(v)
        PROVE  /\ f < v[i][1]
               /\ v[i][1] \in ct => v[i][3] # "END"
               /\ \A g \in f + 1 .. v[i][1] - 1 :
                     g \in ct \/ \E j \in 1 .. Len(v) : j < i /\ IsEnd(v[j], g)
    <3>1. /\ u[e + i][1] \in ct => u[e + i][3] # "END"
          /\ \A g \in last + 1 .. u[e + i][1] - 1 :
                g \in ct \/ \E j \in 1 .. Len(u) : j < e + i /\ IsEnd(u[j], g)
          /\ u[e + i][1] \in 1 .. Len(fr)
      BY <1>8 DEF Stream, Ending, Whole
    <3>2. v[i] = u[e + i] /\ f < u[e + i][1]
      BY <1>7, <1>8
    <3>3. ASSUME NEW g \in f + 1 .. u[e + i][1] - 1, g \notin ct
          PROVE  \E j \in 1 .. Len(v) : j < i /\ IsEnd(v[j], g)
      <4>1. g \in last + 1 .. u[e + i][1] - 1 /\ g \in f + 1 .. Len(fr)
        <5> DEFINE h == u[e + i][1]
        <5>1. h \in 1 .. Len(fr) /\ f \in Nat /\ last < f
          BY <1>3, <1>5, <3>1, SMTT(30)
        <5>2. ASSUME NEW H \in 1 .. Len(fr), NEW F \in Nat, last < F, NEW G \in F + 1 .. H - 1
              PROVE  G \in last + 1 .. H - 1 /\ G \in F + 1 .. Len(fr)
          BY <1>1, <5>2
        <5> HIDE DEF h, f
        <5>3. g \in f + 1 .. h - 1
          BY DEF h
        <5>4. QED BY <5>1, <5>2, <5>3 DEF h
      <4>2. PICK j \in 1 .. Len(u) : j < e + i /\ IsEnd(u[j], g)
        BY <3>1, <3>3, <4>1
      <4>3. j - e \in 1 .. Len(v) /\ IsEnd(v[j - e], g)
        BY <2>1, <4>1, <4>2
      <4>4. j - e < i
        BY <1>1, <4>2
      <4>5. QED BY <4>3, <4>4
    <3>4. QED BY <3>1, <3>2, <3>3
  <2>3. ASSUME NEW g \in f + 1 .. Len(fr)
        PROVE  g \in ct \/ \E j \in 1 .. Len(v) : IsEnd(v[j], g)
    <3>1. g \in last + 1 .. Len(fr)
      BY <1>1, <1>3, <1>5
    <3>2. g \in ct \/ \E j \in 1 .. Len(u) : IsEnd(u[j], g)
      BY <3>1 DEF Stream, Ending
    <3>3. QED BY <2>1, <3>2
  <2>4. QED BY <2>2, <2>3 DEF Ending
<1>12. ASSUME f - 1 \notin ct
       PROVE  k = Len(Code(fr, f)) - 1 /\ \A m \in 1 .. k : u[m] = Code(fr, f)[m]
  <2> DEFINE l == Len(Code(fr, f))
  <2>1. f - 1 = last /\ l \in Nat \ {0}
    <3>1. l \in Nat \ {0}
      BY <1>3, CodeFacts
    <3>2. f - 1 \notin last + 1 .. f - 1
      BY <1>6, <1>12
    <3>3. f \in Nat /\ last < f /\ last \in Nat
      BY <1>1, <1>3, <1>5, SMTT(30)
    <3> HIDE DEF f
    <3>4. f - 1 = last
      BY <3>2, <3>3
    <3>5. QED BY <3>1, <3>4
  <2>2. l <= e /\ u[e][2] = l
    BY <1>3, <1>4
  <2> HIDE DEF l
  <2>3. ASSUME l < e PROVE FALSE
    <3> DEFINE i == e - l
    <3>1. i \in 1 .. Len(u) /\ i < e /\ e - i = l
      BY <1>1, <2>1, <2>3
    <3> HIDE DEF i
    <3>2. last < u[i][1] /\ u[i][2] >= 1
      <4>1. last < u[i][1]
        BY <3>1 DEF Stream, Ending
      <4>2. u[i][1] \in 1 .. Len(fr) /\ u[i][2] \in 1 .. Len(Code(fr, u[i][1]))
        BY <3>1 DEF Stream, Whole
      <4>3. QED BY <4>1, <4>2
    <3>3. u[i][1] < f \/ (u[i][1] = f /\ u[e][2] = u[i][2] + (e - i))
      BY <1>1, <3>1 DEF Stream, InLine
    <3>4. u[i][1] \in Nat /\ u[i][2] \in Nat
      BY <1>2, <3>1
    <3> DEFINE h == u[i][1]
               q == u[i][2]
    <3>5. /\ f \in Nat /\ last \in Nat /\ h \in Nat /\ q \in Nat /\ f - 1 = last /\ last < h
          /\ q >= 1 /\ (h < f \/ l = q + l)
      BY <1>1, <1>3, <2>1, <2>2, <3>1, <3>2, <3>3, <3>4, SMTT(30)
    <3> HIDE DEF f, h, q
    <3>6. QED BY <2>1, <3>5
  <2>4. l = e
    BY <1>1, <2>1, <2>2, <2>3
  <2>5. k = l - 1
    BY <2>1, <2>4
  <2>6. \A m \in 1 .. k : m \in 1 .. l /\ e - l + m = m
    BY <1>1, <2>1, <2>4
  <2>7. \A m \in 1 .. l : u[e - l + m] = Code(fr, f)[m]
    BY <1>3, <2>2
  <2>8. QED BY <2>5, <2>6, <2>7 DEF l
<1>13. Stream(fr, v, f, ct)
  BY <1>9, <1>10, <1>11 DEF Stream
<1>14. QED BY <1>3, <1>5, <1>6, <1>12, <1>13 DEF Splits

-----------------------------------------------------------------------------
(* Packets.                                                                *)

LEMMA HonestGrows ==
    ASSUME NEW q, NEW done, NEW more, done \subseteq more, AllHonest(q, done)
    PROVE  AllHonest(q, more)
BY DEF AllHonest, Honest

LEMMA HonestAppend ==
    ASSUME NEW q \in Seq(Packet), NEW p \in Packet, NEW done, AllHonest(q, done), Honest(p, done)
    PROVE  AllHonest(Append(q, p), done)
<1>1. /\ Len(Append(q, p)) = Len(q) + 1 /\ Len(q) \in Nat
      /\ \A i \in 1 .. Len(q) : Append(q, p)[i] = q[i]
      /\ Append(q, p)[Len(q) + 1] = p
  BY AppendProperties, LenProperties
<1>2. \A i \in 1 .. Len(Append(q, p)) : i \in 1 .. Len(q) \/ i = Len(q) + 1
  BY <1>1
<1>3. QED BY <1>1, <1>2 DEF AllHonest

LEMMA HonestTail ==
    ASSUME NEW q \in Seq(Packet), q # <<>>, NEW done, AllHonest(q, done)
    PROVE  /\ AllHonest(Tail(q), done) /\ Honest(Head(q), done)
           /\ Head(q) \in Packet /\ Tail(q) \in Seq(Packet)
<1>1. /\ Head(q) \in Packet /\ Tail(q) \in Seq(Packet) /\ Len(Tail(q)) = Len(q) - 1
      /\ \A i \in 1 .. Len(Tail(q)) : Tail(q)[i] = q[i + 1]
  BY HeadTailProperties
<1>2. Len(q) \in Nat /\ Len(q) > 0
  BY LenProperties, EmptySeq
<1>3. Head(q) = q[1]
  OBVIOUS
<1>4. \A i \in 1 .. Len(Tail(q)) : i + 1 \in 1 .. Len(q)
  BY <1>1, <1>2
<1>5. QED BY <1>1, <1>2, <1>3, <1>4 DEF AllHonest

LEMMA Reply ==
    ASSUME NEW kind \in {"M", "R"}, NEW a \in ByteValues, NEW b \in ByteValues
    PROVE  LET p == [kind |-> kind, data |-> <<"!", kind>> \o <<a, b>> \o <<"x">>]
           IN  p \in Packet /\ p.kind = kind /\ p.data = <<"!", kind, a, b, "x">>
<1>1. <<"!", kind>> \o <<a, b>> \o <<"x">> = <<"!", kind, a, b, "x">>
  <2> DEFINE s == <<"!", kind>>
             t == <<a, b>>
             u == <<"x">>
  <2>1. /\ s \in Seq(ByteValues) /\ Len(s) = 2 /\ s[1] = "!" /\ s[2] = kind
        /\ t \in Seq(ByteValues) /\ Len(t) = 2 /\ t[1] = a /\ t[2] = b
        /\ u \in Seq(ByteValues) /\ Len(u) = 1 /\ u[1] = "x"
    BY ByteValuesFacts
  <2> HIDE DEF s, t, u
  <2>2. /\ s \o t \in Seq(ByteValues) /\ Len(s \o t) = 4
        /\ (s \o t)[1] = "!" /\ (s \o t)[2] = kind /\ (s \o t)[3] = a /\ (s \o t)[4] = b
    <3>a. s \in Seq(ByteValues) /\ t \in Seq(ByteValues)
      BY <2>1
    <3>b. /\ s \o t \in Seq(ByteValues) /\ Len(s \o t) = Len(s) + Len(t)
          /\ \A i \in 1 .. Len(s) + Len(t) :
                (s \o t)[i] = IF i <= Len(s) THEN s[i] ELSE t[i - Len(s)]
      BY <3>a, ConcatProperties
    <3>c. Len(s) = 2 /\ Len(s) + Len(t) = 4
      BY <2>1
    <3>1. s \o t \in Seq(ByteValues) /\ Len(s \o t) = 4
      BY <3>b, <3>c
    <3>2. \A i \in 1 .. 4 : (s \o t)[i] = IF i <= 2 THEN s[i] ELSE t[i - 2]
      BY <3>b, <3>c
    <3>3. ASSUME NEW c, \A i \in 1 .. 4 : c[i] = IF i <= 2 THEN s[i] ELSE t[i - 2]
          PROVE  c[1] = s[1] /\ c[2] = s[2] /\ c[3] = t[1] /\ c[4] = t[2]
      BY <3>3
    <3>4. QED BY <2>1, <3>1, <3>2, <3>3
  <2> DEFINE w == (s \o t) \o u
             x == <<"!", kind, a, b, "x">>
  <2>3. /\ w \in Seq(ByteValues) /\ Len(w) = 5
        /\ w[1] = "!" /\ w[2] = kind /\ w[3] = a /\ w[4] = b /\ w[5] = "x"
    BY <2>1, <2>2, ConcatProperties
  <2>4. /\ x \in Seq(ByteValues) /\ Len(x) = 5
        /\ x[1] = "!" /\ x[2] = kind /\ x[3] = a /\ x[4] = b /\ x[5] = "x"
    BY ByteValuesFacts
  <2> HIDE DEF w, x
  <2>5. \A i \in 1 .. Len(w) : w[i] = x[i]
    BY <2>3, <2>4
  <2>6. w = x
    BY <2>3, <2>4, <2>5, SeqEqual
  <2>7. QED BY <2>6 DEF w, x, s, t, u
<1>2. <<"!", kind, a, b, "x">> \in Seq(ByteValues)
  BY ByteValuesFacts
<1>3. QED BY <1>1, <1>2 DEF Packet

-----------------------------------------------------------------------------
(* Types.                                                                  *)

LEMMA Typed ==
    ASSUME TypeOK
    PROVE  /\ cmds \in Seq(Command) /\ rx_queue \in Seq(Command)
           /\ tx_queue \in Seq(Packet) /\ frames \in Seq(Packet)
           /\ out \in Bytes /\ ring \in Bytes /\ slip_buffer \in Bytes
           /\ Len(frames) \in Nat /\ DOMAIN frames = 1 .. Len(frames)
<1>1. /\ cmds \in Seq(Command) /\ rx_queue \in Seq(Command)
      /\ tx_queue \in Seq(Packet) /\ frames \in Seq(Packet)
      /\ out \in Bytes /\ ring \in Bytes /\ slip_buffer \in Bytes
  BY DEF TypeOK, Command, Packet
<1>2. QED BY <1>1, LenProperties

\* Types, in the form the steps use.
Types ==
    /\ boot \in {"dtr", "radio", "irq", "running", "failed"} /\ mac_addr \in {"unset", "mac"}
    /\ cmds \in Seq(Command) /\ rx_queue \in Seq(Command)
    /\ tx_queue \in Seq(Packet) /\ frames \in Seq(Packet)
    /\ out \in Bytes /\ ring \in Bytes /\ slip_buffer \in Bytes /\ Len(ring) <= RingSize
    /\ arrived \in 0 .. MaxRadio /\ tunRead \in 0 .. MaxTun /\ seq \in 0 .. SeqRange - 1
    /\ bridge \in {"start", "running"}
    /\ radio_mac \in Seq(ByteValues) /\ Len(radio_mac) \in {0, 2}
    /\ ends \in Seq(DOMAIN frames) /\ message \in Bytes
    /\ taken \in {"none", "M", "R", "tun"}
    /\ radioed \subseteq 0 .. SeqRange - 1 /\ lost \subseteq {"M", "S", "R"}
    /\ cut \subseteq DOMAIN frames

LEMMA TypesAre == TypeOK <=> Types
BY DEF TypeOK, Types, Command, Packet

LEMMA SeqRangeFacts ==
    /\ SeqRange \in Nat \ {0}
    /\ \A n \in 0 .. SeqRange - 1 : Digit(n) \in ByteValues /\ (n + 1) % SeqRange \in 0 .. SeqRange - 1
<1>1. SeqRange \in Nat \ {0}
  BY UsbBridgeAssumption, EmptySeq DEF SeqRange
<1>2. ASSUME NEW n \in 0 .. SeqRange - 1 PROVE Digit(n) \in ByteValues
  <2>1. n + 1 \in 1 .. Len(Digits)
    BY <1>1 DEF SeqRange
  <2>2. QED BY <2>1, ByteValuesFacts, ElementOfSeq DEF Digit
<1>3. ASSUME NEW n \in 0 .. SeqRange - 1 PROVE (n + 1) % SeqRange \in 0 .. SeqRange - 1
  BY <1>1
<1>4. QED BY <1>1, <1>2, <1>3

LEMMA InitInvariant == Init => IInv
<1> SUFFICES ASSUME Init PROVE IInv
  OBVIOUS
<1>1. Types
  BY SeqRangeFacts, UsbBridgeAssumption, EmptySeq DEF Init, Types, Bytes
<1>2. AtWork
  <2>1. Unread = <<>> /\ frames = <<>> /\ Len(<<>>) = 0 /\ LastEnd(ends) = 0
    BY ConcatEmptySeq, EmptySeq DEF Init, Unread, LastEnd
  <2>2. QED BY <2>1 DEF Init, AtWork, Stream, Whole, InLine, Ending
<1>3. Packets /\ Booted /\ CutsSpoilNeighbours /\ BridgeBelieves
  BY DEF Init, Packets, AllHonest, Booted, CutsSpoilNeighbours, BridgeBelieves
<1>4. QED BY <1>1, <1>2, <1>3, TypesAre DEF IInv

-----------------------------------------------------------------------------
(* Steps that write nothing to the ring and take nothing from it.          *)

Wire == <<frames, out, ring, slip_buffer, ends, message, taken, radio_mac, cut>>

LEMMA QuietStep ==
    ASSUME IInv, UNCHANGED Wire, radioed \subseteq radioed'
    PROVE  /\ AtWork' /\ AllHonest(frames', radioed')
           /\ CutsSpoilNeighbours' /\ BridgeBelieves'
<1>1. /\ frames' = frames /\ out' = out /\ ring' = ring /\ slip_buffer' = slip_buffer
      /\ ends' = ends /\ message' = message /\ taken' = taken /\ radio_mac' = radio_mac
      /\ cut' = cut
  BY DEF Wire
<1>2. AtWork'
  BY <1>1 DEF IInv, AtWork, Unread
<1>3. AllHonest(frames', radioed')
  BY <1>1, HonestGrows DEF IInv, Packets
<1>4. CutsSpoilNeighbours'
  BY <1>1 DEF IInv, CutsSpoilNeighbours, Spoiled, Carries
<1>5. BridgeBelieves'
  BY <1>1 DEF IInv, BridgeBelieves, Spoiled
<1>6. QED BY <1>2, <1>3, <1>4, <1>5

\* The same with the queues of the stick.
LEMMA StillStep ==
    ASSUME IInv, UNCHANGED Wire, UNCHANGED <<tx_queue, radioed>>, Types', Booted'
    PROVE  IInv'
<1>1. /\ AtWork' /\ AllHonest(frames', radioed')
      /\ CutsSpoilNeighbours' /\ BridgeBelieves'
  BY QuietStep
<1>2. AllHonest(tx_queue', radioed')
  BY DEF IInv, Packets
<1>3. TypeOK'
  <2>1. TypeOK' <=> Types'
    BY DEF TypeOK, Types, Command, Packet
  <2>2. QED BY <2>1
<1>4. QED BY <1>1, <1>2, <1>3 DEF IInv, Packets

LEMMA MainStep == IInv /\ Main => IInv'
<1> SUFFICES ASSUME IInv, Main PROVE IInv'
  OBVIOUS
<1>1. Types
  BY TypesAre DEF IInv
<1>2. UNCHANGED Wire /\ UNCHANGED <<tx_queue, radioed>>
  BY DEF Main, DtrSet, InitRadio, InitRadioFails, RxEnable, host, Wire
<1>3. Types'
  BY <1>1 DEF Main, DtrSet, InitRadio, InitRadioFails, RxEnable, BootStep, host, Types
<1>4. Booted'
  <2>1. rx_queue' = rx_queue /\ taken' = taken /\ ends' = ends
    BY DEF Main, DtrSet, InitRadio, InitRadioFails, RxEnable, host
  <2>2. boot # "running"
    BY DEF Main, DtrSet, InitRadio, InitRadioFails, RxEnable, BootStep
  <2>3. rx_queue = <<>>
    BY <2>2 DEF IInv, Booted
  <2>4. boot' \in {"irq", "running"} => mac_addr' = "mac"
    BY DEF IInv, Booted, Main, DtrSet, InitRadio, InitRadioFails, RxEnable, BootStep
  <2>5. QED BY <2>1, <2>3, <2>4 DEF IInv, Booted
<1>5. QED BY <1>2, <1>3, <1>4, StillStep

LEMMA InterruptHandlerStep == IInv /\ InterruptHandler => IInv'
<1> SUFFICES ASSUME IInv, InterruptHandler PROVE IInv'
  OBVIOUS
<1>1. Types
  BY TypesAre DEF IInv
<1>2. UNCHANGED Wire /\ UNCHANGED <<tx_queue, radioed>>
  BY DEF InterruptHandler, host, Wire
<1>3. Head(cmds) \in Command /\ Tail(cmds) \in Seq(Command)
  BY <1>1, HeadTailProperties DEF Types, InterruptHandler
<1>4. rx_queue' \in Seq(Command)
  <2>1. rx_queue' = Append(rx_queue, Head(cmds)) \/ rx_queue' = rx_queue
    BY DEF InterruptHandler
  <2>2. rx_queue \in Seq(Command) /\ Append(rx_queue, Head(cmds)) \in Seq(Command)
    BY <1>1, <1>3, AppendProperties DEF Types
  <2>3. QED BY <2>1, <2>2
<1>5. cmds' \in Seq(Command) /\ lost' \subseteq {"M", "S", "R"}
  BY <1>1, <1>3 DEF Types, InterruptHandler, Command
<1>6. Types'
  BY <1>1, <1>4, <1>5 DEF Types, InterruptHandler, host
<1>7. Booted'
  BY DEF IInv, Booted, InterruptHandler, host
<1>8. QED BY <1>2, <1>6, <1>7, StillStep

LEMMA RequestMacStep == IInv /\ RequestMac => IInv'
<1> SUFFICES ASSUME IInv, RequestMac PROVE IInv'
  OBVIOUS
<1>1. Types
  BY TypesAre DEF IInv
<1>2. UNCHANGED Wire /\ UNCHANGED <<tx_queue, radioed>>
  BY DEF RequestMac, stick, Wire
<1>3. cmds' \in Seq(Command)
  <2>1. [kind |-> "M", seq |-> 0] \in Command
    BY SeqRangeFacts DEF Command
  <2>2. QED BY <1>1, <2>1, AppendProperties DEF Types, RequestMac
<1>4. Types'
  BY <1>1, <1>3 DEF Types, RequestMac, stick
<1>5. Booted'
  BY DEF IInv, Booted, RequestMac, stick
<1>6. QED BY <1>2, <1>4, <1>5, StillStep

LEMMA TunReadStep == IInv /\ TunRead => IInv'
<1> SUFFICES ASSUME IInv, TunRead PROVE IInv'
  OBVIOUS
<1>1. Types
  BY TypesAre DEF IInv
<1>2. UNCHANGED Wire /\ UNCHANGED <<tx_queue, radioed>>
  BY DEF TunRead, stick, Wire
<1>3. cmds' \in Seq(Command) /\ seq' \in 0 .. SeqRange - 1
  <2>1. CASE SendToRadio
    <3>1. [kind |-> "S", seq |-> seq] \in Command
      BY <1>1 DEF Types, Command
    <3>2. cmds' \in Seq(Command)
      BY <1>1, <2>1, <3>1, AppendProperties DEF Types, SendToRadio
    <3>3. QED BY <1>1, <2>1, <3>2, SeqRangeFacts DEF Types, SendToRadio
  <2>2. CASE UNCHANGED <<cmds, seq>>
    BY <1>1, <2>2 DEF Types
  <2>3. QED BY <2>1, <2>2 DEF TunRead
<1>4. tunRead' \in 0 .. MaxTun
  BY <1>1, UsbBridgeAssumption DEF Types, TunRead
<1>5. Types'
  BY <1>1, <1>3, <1>4 DEF Types, TunRead, stick
<1>6. Booted'
  BY DEF IInv, Booted, TunRead, stick
<1>7. QED BY <1>2, <1>5, <1>6, StillStep

LEMMA NetRecvDataStep == IInv /\ NetRecvData => IInv'
<1> SUFFICES ASSUME IInv, NetRecvData PROVE IInv'
  OBVIOUS
<1>1. Types
  BY TypesAre DEF IInv
<1>2. UNCHANGED Wire /\ radioed' = radioed
  BY DEF NetRecvData, host, Wire
<1>3. PICK c \in Contents : tx_queue' = Append(tx_queue, [kind |-> "radio", data |-> c])
  BY DEF NetRecvData
<1>4. /\ [kind |-> "radio", data |-> c] \in Packet
      /\ Honest([kind |-> "radio", data |-> c], radioed)
  BY UsbBridgeAssumption DEF Packet, Honest
<1>5. tx_queue' \in Seq(Packet) /\ AllHonest(tx_queue', radioed')
  BY <1>1, <1>2, <1>3, <1>4, AppendProperties, HonestAppend DEF Types, IInv, Packets
<1>6. arrived' \in 0 .. MaxRadio
  BY <1>1, UsbBridgeAssumption DEF Types, NetRecvData
<1>7. Types'
  BY <1>1, <1>5, <1>6 DEF Types, NetRecvData, host
<1>8. TypeOK'
  BY <1>7 DEF TypeOK, Types, Command, Packet
<1>9. Booted'
  BY DEF IInv, Booted, NetRecvData, host
<1>10. QED BY <1>2, <1>5, <1>8, <1>9, QuietStep DEF IInv, Packets

LEMMA RxThreadStep == IInv /\ RxThread => IInv'
<1> SUFFICES ASSUME IInv, RxThread PROVE IInv'
  OBVIOUS
<1>1. Types
  BY TypesAre DEF IInv
<1>2. UNCHANGED Wire
  BY DEF RxThread, host, Wire
<1>3. /\ rx_queue # <<>> /\ boot = "running" /\ mac_addr = "mac"
      /\ Head(rx_queue) \in Command /\ Tail(rx_queue) \in Seq(Command)
  <2>1. rx_queue # <<>>
    BY DEF RxThread, GetIeeeAddr, ProcessData
  <2>2. QED BY <1>1, <2>1, HeadTailProperties DEF Types, IInv, Booted
<1>4. /\ radioed \subseteq radioed' /\ radioed' \subseteq 0 .. SeqRange - 1
      /\ lost' \subseteq {"M", "S", "R"}
      /\ \/ tx_queue' = tx_queue
         \/ \E p \in Packet : tx_queue' = Append(tx_queue, p) /\ Honest(p, radioed')
  <2>1. CASE GetIeeeAddr
    <3> DEFINE p == [kind |-> "M", data |-> <<"!", "M">> \o <<mac_addr, mac_addr>> \o <<"x">>]
    <3>1. p \in Packet /\ p.kind = "M" /\ p.data = <<"!", "M", "mac", "mac", "x">>
      BY <1>3, ByteValuesFacts, Reply
    <3>2. \/ tx_queue' = Append(tx_queue, p) /\ lost' = lost
          \/ tx_queue' = tx_queue /\ lost' = lost \cup {"M"}
      BY <2>1 DEF GetIeeeAddr, SendData
    <3> HIDE DEF p
    <3>3. Honest(p, radioed')
      BY <3>1 DEF Honest
    <3>4. QED BY <1>1, <2>1, <3>1, <3>2, <3>3 DEF Types, GetIeeeAddr
  <2>2. CASE ProcessData
    <3> DEFINE n == Head(rx_queue).seq
    <3>1. PICK status \in {"ok", "err"} :
              /\ radioed' = IF status = "ok" THEN radioed \cup {n} ELSE radioed
              /\ SendData("R", <<Digit(n), status>>)
      BY <2>2 DEF ProcessData
    <3>2. n \in 0 .. SeqRange - 1
      BY <1>3 DEF Command
    <3> DEFINE p == [kind |-> "R", data |-> <<"!", "R">> \o <<Digit(n), status>> \o <<"x">>]
    <3>3. p \in Packet /\ p.kind = "R" /\ p.data = <<"!", "R", Digit(n), status, "x">>
      <4>1. Digit(n) \in ByteValues /\ status \in ByteValues
        BY <3>2, ByteValuesFacts, SeqRangeFacts
      <4>2. QED BY <4>1, Reply
    <3>4. \/ tx_queue' = Append(tx_queue, p) /\ lost' = lost
          \/ tx_queue' = tx_queue /\ lost' = lost \cup {"R"}
      BY <3>1 DEF SendData
    <3> HIDE DEF p, n
    <3>5. Honest(p, radioed')
      BY <3>1, <3>2, <3>3 DEF Honest
    <3>6. QED BY <1>1, <3>1, <3>2, <3>3, <3>4, <3>5 DEF Types
  <2>3. QED BY <2>1, <2>2 DEF RxThread
<1>5. AllHonest(tx_queue, radioed')
  BY <1>4, HonestGrows DEF IInv, Packets
<1>6. tx_queue' \in Seq(Packet) /\ AllHonest(tx_queue', radioed')
  <2>1. tx_queue \in Seq(Packet)
    BY <1>1 DEF Types
  <2>2. CASE tx_queue' = tx_queue
    BY <1>5, <2>1, <2>2
  <2>3. ASSUME NEW p \in Packet, tx_queue' = Append(tx_queue, p), Honest(p, radioed')
        PROVE  tx_queue' \in Seq(Packet) /\ AllHonest(tx_queue', radioed')
    <3>1. Append(tx_queue, p) \in Seq(Packet)
      BY <2>1, AppendProperties
    <3>2. AllHonest(Append(tx_queue, p), radioed')
      BY <1>5, <2>1, <2>3, HonestAppend
    <3>3. QED BY <2>3, <3>1, <3>2
  <2>4. QED BY <1>4, <2>2, <2>3
<1>7. rx_queue' \in Seq(Command)
  BY <1>3 DEF RxThread
<1>8. Types'
  BY <1>1, <1>4, <1>6, <1>7 DEF Types, RxThread, host
<1>9. TypeOK'
  BY <1>8 DEF TypeOK, Types, Command, Packet
<1>10. Booted'
  BY <1>3 DEF IInv, Booted, RxThread, host
<1>11. QED BY <1>2, <1>4, <1>6, <1>9, <1>10, QuietStep DEF IInv, Packets

-----------------------------------------------------------------------------
(* Steps of tx_thread.                                                     *)

LEMMA BytesAre == Bytes = Seq(Byte)
BY DEF Bytes, Byte

LEMMA ThreeParts ==
    ASSUME NEW S, NEW a \in Seq(S), NEW b \in Seq(S), NEW c \in Seq(S)
    PROVE  /\ a \o (b \o c) \in Seq(S)
           /\ Len(a) \in Nat /\ Len(b) \in Nat /\ Len(c) \in Nat
           /\ Len(a \o (b \o c)) = Len(a) + (Len(b) + Len(c))
           /\ \A i \in 1 .. Len(a) : (a \o (b \o c))[i] = a[i]
           /\ \A i \in 1 .. Len(b) : (a \o (b \o c))[Len(a) + i] = b[i]
           /\ \A i \in 1 .. Len(c) : (a \o (b \o c))[Len(a) + (Len(b) + i)] = c[i]
<1> DEFINE d == b \o c
<1>1. /\ d \in Seq(S) /\ Len(a) \in Nat /\ Len(b) \in Nat /\ Len(c) \in Nat
      /\ Len(d) = Len(b) + Len(c)
      /\ \A i \in 1 .. Len(b) + Len(c) : d[i] = IF i <= Len(b) THEN b[i] ELSE c[i - Len(b)]
  BY ConcatProperties, LenProperties
<1> HIDE DEF d
<1>2. \A i \in 1 .. Len(c) :
          Len(b) + i \in 1 .. Len(b) + Len(c) /\ ~(Len(b) + i <= Len(b)) /\ (Len(b) + i) - Len(b) = i
  BY <1>1
<1>3. /\ \A i \in 1 .. Len(b) : i \in 1 .. Len(d) /\ d[i] = b[i]
      /\ \A i \in 1 .. Len(c) : Len(b) + i \in 1 .. Len(d) /\ d[Len(b) + i] = c[i]
  BY <1>1, <1>2
<1> DEFINE e == a \o d
<1>4. /\ e \in Seq(S) /\ Len(e) = Len(a) + Len(d)
      /\ \A i \in 1 .. Len(a) + Len(d) : e[i] = IF i <= Len(a) THEN a[i] ELSE d[i - Len(a)]
  <2>1. d \in Seq(S)
    BY <1>1
  <2>2. QED BY <2>1, ConcatProperties
<1> HIDE DEF e
<1>5. \A i \in 1 .. Len(d) :
          Len(a) + i \in 1 .. Len(a) + Len(d) /\ ~(Len(a) + i <= Len(a)) /\ (Len(a) + i) - Len(a) = i
  BY <1>1
<1>6. \A i \in 1 .. Len(d) : e[Len(a) + i] = d[i]
  BY <1>4, <1>5
<1>7. \A i \in 1 .. Len(a) : e[i] = a[i]
  BY <1>1, <1>4
<1>8. QED BY <1>1, <1>3, <1>4, <1>6, <1>7 DEF d, e

\* The frames that the bridge has seen the ends of, and one that was cut, are there.
LEMMA EndsFacts ==
    ASSUME Types
    PROVE  /\ LastEnd(ends) \in 0 .. Len(frames)
           /\ ends # <<>> =>
                 /\ LastEnd(ends) = Last(ends) /\ Last(ends) \in 1 .. Len(frames)
                 /\ Len(ends) \in 1 .. Len(ends)
           /\ Len(frames) \in Nat /\ DOMAIN frames = 1 .. Len(frames)
           /\ Len(ends) \in Nat /\ DOMAIN ends = 1 .. Len(ends)
           /\ \A i \in DOMAIN ends : ends[i] \in 1 .. Len(frames)
<1>1. Len(frames) \in Nat /\ DOMAIN frames = 1 .. Len(frames)
  BY LenProperties DEF Types
<1>2. ends \in Seq(1 .. Len(frames))
  BY <1>1 DEF Types
<1>3. /\ Len(ends) \in Nat /\ DOMAIN ends = 1 .. Len(ends)
      /\ \A i \in DOMAIN ends : ends[i] \in 1 .. Len(frames)
      /\ ends # <<>> => Len(ends) \in 1 .. Len(ends)
  BY <1>2, LenProperties, ElementOfSeq, EmptySeq
<1>4. QED BY <1>1, <1>3 DEF LastEnd, Last

LEMMA TxGetStep == IInv /\ TxGet => IInv'
<1> SUFFICES ASSUME IInv, TxGet PROVE IInv'
  OBVIOUS
<1>1. Types
  BY TypesAre DEF IInv
<1> DEFINE x == Head(tx_queue)
           n == Len(frames) + 1
<1>2. /\ x \in Packet /\ Tail(tx_queue) \in Seq(Packet) /\ frames \in Seq(Packet)
      /\ Honest(x, radioed) /\ AllHonest(Tail(tx_queue), radioed)
  BY <1>1, HonestTail DEF Types, TxGet, IInv, Packets
<1> HIDE DEF x
<1>3. /\ frames' = Append(frames, x) /\ tx_queue' = Tail(tx_queue) /\ radioed' = radioed
      /\ out = <<>> /\ ring' = ring /\ slip_buffer' = slip_buffer /\ ends' = ends /\ cut' = cut
      /\ message' = message /\ taken' = taken /\ radio_mac' = radio_mac
  BY DEF TxGet, host, x
<1>4. /\ frames' \in Seq(Packet) /\ Len(frames') = n /\ Len(frames) \in Nat
      /\ \A f \in 1 .. Len(frames) : frames'[f] = frames[f]
      /\ frames'[n] = x
  BY <1>2, <1>3, AppendProperties, LenProperties
<1>5. out' = Code(Append(frames, x), n) /\ out' = Code(frames', n)
  <2>1. out' = SlipBuffer(Len(frames'), x.data)
    BY DEF TxGet, x
  <2>2. QED BY <1>3, <1>4, <2>1 DEF Code
<1>6. /\ out' \in Bytes /\ Len(out') \in Nat
      /\ \A k \in 1 .. Len(out') : out'[k][1] = n
  <2>1. n \in 1 .. Len(frames')
    BY <1>4
  <2> HIDE DEF n
  <2>2. /\ Code(frames', n) \in Bytes /\ Len(Code(frames', n)) \in Nat
        /\ \A k \in 1 .. Len(Code(frames', n)) : Code(frames', n)[k][1] = n
    BY <1>4, <2>1, CodeFacts
  <2>3. QED BY <1>5, <2>2
<1>7. Unread' = Unread \o out' /\ Unread \in Bytes
  <2>1. ring \o out = ring
    BY <1>1, <1>3, ConcatEmptySeq DEF Types, Bytes
  <2>2. Unread = slip_buffer \o ring /\ Unread \in Bytes
    BY <1>1, <2>1, ConcatProperties DEF Unread, Types, Bytes
  <2>3. slip_buffer \o (ring \o out') = (slip_buffer \o ring) \o out'
    <3>1. slip_buffer \in Seq(Byte) /\ ring \in Seq(Byte) /\ out' \in Seq(Byte)
      BY <1>1, <1>6, BytesAre DEF Types
    <3>2. QED BY <3>1, ConcatAssociative
  <2>4. QED BY <1>3, <2>2, <2>3 DEF Unread
<1>8. cut \in SUBSET (1 .. Len(frames)) /\ n \notin cut
  <2>1. cut \in SUBSET (1 .. Len(frames))
    BY <1>1, EndsFacts DEF Types
  <2>2. QED BY <1>4, <2>1
<1>9. AtWork'
  <2>1. Stream(frames, Unread, LastEnd(ends), cut) /\ LastEnd(ends) \in 0 .. Len(frames)
    BY <1>1, EndsFacts DEF IInv, AtWork
  <2>2. Stream(Append(frames, x), Unread \o Code(Append(frames, x), n), LastEnd(ends), cut)
    BY <1>2, <1>7, <1>8, <2>1, StreamTaken
  <2>3. Stream(frames', Unread', LastEnd(ends), cut)
    BY <1>3, <1>5, <1>7, <2>2
  <2>4. QED BY <1>3, <1>4, <1>6, <1>8, <2>3 DEF IInv, AtWork
<1>10. Packets'
  <2>1. AllHonest(Append(frames, x), radioed)
    BY <1>2, HonestAppend DEF IInv, Packets
  <2>2. QED BY <1>2, <1>3, <2>1 DEF Packets
<1>11. DOMAIN frames \subseteq DOMAIN frames'
  <2>1. DOMAIN frames = 1 .. Len(frames) /\ DOMAIN frames' = 1 .. Len(frames')
    BY <1>2, <1>4, LenProperties
  <2>2. QED BY <1>4, <2>1
<1>12. TypeOK'
  <2>1. ends' \in Seq(DOMAIN frames') /\ cut' \subseteq DOMAIN frames'
    BY <1>1, <1>3, <1>11, SeqMonotonic DEF Types
  <2>2. Types'
    BY <1>1, <1>2, <1>3, <1>4, <1>6, <2>1 DEF Types, TxGet, host
  <2>3. QED BY <2>2 DEF TypeOK, Types, Command, Packet
<1>13. Booted'
  BY DEF IInv, Booted, TxGet, host
<1>14. CutsSpoilNeighbours'
  <2>1. ends # <<>> => frames'[Last(ends)] = frames[Last(ends)]
    BY <1>1, <1>4, EndsFacts
  <2>2. QED BY <1>3, <2>1 DEF IInv, CutsSpoilNeighbours, Spoiled, Carries
<1>15. BridgeBelieves'
  <2>1. taken = "tun" => frames'[Last(ends)] = frames[Last(ends)]
    BY <1>1, <1>4, EndsFacts DEF IInv, Booted
  <2>2. QED BY <1>3, <2>1 DEF IInv, BridgeBelieves, Spoiled
<1>16. QED BY <1>9, <1>10, <1>12, <1>13, <1>14, <1>15 DEF IInv

LEMMA FifoFillStep == IInv /\ FifoFill => IInv'
<1> SUFFICES ASSUME IInv, FifoFill PROVE IInv'
  OBVIOUS
<1>1. Types
  BY TypesAre DEF IInv
<1>2. /\ frames' = frames /\ tx_queue' = tx_queue /\ radioed' = radioed
      /\ slip_buffer' = slip_buffer /\ ends' = ends /\ cut' = cut
      /\ message' = message /\ taken' = taken /\ radio_mac' = radio_mac /\ out # <<>>
  BY DEF FifoFill, host
<1> DEFINE n == IF Len(out) < Space THEN Len(out) ELSE Space
<1>3. ring' = ring \o SubSeq(out, 1, n) /\ out' = SubSeq(out, n + 1, Len(out))
  BY DEF FifoFill
<1>4. /\ Len(out) \in Nat /\ Len(ring) \in Nat /\ RingSize \in Nat
      /\ n \in 0 .. Len(out) /\ Len(ring) + n <= RingSize
  <2>1. Len(out) \in Nat /\ Len(ring) \in Nat /\ RingSize \in Nat /\ Space > 0
    BY <1>1, LenProperties, UsbBridgeAssumption DEF Types, Bytes, FifoFill
  <2>2. QED BY <2>1 DEF Space
<1> HIDE DEF n
<1> DEFINE a == SubSeq(out, 1, n)
           b == SubSeq(out, n + 1, Len(out))
<1>5. /\ a \in Bytes /\ Len(a) = n
      /\ b \in Bytes /\ Len(b) = Len(out) - n
      /\ \A i \in 1 .. Len(b) : b[i] = out[n + i] /\ n + i \in 1 .. Len(out)
  <2>0. \A i \in 1 .. Len(out) : out[i] \in Byte
    BY <1>1, ElementOfSeq DEF Types, Bytes, Byte
  <2>1. \A i \in 1 .. n : out[i] \in Byte
    BY <1>4, <2>0
  <2>2. \A i \in n + 1 .. Len(out) : out[i] \in Byte
    BY <1>4, <2>0
  <2>3. /\ a \in Seq(Byte) /\ Len(a) = IF 1 <= n THEN n - 1 + 1 ELSE 0
    BY <1>4, <2>1, SubSeqProperties
  <2>4. /\ b \in Seq(Byte)
        /\ Len(b) = IF n + 1 <= Len(out) THEN Len(out) - (n + 1) + 1 ELSE 0
        /\ \A i \in 1 .. Len(out) - (n + 1) + 1 : b[i] = out[(n + 1) + i - 1]
    BY <1>4, <2>2, SubSeqProperties
  <2> HIDE DEF a, b
  <2>5. Len(a) = n /\ Len(b) = Len(out) - n
    BY <1>4, <2>3, <2>4
  <2>6. \A i \in 1 .. Len(b) : i \in 1 .. Len(out) - (n + 1) + 1 /\ (n + 1) + i - 1 = n + i
                               /\ n + i \in 1 .. Len(out)
    BY <1>4, <2>5
  <2>7. \A i \in 1 .. Len(b) : b[i] = out[n + i]
    BY <2>4, <2>6
  <2>8. QED BY <2>3, <2>4, <2>5, <2>6, <2>7 DEF Bytes, Byte
<1>6. ring' \o out' = ring \o out
  <2>1. a \o b = out
    <3>1. 1 \in 1 .. Len(out) + 1 /\ n \in 1 - 1 .. Len(out) /\ Len(out) \in n .. Len(out)
      BY <1>4
    <3>2. a \o b = SubSeq(out, 1, Len(out))
      BY <1>1, <3>1, ConcatAdjacentSubSeq DEF Types, Bytes
    <3>3. QED BY <1>1, <3>2, SubSeqFull DEF Types, Bytes
  <2> HIDE DEF a, b
  <2>2. (ring \o a) \o b = ring \o (a \o b)
    <3>1. ring \in Seq(Byte) /\ a \in Seq(Byte) /\ b \in Seq(Byte)
      BY <1>1, <1>5, BytesAre DEF Types
    <3>2. QED BY <3>1, ConcatAssociative
  <2>3. QED BY <1>3, <2>1, <2>2 DEF a, b
<1>7. AtWork'
  <2>1. Unread' = Unread
    BY <1>2, <1>6 DEF Unread
  <2>2. \A i \in 1 .. Len(out') : out'[i][1] = Len(frames)
    BY <1>3, <1>5 DEF IInv, AtWork
  <2>3. QED BY <1>2, <2>1, <2>2 DEF IInv, AtWork
<1>8. ring' \in Bytes /\ Len(ring') <= RingSize /\ out' \in Bytes
  <2> HIDE DEF a, b
  <2>1. ring \o a \in Bytes /\ Len(ring \o a) = Len(ring) + Len(a)
    <3>1. ring \in Seq(Byte) /\ a \in Seq(Byte)
      BY <1>1, <1>5, BytesAre DEF Types
    <3>2. ring \o a \in Seq(Byte) /\ Len(ring \o a) = Len(ring) + Len(a)
      BY <3>1, ConcatProperties
    <3>3. QED BY <3>2, BytesAre
  <2>2. Len(ring \o a) <= RingSize
    BY <1>4, <1>5, <2>1
  <2>3. QED BY <1>3, <1>5, <2>1, <2>2 DEF a, b
<1>9. TypeOK'
  <2>1. Types'
    BY <1>1, <1>8 DEF Types, FifoFill, host
  <2>2. QED BY <2>1 DEF TypeOK, Types, Command, Packet
<1>10. Packets' /\ Booted'
  BY <1>2 DEF IInv, Packets, Booted, FifoFill, host
<1>11. CutsSpoilNeighbours'
  BY <1>2 DEF IInv, CutsSpoilNeighbours, Spoiled, Carries
<1>12. BridgeBelieves'
  BY <1>2 DEF IInv, BridgeBelieves, Spoiled
<1>13. QED BY <1>7, <1>9, <1>10, <1>11, <1>12 DEF IInv

LEMMA FifoFullStep == IInv /\ FifoFull => IInv'
<1> SUFFICES ASSUME IInv, FifoFull PROVE IInv'
  OBVIOUS
<1>1. Types
  BY TypesAre DEF IInv
<1>2. /\ frames' = frames /\ tx_queue' = tx_queue /\ radioed' = radioed /\ ring' = ring
      /\ slip_buffer' = slip_buffer /\ ends' = ends /\ cut' = cut \cup {Len(frames)}
      /\ message' = message /\ taken' = taken /\ radio_mac' = radio_mac
      /\ out # <<>> /\ out' = <<>>
  BY DEF FifoFull, host
<1> DEFINE s == Len(slip_buffer)
           r == Len(ring)
           o == Len(out)
<1>3. /\ Unread \in Bytes /\ s \in Nat /\ r \in Nat /\ o \in Nat
      /\ Len(Unread) = s + (r + o)
      /\ \A i \in 1 .. s : Unread[i] = slip_buffer[i]
      /\ \A i \in 1 .. r : Unread[s + i] = ring[i]
      /\ \A i \in 1 .. o : Unread[s + (r + i)] = out[i]
  <2>1. slip_buffer \in Seq(Byte) /\ ring \in Seq(Byte) /\ out \in Seq(Byte)
    BY <1>1, BytesAre DEF Types
  <2>2. QED BY <2>1, BytesAre, ThreeParts DEF Unread
<1>4. <<>> \in Bytes /\ Len(<<>>) = 0 /\ o > 0
  BY <1>1, <1>2, EmptySeq DEF Types, Bytes
<1>5. /\ Unread' \in Bytes /\ Len(Unread') = s + r
      /\ \A i \in 1 .. s : Unread'[i] = slip_buffer[i]
      /\ \A i \in 1 .. r : Unread'[s + i] = ring[i]
  <2> DEFINE e == <<>>
  <2>1. e \in Bytes /\ Len(e) = 0 /\ Unread' = slip_buffer \o (ring \o e)
    BY <1>2, <1>4 DEF Unread
  <2> HIDE DEF e
  <2>2. slip_buffer \in Seq(Byte) /\ ring \in Seq(Byte) /\ e \in Seq(Byte)
    BY <1>1, <2>1, BytesAre DEF Types
  <2> DEFINE w == slip_buffer \o (ring \o e)
  <2>3. /\ w \in Seq(Byte) /\ Len(w) = s + (r + Len(e))
        /\ \A i \in 1 .. s : w[i] = slip_buffer[i]
        /\ \A i \in 1 .. r : w[s + i] = ring[i]
    BY <2>2, ThreeParts
  <2> HIDE DEF w
  <2>4. Unread' = w
    BY <2>1 DEF w
  <2>5. QED BY <1>3, <2>1, <2>3, <2>4, BytesAre
<1>6. \A i \in 1 .. Len(Unread') : Unread'[i] = Unread[i]
  <2>1. \A i \in 1 .. s + r : i \in 1 .. s \/ (i - s \in 1 .. r /\ s + (i - s) = i)
    BY <1>3
  <2>2. ASSUME NEW i \in 1 .. s + r PROVE Unread'[i] = Unread[i]
    <3>1. CASE i \in 1 .. s
      BY <1>3, <1>5, <3>1
    <3>2. CASE i - s \in 1 .. r /\ s + (i - s) = i
      <4>1. ASSUME NEW j \in 1 .. r PROVE Unread'[s + j] = Unread[s + j]
        BY <1>3, <1>5
      <4>2. QED BY <3>2, <4>1, Zenon
    <3>3. QED BY <2>1, <3>1, <3>2
  <2>3. QED BY <1>5, <2>2
<1>7. \A i \in 1 .. Len(Unread) : Len(Unread') < i => Unread[i][1] = Len(frames)
  <2>1. ASSUME NEW i \in 1 .. Len(Unread), Len(Unread') < i PROVE Unread[i][1] = Len(frames)
    <3>1. i - (s + r) \in 1 .. o /\ i = s + (r + (i - (s + r)))
      BY <1>3, <1>5, <2>1
    <3>2. Unread[i] = out[i - (s + r)]
      BY <1>3, <3>1
    <3>3. QED BY <3>1, <3>2 DEF IInv, AtWork
  <2>2. QED BY <2>1
<1>8. /\ LastEnd(ends) \in 0 .. Len(frames) /\ frames \in Seq(Packet)
      /\ Stream(frames, Unread, LastEnd(ends), cut)
  BY <1>1, EndsFacts DEF IInv, AtWork, Types
<1>9. Stream(frames, Unread', LastEnd(ends), cut \cup {Len(frames)})
  <2>1. Len(Unread') < Len(Unread)
    BY <1>3, <1>4, <1>5
  <2> DEFINE u == Unread
             v == Unread'
  <2>2. /\ u \in Bytes /\ v \in Bytes /\ Len(v) < Len(u) /\ Stream(frames, u, LastEnd(ends), cut)
        /\ \A i \in 1 .. Len(v) : v[i] = u[i]
        /\ \A i \in 1 .. Len(u) : Len(v) < i => u[i][1] = Len(frames)
    BY <1>3, <1>5, <1>6, <1>7, <1>8, <2>1
  <2> HIDE DEF u, v
  <2>3. Stream(frames, v, LastEnd(ends), cut \cup {Len(frames)})
    BY <1>8, <2>2, StreamCut
  <2>4. QED BY <2>3 DEF v
<1>10. AtWork'
  BY <1>2, <1>4, <1>9 DEF IInv, AtWork
<1>11. Len(frames) \in 1 .. Len(frames) /\ LastEnd(ends) < Len(frames)
  <2>1. 1 \in 1 .. o /\ s + (r + 1) \in 1 .. Len(Unread)
    BY <1>3, <1>4
  <2>2. Unread[s + (r + 1)][1] = Len(frames)
    BY <1>3, <2>1 DEF IInv, AtWork
  <2>3. LastEnd(ends) < Unread[s + (r + 1)][1] /\ Unread[s + (r + 1)][1] \in 1 .. Len(frames)
    BY <1>8, <2>1 DEF Stream, Whole, Ending
  <2>4. QED BY <2>2, <2>3
<1>12. TypeOK'
  <2>1. cut' \subseteq DOMAIN frames'
    BY <1>1, <1>2, <1>11, EndsFacts DEF Types
  <2>2. Types'
    BY <1>1, <1>2, <1>4, <2>1 DEF Types, FifoFull, host
  <2>3. QED BY <2>2 DEF TypeOK, Types, Command, Packet
<1>13. Packets' /\ Booted'
  BY <1>2 DEF IInv, Packets, Booted, FifoFull, host
<1>14. CutsSpoilNeighbours'
  <2> SUFFICES ASSUME ends # <<>>
               PROVE  /\ \A i, j \in DOMAIN ends : i < j => ends[i] < ends[j]
                      /\ \A f \in 1 .. Last(ends) :
                            f \notin cut' <=> \E i \in DOMAIN ends : ends[i] = f
                      /\ Last(ends) - 1 \in cut' \/ Carries(message, Last(ends))
    BY <1>2 DEF CutsSpoilNeighbours, Spoiled, Carries
  <2>1. Last(ends) < Len(frames) /\ Last(ends) \in Nat
    BY <1>1, <1>11, EndsFacts
  <2>2. \A f \in 1 .. Last(ends) : f \notin cut' <=> f \notin cut
    BY <1>2, <1>11, <2>1
  <2>3. QED BY <1>2, <2>2 DEF IInv, CutsSpoilNeighbours, Spoiled
<1>15. BridgeBelieves'
  <2>1. cut \subseteq cut'
    BY <1>2
  <2>2. QED BY <1>2, <2>1 DEF IInv, BridgeBelieves, Spoiled
<1>16. QED BY <1>10, <1>12, <1>13, <1>14, <1>15 DEF IInv

-----------------------------------------------------------------------------
(* Steps of the bridge.                                                    *)

LEMMA MoveOne ==
    ASSUME NEW S, NEW a \in Seq(S), NEW b \in Seq(S), b # <<>>, NEW c \in Seq(S)
    PROVE  Append(a, Head(b)) \o (Tail(b) \o c) = a \o (b \o c)
<1> DEFINE x == Append(a, Head(b))
           y == Tail(b)
           u == a \o (b \o c)
           v == x \o (y \o c)
<1>1. /\ Head(b) \in S /\ y \in Seq(S) /\ Len(y) = Len(b) - 1
      /\ \A i \in 1 .. Len(y) : y[i] = b[i + 1]
      /\ Head(b) = b[1] /\ Len(b) > 0
  BY HeadTailProperties, EmptySeq, LenProperties
<1>2. /\ x \in Seq(S) /\ Len(x) = Len(a) + 1
      /\ \A i \in 1 .. Len(a) : x[i] = a[i]
      /\ x[Len(a) + 1] = b[1]
  BY <1>1, AppendProperties
<1>3. /\ u \in Seq(S) /\ Len(a) \in Nat /\ Len(b) \in Nat /\ Len(c) \in Nat
      /\ Len(u) = Len(a) + (Len(b) + Len(c))
      /\ \A i \in 1 .. Len(a) : u[i] = a[i]
      /\ \A i \in 1 .. Len(b) : u[Len(a) + i] = b[i]
      /\ \A i \in 1 .. Len(c) : u[Len(a) + (Len(b) + i)] = c[i]
  BY ThreeParts
<1> HIDE DEF x, y, u
<1>4. /\ v \in Seq(S)
      /\ Len(v) = Len(x) + (Len(y) + Len(c))
      /\ \A i \in 1 .. Len(x) : v[i] = x[i]
      /\ \A i \in 1 .. Len(y) : v[Len(x) + i] = y[i]
      /\ \A i \in 1 .. Len(c) : v[Len(x) + (Len(y) + i)] = c[i]
  <2>1. x \in Seq(S) /\ y \in Seq(S)
    BY <1>1, <1>2
  <2>2. QED BY <2>1, ThreeParts
<1> HIDE DEF v
<1>5. Len(u) = Len(v)
  BY <1>1, <1>2, <1>3, <1>4
<1>6. ASSUME NEW i \in 1 .. Len(u) PROVE u[i] = v[i]
  <2>1. CASE i \in 1 .. Len(a)
    <3>1. i \in 1 .. Len(x)
      BY <1>2, <1>3, <2>1
    <3>2. QED BY <1>2, <1>3, <1>4, <2>1, <3>1
  <2>2. CASE i = Len(a) + 1
    <3>1. 1 \in 1 .. Len(b) /\ i \in 1 .. Len(x)
      BY <1>1, <1>2, <1>3, <2>2
    <3>2. u[i] = b[1] /\ v[i] = x[i]
      BY <1>3, <1>4, <2>2, <3>1
    <3>3. QED BY <1>2, <2>2, <3>2
  <2>3. CASE i \in Len(a) + 2 .. Len(a) + Len(b)
    <3> DEFINE j == i - (Len(a) + 1)
    <3>1. j \in 1 .. Len(y) /\ j + 1 \in 1 .. Len(b)
          /\ i = Len(a) + (j + 1) /\ i = Len(x) + j
      BY <1>1, <1>2, <1>3, <2>3
    <3> HIDE DEF j
    <3>2. u[i] = b[j + 1] /\ v[i] = y[j]
      BY <1>3, <1>4, <3>1
    <3>3. QED BY <1>1, <3>1, <3>2
  <2>4. CASE i \in Len(a) + Len(b) + 1 .. Len(u)
    <3> DEFINE j == i - (Len(a) + Len(b))
    <3>1. j \in 1 .. Len(c) /\ i = Len(a) + (Len(b) + j) /\ i = Len(x) + (Len(y) + j)
      BY <1>1, <1>2, <1>3, <2>4
    <3> HIDE DEF j
    <3>2. u[i] = c[j] /\ v[i] = c[j]
      BY <1>3, <1>4, <3>1
    <3>3. QED BY <3>2
  <2>5. QED BY <1>1, <1>3, <2>1, <2>2, <2>3, <2>4
<1>7. u = v
  BY <1>3, <1>4, <1>5, <1>6, SeqEqual
<1>8. QED BY <1>7 DEF u, v, x, y

LEMMA ValuesFacts ==
    ASSUME NEW bytes \in Bytes
    PROVE  /\ Values(bytes) \in Seq(ByteValues) /\ Len(Values(bytes)) = Len(bytes)
           /\ \A i \in 1 .. Len(bytes) : Values(bytes)[i] = bytes[i][3]
<1>1. bytes \in Seq(Byte) /\ Len(bytes) \in Nat /\ DOMAIN bytes = 1 .. Len(bytes)
  BY BytesAre, LenProperties
<1>2. \A i \in 1 .. Len(bytes) : bytes[i][3] \in ByteValues
  BY <1>1, ElementOfSeq, ByteFacts
<1>3. Values(bytes) = [i \in 1 .. Len(bytes) |-> bytes[i][3]]
  BY <1>1 DEF Values
<1>4. [i \in 1 .. Len(bytes) |-> bytes[i][3]] \in [1 .. Len(bytes) -> ByteValues]
  BY <1>2
<1>5. QED BY <1>1, <1>3, <1>4

LEMMA HandleFacts ==
    ASSUME NEW m, HandleRadioPacket(m)
    PROVE  /\ taken' \in {"none", "M", "R", "tun"}
           /\ taken' = "M" => Len(m) >= 4 /\ m[1] = "!" /\ m[2] = "M"
           /\ taken' = "R" => Len(m) >= 4 /\ m[1] = "!" /\ m[2] = "R"
           /\ taken' = "tun" => Len(m) >= 2 /\ m[1] # "!"
           /\ taken' = "M" => radio_mac' = SubSeq(m, 3, 4)
           /\ taken' # "M" => radio_mac' = radio_mac
<1> DEFINE isM == Len(m) >= 4 /\ m[1] = "!" /\ m[2] = "M"
           isR == Len(m) >= 4 /\ m[1] = "!" /\ m[2] = "R"
           isT == Len(m) >= 2 /\ m[1] # "!"
<1>1. taken' \in CASE isM -> {"M"} [] isR -> {"R"} [] isT -> {"tun", "none"} [] OTHER -> {"none"}
  BY DEF HandleRadioPacket
<1>2. radio_mac' = IF taken' = "M" THEN SubSeq(m, 3, 4) ELSE radio_mac
  BY DEF HandleRadioPacket
<1>a. ~(isM /\ isR) /\ ~(isM /\ isT) /\ ~(isR /\ isT)
  OBVIOUS
<1> HIDE DEF isM, isR, isT
<1>3. CASE isM
  BY <1>1, <1>2, <1>3, <1>a DEF isM
<1>4. CASE isR
  BY <1>1, <1>2, <1>4, <1>a DEF isR
<1>5. CASE isT
  BY <1>1, <1>2, <1>5, <1>a DEF isT
<1>6. CASE ~isM /\ ~isR /\ ~isT
  BY <1>1, <1>2, <1>6
<1>7. QED BY <1>3, <1>4, <1>5, <1>6

\* A byte that does not end a message.
LEMMA SerialReadByte ==
    ASSUME IInv, SerialRead, Head(ring)[3] # "END"
    PROVE  IInv'
<1>1. Types
  BY TypesAre DEF IInv
<1>2. /\ frames' = frames /\ tx_queue' = tx_queue /\ radioed' = radioed /\ out' = out
      /\ ends' = ends /\ cut' = cut
      /\ message' = message /\ taken' = taken /\ radio_mac' = radio_mac
      /\ ring # <<>> /\ ring' = Tail(ring) /\ slip_buffer' = Append(slip_buffer, Head(ring))
  BY DEF SerialRead, stick
<1>3. slip_buffer \in Seq(Byte) /\ ring \in Seq(Byte) /\ out \in Seq(Byte)
  BY <1>1, BytesAre DEF Types
<1>4. /\ Head(ring) \in Byte /\ ring' \in Bytes /\ Len(ring') = Len(ring) - 1
      /\ Len(ring) \in Nat /\ RingSize \in Nat
  BY <1>2, <1>3, BytesAre, HeadTailProperties, LenProperties, UsbBridgeAssumption
<1>5. /\ slip_buffer' \in Bytes /\ Len(slip_buffer') = Len(slip_buffer) + 1
      /\ Len(slip_buffer) \in Nat
      /\ \A i \in 1 .. Len(slip_buffer) : slip_buffer'[i] = slip_buffer[i]
      /\ slip_buffer'[Len(slip_buffer) + 1] = Head(ring)
  BY <1>2, <1>3, <1>4, BytesAre, AppendProperties, LenProperties
<1>6. Unread' = Unread
  <2>1. ring # <<>>
    BY <1>2
  <2>2. Append(slip_buffer, Head(ring)) \o (Tail(ring) \o out) = slip_buffer \o (ring \o out)
    BY <1>3, <2>1, MoveOne, SMTT(30)
  <2>3. QED BY <1>2, <2>2 DEF Unread
<1>7. AtWork'
  <2>1. \A i \in 1 .. Len(slip_buffer') :
            i \in 1 .. Len(slip_buffer) \/ i = Len(slip_buffer) + 1
    BY <1>5
  <2>2. \A i \in 1 .. Len(slip_buffer') : slip_buffer'[i][3] # "END"
    BY <1>5, <2>1 DEF IInv, AtWork
  <2>3. QED BY <1>2, <1>6, <2>2 DEF IInv, AtWork
<1>8. TypeOK'
  <2>1. Len(ring') <= RingSize
    BY <1>1, <1>4 DEF Types
  <2>2. Types'
    BY <1>1, <1>2, <1>4, <1>5, <2>1 DEF Types, SerialRead, stick
  <2>3. QED BY <2>2 DEF TypeOK, Types, Command, Packet
<1>9. Packets' /\ Booted'
  BY <1>2 DEF IInv, Packets, Booted, SerialRead, stick
<1>10. CutsSpoilNeighbours'
  BY <1>2 DEF IInv, CutsSpoilNeighbours, Spoiled, Carries
<1>11. BridgeBelieves'
  BY <1>2 DEF IInv, BridgeBelieves, Spoiled
<1>12. QED BY <1>7, <1>8, <1>9, <1>10, <1>11 DEF IInv

\* v is what follows a and the byte h in u.
Follow(S, a, h, u, v) ==
    /\ u \in Seq(S) /\ v \in Seq(S) /\ Len(a) \in Nat /\ Len(a) < Len(u)
    /\ Len(v) = Len(u) - (Len(a) + 1)
    /\ \A i \in 1 .. Len(v) : v[i] = u[Len(a) + 1 + i]
    /\ u[Len(a) + 1] = h /\ \A i \in 1 .. Len(a) : u[i] = a[i]

\* What follows the first END, in the parts of the stream.
LEMMA AfterEnd ==
    ASSUME NEW S, NEW a \in Seq(S), NEW b \in Seq(S), b # <<>>, NEW c \in Seq(S)
    PROVE  Follow(S, a, Head(b), a \o (b \o c), <<>> \o (Tail(b) \o c))
<1> DEFINE x == Append(a, Head(b))
           y == Tail(b) \o c
           u == a \o (b \o c)
           v == <<>> \o y
<1>1. Head(b) \in S /\ Tail(b) \in Seq(S) /\ Len(Tail(b)) = Len(b) - 1
  BY HeadTailProperties
<1>2. /\ x \in Seq(S) /\ Len(x) = Len(a) + 1 /\ Len(a) \in Nat
      /\ \A i \in 1 .. Len(a) : x[i] = a[i]
      /\ x[Len(a) + 1] = Head(b)
  BY <1>1, AppendProperties, LenProperties
<1>3. y \in Seq(S) /\ Len(y) \in Nat
  BY <1>1, ConcatProperties, LenProperties
<1>4. u = x \o y
  BY MoveOne, SMTT(30)
<1>5. v = y
  <2> HIDE DEF y
  <2>1. QED BY <1>3, ConcatEmptySeq
<1> HIDE DEF x, y, u, v
<1>6. /\ x \o y \in Seq(S) /\ Len(x \o y) = Len(x) + Len(y)
      /\ \A i \in 1 .. Len(x) + Len(y) : (x \o y)[i] =
            IF i <= Len(x) THEN x[i] ELSE y[i - Len(x)]
  BY <1>2, <1>3, ConcatProperties
<1>7. /\ u \in Seq(S) /\ Len(u) = Len(a) + 1 + Len(y)
      /\ \A i \in 1 .. Len(a) + 1 + Len(y) :
            u[i] = IF i <= Len(a) + 1 THEN x[i] ELSE y[i - (Len(a) + 1)]
  BY <1>2, <1>4, <1>6
<1>8. \A i \in 1 .. Len(v) :
          /\ Len(a) + 1 + i \in 1 .. Len(a) + 1 + Len(y) /\ ~(Len(a) + 1 + i <= Len(a) + 1)
          /\ (Len(a) + 1 + i) - (Len(a) + 1) = i
  BY <1>2, <1>3, <1>5
<1>9. \A i \in 1 .. Len(v) : v[i] = u[Len(a) + 1 + i]
  BY <1>5, <1>7, <1>8
<1>10. Len(a) < Len(u) /\ Len(v) = Len(u) - (Len(a) + 1)
  BY <1>2, <1>3, <1>5, <1>7
<1>11. \A i \in 1 .. Len(a) + 1 : i \in 1 .. Len(a) + 1 + Len(y) /\ i <= Len(a) + 1
  BY <1>2, <1>3
<1>12. Len(a) + 1 \in 1 .. Len(a) + 1 /\ \A i \in 1 .. Len(a) : i \in 1 .. Len(a) + 1
  BY <1>2
<1>13. u[Len(a) + 1] = Head(b) /\ \A i \in 1 .. Len(a) : u[i] = a[i]
  BY <1>2, <1>7, <1>11, <1>12
<1>14. u \in Seq(S) /\ v \in Seq(S) /\ Len(a) \in Nat
  BY <1>2, <1>3, <1>5, <1>7
<1>15. Follow(S, a, Head(b), u, v)
  BY <1>9, <1>10, <1>13, <1>14 DEF Follow
<1>16. QED BY <1>15 DEF u, v, y

\* What a reply or a frame of the radio, whole, is taken for.
LEMMA TakenFacts ==
    ASSUME NEW p \in Packet, Honest(p, radioed), HandleRadioPacket(p.data)
    PROVE  /\ taken' = "M" => radio_mac' = <<"mac", "mac">>
           /\ taken' = "R" /\ p.data[4] = "ok" => \E s \in radioed : p.data[3] = Digit(s)
           /\ taken' = "tun" => p.kind = "radio"
<1> DEFINE d == p.data
<1>1. CASE p.kind = "M"
  <2>1. d = <<"!", "M", "mac", "mac", "x">>
    BY <1>1 DEF Honest
  <2>2. d[1] = "!" /\ d[2] = "M" /\ SubSeq(d, 3, 4) = <<"mac", "mac">>
    <3>1. d[1] = "!" /\ d[2] = "M" /\ d[3] = "mac" /\ d[4] = "mac"
      BY <2>1
    <3>2. \A i \in 3 .. 4 : d[i] \in ByteValues
      BY <3>1, ByteValuesFacts
    <3> DEFINE s == SubSeq(d, 3, 4)
               t == <<"mac", "mac">>
    <3>3. /\ s \in Seq(ByteValues) /\ Len(s) = IF 3 <= 4 THEN 4 - 3 + 1 ELSE 0
          /\ \A i \in 1 .. 4 - 3 + 1 : s[i] = d[3 + i - 1]
      BY <3>2, SubSeqProperties
    <3>4. t \in Seq(ByteValues) /\ Len(t) = 2 /\ \A i \in 1 .. 2 : t[i] = "mac"
      BY ByteValuesFacts
    <3> HIDE DEF s, t
    <3>5. Len(s) = 2 /\ \A i \in 1 .. 2 : s[i] = "mac"
      BY <3>1, <3>3
    <3>6. s = t
      BY <3>3, <3>4, <3>5, SeqEqual
    <3>7. QED BY <3>1, <3>6 DEF s, t
  <2>3. taken' # "R" /\ taken' # "tun"
    BY <2>2, HandleFacts
  <2>4. QED BY <2>2, <2>3, HandleFacts
<1>2. CASE p.kind = "R"
  <2>1. PICK s \in 0 .. SeqRange - 1, status \in {"ok", "err"} :
            /\ d = <<"!", "R", Digit(s), status, "x">>
            /\ status = "ok" => s \in radioed
    BY <1>2 DEF Honest
  <2>2. d[1] = "!" /\ d[2] = "R" /\ d[3] = Digit(s) /\ d[4] = status
    BY <2>1
  <2>3. taken' # "M" /\ taken' # "tun"
    BY <2>2, HandleFacts
  <2>4. QED BY <2>1, <2>2, <2>3
<1>3. CASE p.kind = "radio"
  <2>1. ~(d[1] = "!" /\ d[2] \in {"M", "R"})
    BY <1>3, UsbBridgeAssumption DEF Honest
  <2>2. taken' # "M" /\ taken' # "R"
    BY <2>1, HandleFacts
  <2>3. QED BY <1>3, <2>2
<1>4. QED BY <1>1, <1>2, <1>3 DEF Packet

\* The END of a message.
LEMMA SerialReadEnd ==
    ASSUME IInv, SerialRead, Head(ring)[3] = "END"
    PROVE  IInv'
<1>1. Types
  BY TypesAre DEF IInv
<1> DEFINE f == Head(ring)[1]
           k == Len(slip_buffer)
           u == Unread
           v == Unread'
<1>2. /\ frames' = frames /\ tx_queue' = tx_queue /\ radioed' = radioed /\ out' = out
      /\ cut' = cut /\ ring # <<>> /\ ring' = Tail(ring) /\ slip_buffer' = <<>>
      /\ ends' = Append(ends, f) /\ message' = DecodeSlip(slip_buffer)
      /\ HandleRadioPacket(Values(message'))
  BY DEF SerialRead, EndOfMessage, stick
<1>3. slip_buffer \in Seq(Byte) /\ ring \in Seq(Byte) /\ out \in Seq(Byte)
  BY <1>1, BytesAre DEF Types
<1>4. /\ u \in Bytes /\ v \in Bytes /\ k \in Nat /\ k < Len(u) /\ Len(v) = Len(u) - (k + 1)
      /\ \A i \in 1 .. Len(v) : v[i] = u[k + 1 + i]
      /\ u[k + 1] = Head(ring) /\ \A i \in 1 .. k : u[i] = slip_buffer[i]
  <2>1. ring # <<>>
    BY <1>2
  <2>2. Unread' = <<>> \o (Tail(ring) \o out)
    BY <1>2 DEF Unread
  <2>3. Follow(Byte, slip_buffer, Head(ring), u, v)
    BY <1>3, <2>1, <2>2, AfterEnd DEF Unread
  <2> HIDE DEF u, v
  <2>4. QED BY <2>3, BytesAre DEF Follow
<1> HIDE DEF u, v
<1>5. \A i \in 1 .. k : u[i][3] # "END"
  BY <1>4 DEF IInv, AtWork
<1>6. /\ frames \in Seq(Packet) /\ LastEnd(ends) \in 0 .. Len(frames)
      /\ Stream(frames, u, LastEnd(ends), cut)
  BY <1>1, EndsFacts DEF IInv, AtWork, Types, u
<1>7. /\ f \in 1 .. Len(frames) /\ LastEnd(ends) < f /\ f \notin cut
      /\ \A g \in LastEnd(ends) + 1 .. f - 1 : g \in cut
      /\ Stream(frames, v, f, cut)
      /\ f - 1 \notin cut =>
            k = Len(Code(frames, f)) - 1 /\ \A m \in 1 .. k : u[m] = Code(frames, f)[m]
  <2>1. u[k + 1][3] = "END" /\ u[k + 1][1] = f
    BY <1>4
  <2> DEFINE last == LastEnd(ends)
  <2> HIDE DEF f, k, last
  <2>2. Splits(frames, u, k, v, last, cut, u[k + 1][1])
    <3>1. /\ frames \in Seq(Packet) /\ last \in 0 .. Len(frames)
          /\ Stream(frames, u, last, cut)
      BY <1>6 DEF last
    <3>2. u \in Bytes /\ v \in Bytes /\ k \in Nat
      BY <1>4
    <3>3. FirstEnd(u, k, v)
      BY <1>4, <1>5, <2>1 DEF FirstEnd
    <3>4. QED BY <3>1, <3>2, <3>3, StreamSplit
  <2>3. QED BY <2>1, <2>2 DEF last, Splits
<1> HIDE DEF f
<1>8. message' \in Bytes
  BY <1>1, <1>2, DecodeSlipType DEF Types
<1>9. frames[f] \in Packet /\ Honest(frames[f], radioed)
  <2>1. f \in 1 .. Len(frames)
    BY <1>7
  <2> HIDE DEF f
  <2>2. QED BY <1>6, <2>1, ElementOfSeq DEF IInv, Packets, AllHonest
<1>10. ASSUME f - 1 \notin cut PROVE Decoded(message', f, frames[f].data, Len(frames[f].data))
  <2>1. /\ f \in 1 .. Len(frames) /\ frames[f].data \in Seq(ByteValues) /\ slip_buffer \in Bytes
        /\ f \in Nat
    BY <1>1, <1>7, <1>9, EndsFacts, SMTT(30) DEF Packet, Types
  <2>2. k = Len(Code(frames, f)) - 1 /\ \A m \in 1 .. k : slip_buffer[m] = Code(frames, f)[m]
    BY <1>4, <1>7, <1>10
  <2> HIDE DEF f
  <2>3. /\ Len(Code(frames, f)) = Len(Encoded(frames[f].data))
        /\ Len(Code(frames, f)) \in Nat
        /\ \A m \in 1 .. Len(Code(frames, f)) :
              /\ Code(frames, f)[m][1] = f
              /\ Code(frames, f)[m][3] = Encoded(frames[f].data)[m]
    BY <1>6, <2>1, CodeFacts
  <2>4. \A m \in 1 .. k : m \in 1 .. Len(Code(frames, f))
    BY <2>2, <2>3
  <2>5. \A m \in 1 .. Len(slip_buffer) :
            slip_buffer[m][1] = f /\ slip_buffer[m][3] = Encoded(frames[f].data)[m]
    BY <2>2, <2>3, <2>4
  <2>6. Len(slip_buffer) = Len(Encoded(frames[f].data)) - 1
    BY <2>2, <2>3
  <2>7. Decoded(DecodeSlip(slip_buffer), f, frames[f].data, Len(frames[f].data))
    BY <2>1, <2>5, <2>6, DecodeEncoded
  <2>8. QED BY <1>2, <2>7
<1> HIDE DEF f, k
<1>11. ASSUME f - 1 \notin cut
       PROVE  Values(message') = frames[f].data /\ \A i \in DOMAIN message' : message'[i][1] = f
  <2>1. Decoded(message', f, frames[f].data, Len(frames[f].data))
    BY <1>10, <1>11
  <2>2. DOMAIN message' = 1 .. Len(message') /\ frames[f].data \in Seq(ByteValues)
    BY <1>8, <1>9, BytesAre, LenProperties DEF Packet
  <2>3. /\ Values(message') \in Seq(ByteValues) /\ Len(Values(message')) = Len(message')
        /\ \A i \in 1 .. Len(message') : Values(message')[i] = message'[i][3]
    BY <1>8, ValuesFacts
  <2>4. Values(message') = frames[f].data
    <3>1. Len(Values(message')) = Len(frames[f].data)
      BY <2>1, <2>3 DEF Decoded
    <3>2. \A i \in 1 .. Len(Values(message')) : Values(message')[i] = frames[f].data[i]
      BY <2>1, <2>3 DEF Decoded
    <3>3. QED BY <2>2, <2>3, <3>1, <3>2, SeqEqual
  <2>5. QED BY <2>1, <2>2, <2>4 DEF Decoded
<1>12. /\ Len(ends) \in Nat /\ DOMAIN ends = 1 .. Len(ends) /\ DOMAIN frames = 1 .. Len(frames)
       /\ Len(frames) \in Nat
       /\ \A i \in DOMAIN ends : ends[i] \in 1 .. Len(frames)
       /\ ends # <<>> =>
             LastEnd(ends) = Last(ends) /\ Last(ends) = ends[Len(ends)] /\ Len(ends) >= 1
  BY <1>1, EndsFacts DEF Last
<1>13. /\ ends' \in Seq(DOMAIN frames) /\ ends' # <<>> /\ Len(ends') = Len(ends) + 1
       /\ DOMAIN ends' = 1 .. Len(ends) + 1
       /\ \A i \in 1 .. Len(ends) : ends'[i] = ends[i]
       /\ ends'[Len(ends) + 1] = f /\ Last(ends') = f /\ LastEnd(ends') = f
  <2>1. f \in DOMAIN frames /\ ends \in Seq(DOMAIN frames)
    BY <1>1, <1>7, <1>12 DEF Types
  <2>2. /\ ends' \in Seq(DOMAIN frames) /\ ends' # <<>> /\ Len(ends') = Len(ends) + 1
        /\ \A i \in 1 .. Len(ends) : ends'[i] = ends[i]
        /\ ends'[Len(ends) + 1] = f
    BY <1>2, <2>1, AppendProperties
  <2>3. DOMAIN ends' = 1 .. Len(ends')
    BY <2>2, LenProperties
  <2>4. QED BY <2>2, <2>3 DEF Last, LastEnd
<1>14. \A i \in 1 .. Len(ends) : ends[i] <= LastEnd(ends) /\ ends[i] < f
  <2> SUFFICES ASSUME NEW i \in 1 .. Len(ends) PROVE ends[i] <= LastEnd(ends) /\ ends[i] < f
    OBVIOUS
  <2>1. ends # <<>> /\ Len(ends) \in 1 .. Len(ends)
    BY <1>12, EmptySeq
  <2>0. Len(ends) \in Nat
    BY <1>12
  <2>2. i = Len(ends) \/ i < Len(ends)
    BY <2>0
  <2>3. ends[i] = ends[Len(ends)] \/ ends[i] < ends[Len(ends)]
    BY <1>12, <2>1, <2>2 DEF IInv, CutsSpoilNeighbours
  <2>4. ends[i] \in Nat /\ LastEnd(ends) = ends[Len(ends)] /\ f \in Nat /\ LastEnd(ends) \in Nat
    BY <1>6, <1>7, <1>12, <2>1
  <2>5. QED BY <1>7, <2>3, <2>4
<1>15. CutsSpoilNeighbours'
  <2>1. \A i, j \in DOMAIN ends' : i < j => ends'[i] < ends'[j]
    <3> SUFFICES ASSUME NEW i \in DOMAIN ends', NEW j \in DOMAIN ends', i < j
                 PROVE  ends'[i] < ends'[j]
      OBVIOUS
    <3>1. i \in 1 .. Len(ends) /\ (j \in 1 .. Len(ends) \/ j = Len(ends) + 1)
      BY <1>12, <1>13
    <3>2. CASE j \in 1 .. Len(ends)
      <4>1. ends # <<>>
        BY <1>12, <3>2, EmptySeq
      <4>2. ends[i] < ends[j]
        BY <1>12, <3>1, <3>2, <4>1 DEF IInv, CutsSpoilNeighbours
      <4>3. QED BY <1>13, <3>1, <3>2, <4>2
    <3>3. CASE j = Len(ends) + 1
      BY <1>13, <1>14, <3>1, <3>3
    <3>4. QED BY <3>1, <3>2, <3>3
  <2>2. ASSUME NEW g \in 1 .. f PROVE g \notin cut <=> \E i \in DOMAIN ends' : ends'[i] = g
    <3>1. CASE g = f
      <4>1. Len(ends) + 1 \in DOMAIN ends'
        BY <1>12, <1>13
      <4>2. QED BY <1>7, <1>13, <3>1, <4>1
    <3>2. CASE LastEnd(ends) < g /\ g # f
      <4>1. g \in cut
        BY <1>6, <1>7, <3>2
      <4>2. \A i \in 1 .. Len(ends) : ends[i] # g
        BY <1>12, <1>14, <1>6, <3>2
      <4>3. \A i \in DOMAIN ends' : ends'[i] # g
        BY <1>12, <1>13, <3>2, <4>2
      <4>4. QED BY <4>1, <4>3
    <3>3. CASE g <= LastEnd(ends)
      <4>1. ends # <<>> /\ g \in 1 .. Last(ends)
        BY <1>6, <1>12, <3>3 DEF LastEnd
      <4>2. g \notin cut <=> \E i \in DOMAIN ends : ends[i] = g
        BY <4>1 DEF IInv, CutsSpoilNeighbours
      <4>3. g # f
        BY <1>6, <1>7, <3>3
      <4>4. (\E i \in DOMAIN ends : ends[i] = g) <=> (\E i \in DOMAIN ends' : ends'[i] = g)
        <5>1. \A i \in DOMAIN ends : i \in DOMAIN ends' /\ ends'[i] = ends[i]
          BY <1>12, <1>13
        <5>2. \A i \in DOMAIN ends' : i \in DOMAIN ends \/ ends'[i] = f
          BY <1>12, <1>13
        <5>3. QED BY <4>3, <5>1, <5>2
      <4>5. QED BY <4>2, <4>4
    <3>4. QED BY <1>6, <1>7, <3>1, <3>2, <3>3
  <2>3. f - 1 \in cut \/ (Values(message') = frames[f].data
                          /\ \A i \in DOMAIN message' : message'[i][1] = f)
    BY <1>11
  <2>4. QED BY <1>2, <1>13, <2>1, <2>2, <2>3 DEF CutsSpoilNeighbours, Spoiled, Carries
<1>16. /\ taken' \in {"none", "M", "R", "tun"}
       /\ taken' = "M" => Len(Values(message')) >= 4
       /\ taken' = "M" => radio_mac' = SubSeq(Values(message'), 3, 4)
       /\ taken' # "M" => radio_mac' = radio_mac
  BY <1>2, HandleFacts
<1>17. Values(message') \in Seq(ByteValues) /\ Len(Values(message')) = Len(message')
       /\ \A i \in 1 .. Len(message') : Values(message')[i] = message'[i][3]
  BY <1>8, ValuesFacts
<1>18. /\ f - 1 \notin cut /\ taken' = "M" => radio_mac' = <<"mac", "mac">>
       /\ f - 1 \notin cut /\ taken' = "R" /\ message'[4][3] = "ok" =>
             \E s \in radioed : message'[3][3] = Digit(s)
       /\ f - 1 \notin cut /\ taken' = "tun" => frames[f].kind = "radio"
  <2> SUFFICES ASSUME f - 1 \notin cut
               PROVE  /\ taken' = "M" => radio_mac' = <<"mac", "mac">>
                      /\ taken' = "R" /\ message'[4][3] = "ok" =>
                            \E s \in radioed : message'[3][3] = Digit(s)
                      /\ taken' = "tun" => frames[f].kind = "radio"
    OBVIOUS
  <2>1. Values(message') = frames[f].data
    BY <1>11
  <2>2. HandleRadioPacket(frames[f].data)
    BY <1>2, <2>1
  <2>3. /\ taken' = "M" => radio_mac' = <<"mac", "mac">>
        /\ taken' = "R" /\ frames[f].data[4] = "ok" =>
              \E s \in radioed : frames[f].data[3] = Digit(s)
        /\ taken' = "tun" => frames[f].kind = "radio"
    BY <1>9, <2>2, TakenFacts
  <2>4. taken' = "R" => message'[4][3] = frames[f].data[4] /\ message'[3][3] = frames[f].data[3]
    <3>1. taken' = "R" => Len(Values(message')) >= 4
      BY <1>2, HandleFacts
    <3>2. Len(message') \in Nat
      BY <1>8, BytesAre, LenProperties
    <3>3. taken' = "R" => 3 \in 1 .. Len(message') /\ 4 \in 1 .. Len(message')
      BY <1>17, <3>1, <3>2
    <3>4. QED BY <1>17, <2>1, <3>3
  <2>5. QED BY <2>3, <2>4
<1>19. BridgeBelieves'
  <2>1. \/ radio_mac' \in {<<>>, <<"mac", "mac">>}
        \/ \E i \in DOMAIN ends' : ends'[i] - 1 \in cut
    <3>1. CASE f - 1 \in cut
      <4>1. Len(ends) + 1 \in DOMAIN ends'
        BY <1>12, <1>13
      <4>2. QED BY <1>13, <3>1, <4>1
    <3>2. CASE f - 1 \notin cut /\ taken' = "M"
      BY <1>18, <3>2
    <3>3. CASE taken' # "M"
      <4>1. radio_mac' = radio_mac
        BY <1>16, <3>3
      <4>2. \/ radio_mac \in {<<>>, <<"mac", "mac">>}
            \/ \E i \in DOMAIN ends : ends[i] - 1 \in cut
        BY DEF IInv, BridgeBelieves, Spoiled
      <4>3. \A i \in DOMAIN ends : i \in DOMAIN ends' /\ ends'[i] = ends[i]
        BY <1>12, <1>13
      <4>4. QED BY <4>1, <4>2, <4>3
    <3>4. QED BY <3>1, <3>2, <3>3
  <2>2. taken' = "R" /\ message'[4][3] = "ok" =>
            f - 1 \in cut \/ \E s \in radioed : message'[3][3] = Digit(s)
    BY <1>18
  <2>3. taken' = "tun" => f - 1 \in cut \/ frames[f].kind = "radio"
    BY <1>18
  <2>4. QED BY <1>2, <1>13, <2>1, <2>2, <2>3 DEF BridgeBelieves, Spoiled
<1>20. TypeOK'
  <2>1. /\ ring' \in Bytes /\ Len(ring') = Len(ring) - 1 /\ Len(ring) \in Nat /\ RingSize \in Nat
    BY <1>2, <1>3, BytesAre, HeadTailProperties, LenProperties, UsbBridgeAssumption
  <2>2. Len(ring') <= RingSize
    BY <1>1, <2>1 DEF Types
  <2>3. radio_mac' \in Seq(ByteValues) /\ Len(radio_mac') \in {0, 2}
    <3>1. CASE taken' = "M"
      <4> DEFINE m == Values(message')
      <4>1. m \in Seq(ByteValues) /\ Len(m) \in Nat /\ Len(m) >= 4 /\ radio_mac' = SubSeq(m, 3, 4)
        BY <1>16, <1>17, <3>1, LenProperties
      <4> HIDE DEF m
      <4>2. \A i \in 3 .. 4 : m[i] \in ByteValues
        BY <4>1, ElementOfSeq
      <4>3. SubSeq(m, 3, 4) \in Seq(ByteValues) /\ Len(SubSeq(m, 3, 4)) = 2
        BY <4>2, SubSeqProperties
      <4>4. QED BY <4>1, <4>3
    <3>2. CASE taken' # "M"
      BY <1>1, <1>16, <3>2 DEF Types
    <3>3. QED BY <3>1, <3>2
  <2>4. slip_buffer' \in Bytes /\ ends' \in Seq(DOMAIN frames')
    BY <1>2, <1>13, BytesAre, EmptySeq
  <2>5. Types'
    BY <1>1, <1>2, <1>8, <1>16, <2>1, <2>2, <2>3, <2>4 DEF Types, SerialRead, stick
  <2>6. QED BY <2>5 DEF TypeOK, Types, Command, Packet
<1>21. AtWork'
  <2>1. Stream(frames', Unread', LastEnd(ends'), cut')
    BY <1>2, <1>7, <1>13 DEF v
  <2>2. Len(slip_buffer') = 0
    BY <1>2
  <2>3. QED BY <1>2, <2>1, <2>2 DEF IInv, AtWork
<1>22. Packets' /\ Booted'
  BY <1>2, <1>13 DEF IInv, Packets, Booted, SerialRead, stick
<1>23. QED BY <1>15, <1>19, <1>20, <1>21, <1>22 DEF IInv

-----------------------------------------------------------------------------
(* The theorems.                                                           *)

LEMMA StutterStep == IInv /\ UNCHANGED vars => IInv'
<1> SUFFICES ASSUME IInv, UNCHANGED vars PROVE IInv'
  OBVIOUS
<1>1. UNCHANGED Wire /\ UNCHANGED <<tx_queue, radioed>>
  BY DEF vars, stick, host, Wire
<1>2. Types'
  BY TypesAre DEF IInv, Types, vars, stick, host
<1>3. Booted'
  BY DEF IInv, Booted, vars, stick, host
<1>4. QED BY <1>1, <1>2, <1>3, StillStep

LEMMA StepInvariant == IInv /\ [Next]_vars => IInv'
<1> SUFFICES ASSUME IInv, [Next]_vars PROVE IInv'
  OBVIOUS
<1>1. CASE SerialRead
  BY <1>1, SerialReadByte, SerialReadEnd
<1>2. CASE TxThread
  BY <1>2, TxGetStep, FifoFillStep, FifoFullStep DEF TxThread
<1>3. QED BY <1>1, <1>2, MainStep, InterruptHandlerStep, RxThreadStep, NetRecvDataStep,
             RequestMacStep, TunReadStep, StutterStep DEF Next

\* The inductive invariant holds in every state: what is on the line is, frame after
\* frame, what slip_buffer made of the frames tx_thread took, up to where try_write
\* dropped them.
THEOREM Invariance == Spec => []IInv
<1>1. QED BY InitInvariant, StepInvariant, PTL DEF Spec

\* Every variable keeps its type, so that the ring never holds more than it has room
\* for, however try_write and the reads of the bridge follow each other.
THEOREM TypeCorrect == Spec => []TypeOK
<1>1. IInv => TypeOK
  BY DEF IInv
<1>2. QED BY <1>1, Invariance, PTL

\* However short the writes to the ring are, a frame that try_write has cut spoils at
\* most the one after it: the bridge reads each frame that was written to its end, in
\* order, and as it was before slip_buffer unless the frame before it was cut.
THEOREM CutsSpoilNeighboursHolds == Spec => []CutsSpoilNeighbours
<1>1. IInv => CutsSpoilNeighbours
  BY DEF IInv
<1>2. QED BY <1>1, Invariance, PTL

\* handle_radio_packet never takes a frame for what it is not, but for one that follows
\* a cut: the address it stores is that of the stick, a report it logs as sent was made
\* for a packet that the radio has sent, and only frames of the radio reach the TUN device.
THEOREM BridgeBelievesHolds == Spec => []BridgeBelieves
<1>1. IInv => BridgeBelieves
  BY DEF IInv
<1>2. QED BY <1>1, Invariance, PTL

=============================================================================
