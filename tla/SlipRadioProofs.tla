-------------------------- MODULE SlipRadioProofs --------------------------
(***************************************************************************)
(* Proofs about SlipRadio, for pools of any size, any set of channels and  *)
(* any number of commands and radio frames.                                *)
(***************************************************************************)
EXTENDS SlipRadio, FiniteSetTheorems, SequenceTheorems, TLAPS

LEMMA ConstantFacts ==
    /\ MaxCommands \in Nat /\ MaxJunk \in Nat /\ MaxRadio \in Nat
    /\ RxPool \in Nat \ {0} /\ TxPool \in Nat \ {0}
    /\ DefaultChannel \in Channels
    /\ NULL \notin Commands /\ NULL \notin OutFrames
BY SlipRadioAssumption

-----------------------------------------------------------------------------
(* The inductive invariant.                                                *)

\* Commands that rx_thread has taken from its queue, those that have had their effect on
\* the radio, and those whose reply has been queued or dropped.
Taken == Len(accepted) - Len(rx_queue)
Applied == IF job # NULL /\ step = "parse" THEN Taken - 1 ELSE Taken
Replied == IF job # NULL /\ step # "unref" THEN Taken - 1 ELSE Taken

\* No command runs before main has read the address and enabled the reception.
Booted ==
    /\ boot \in {"radio", "callback", "ready"} => mac_addr
    /\ accepted # <<>> => boot = "ready"

\* The commands are numbered as they came; junk has no number.
Numbered ==
    /\ \A i \in 1 .. Len(accepted) :
          /\ accepted[i].seq <= issued
          /\ accepted[i].seq = 0 <=> accepted[i].kind = "junk"
    /\ \A i, j \in 1 .. Len(accepted) :
          i < j /\ accepted[j].kind # "junk" => accepted[i].seq < accepted[j].seq

\* rx_thread works on the commands in their order. Junk may have become any command.
Queued ==
    /\ Len(rx_queue) + One(job # NULL) <= Len(accepted)
    /\ \A i \in 1 .. Len(rx_queue) : rx_queue[i] = accepted[Taken + i]
    /\ job # NULL =>
          /\ job.seq = accepted[Taken].seq
          /\ accepted[Taken].kind # "junk" => job = accepted[Taken]

\* n is below the number of every command after the p-th.
BehindIn(acc, top, n, p) ==
    /\ n <= top
    /\ \A i \in p + 1 .. Len(acc) : acc[i].kind # "junk" => n < acc[i].seq

Behind(n, p) == BehindIn(accepted, issued, n, p)

Sent(a, n) == \E k \in 1 .. Len(a) : a[k][1] = n
InAir(n) == Sent(air, n)

\* What was transmitted came from commands that have had their effect.
Transmitted ==
    /\ \A k \in 1 .. Len(air) : Behind(air[k][1], Applied)
    /\ \A k, l \in 1 .. Len(air) :
          k < l /\ air[k][1] > 0 /\ air[l][1] > 0 => air[k][1] < air[l][1]

\* The status is the one of the command that is to be reported.
StatusOwn ==
    job # NULL /\ step = "report" /\ job.seq > 0 => (status = 0 <=> InAir(job.seq))

\* What can be said of each frame on its way to the host or there.
HonestIn(f, arr, acc, top, p, a) ==
    /\ f.kind = "radio" => f.n <= arr
    /\ f \in Replies => BehindIn(acc, top, f.n, p)
    /\ f.kind = "report" /\ f.n > 0 => (f.value = 0 <=> Sent(a, f.n))
    /\ f.kind = "mac" => f.value = 1

Honest(f) == HonestIn(f, arrived, accepted, issued, Replied, air)

StreamHonest == \A k \in 1 .. Len(Stream) : Honest(Stream[k])

\* The first i commands are ones the host has sent.
CleanIn(acc, i) == \A j \in 1 .. i : acc[j].kind # "junk"
Clean(i) == CleanIn(accepted, i)

Tuned == Clean(Applied) => ChannelBefore(Applied + 1, channel)

IInv ==
    /\ TypeOK /\ PoolsConserved /\ Booted /\ Numbered /\ Queued
    /\ Transmitted /\ StatusOwn /\ StreamHonest /\ HostOrder /\ Tuned /\ ChannelObeyed
-----------------------------------------------------------------------------
(* Packets on their way to the host.                                       *)

LEMMA FrameSeq ==
    ASSUME NEW s \in Seq(OutFrames)
    PROVE  /\ Len(s) \in Nat
           /\ \A i \in 1 .. Len(s) : s[i] \in OutFrames
BY LenProperties, ElementOfSeq

LEMMA CountFacts ==
    ASSUME NEW s, Len(s) \in Nat, NEW K
    PROVE  /\ IsFiniteSet({i \in 1 .. Len(s) : s[i].kind \in K})
           /\ CountKind(s, K) \in Nat
<1>1. IsFiniteSet(1 .. Len(s))
  BY FS_Interval
<1>2. IsFiniteSet({i \in 1 .. Len(s) : s[i].kind \in K})
  BY <1>1, FS_Subset
<1>3. QED BY <1>2, FS_CardinalityType DEF CountKind

LEMMA CountEmpty ==
    ASSUME NEW s, Len(s) = 0, NEW K
    PROVE  CountKind(s, K) = 0
<1>1. {i \in 1 .. Len(s) : s[i].kind \in K} = {}
  OBVIOUS
<1>2. QED BY <1>1, FS_EmptySet DEF CountKind

\* One frame put at the end.
LEMMA CountAppend ==
    ASSUME NEW s \in Seq(OutFrames), NEW f \in OutFrames, NEW K
    PROVE  CountKind(Append(s, f), K) = CountKind(s, K) + One(f.kind \in K)
<1> DEFINE t == Append(s, f)
           I == {i \in 1 .. Len(s) : s[i].kind \in K}
           J == {i \in 1 .. Len(t) : t[i].kind \in K}
<1>1. /\ Len(s) \in Nat /\ Len(t) = Len(s) + 1 /\ t[Len(s) + 1] = f
      /\ \A i \in 1 .. Len(s) : t[i] = s[i]
  BY AppendProperties, LenProperties
<1>2. IsFiniteSet(I) /\ CountKind(s, K) = Cardinality(I) /\ Cardinality(I) \in Nat
  BY <1>1, CountFacts DEF CountKind
<1>3. CountKind(t, K) = Cardinality(J)
  BY DEF CountKind
<1>4. CASE f.kind \in K
  <2>1. J = I \cup {Len(s) + 1} /\ Len(s) + 1 \notin I
    BY <1>1, <1>4
  <2>2. Cardinality(J) = Cardinality(I) + 1
    BY <1>2, <2>1, FS_AddElement
  <2>3. QED BY <1>2, <1>3, <1>4, <2>2 DEF One
<1>5. CASE f.kind \notin K
  <2>1. J = I
    BY <1>1, <1>5
  <2>2. One(f.kind \in K) = 0
    BY <1>5 DEF One
  <2> HIDE DEF I, J, t
  <2>3. CountKind(t, K) = CountKind(s, K) + One(f.kind \in K)
    BY <1>2, <1>3, <2>1, <2>2
  <2>4. QED BY <2>3 DEF t
<1>6. QED BY <1>4, <1>5

\* One frame in front.
LEMMA CountFirst ==
    ASSUME NEW s \in Seq(OutFrames), NEW f \in OutFrames, NEW K
    PROVE  CountKind(<<f>> \o s, K) = CountKind(s, K) + One(f.kind \in K)
<1> DEFINE t == <<f>> \o s
           I == {i \in 1 .. Len(s) : s[i].kind \in K}
           J == {i \in 1 .. Len(t) : t[i].kind \in K}
           Back == [i \in J \ {1} |-> i - 1]
<1>1. /\ Len(s) \in Nat /\ Len(t) = Len(s) + 1 /\ t[1] = f
      /\ \A i \in 2 .. Len(t) : t[i] = s[i - 1]
  <2>1. <<f>> \in Seq(OutFrames) /\ Len(<<f>>) = 1 /\ <<f>>[1] = f /\ Len(s) \in Nat
    BY LenProperties
  <2>2. /\ Len(t) = Len(s) + 1
        /\ \A i \in 1 .. Len(s) + 1 : t[i] = IF i <= 1 THEN <<f>>[i] ELSE s[i - 1]
    BY <2>1, ConcatProperties
  <2>3. QED BY <2>1, <2>2
<1>2. IsFiniteSet(I) /\ CountKind(s, K) = Cardinality(I) /\ Cardinality(I) \in Nat
  BY <1>1, CountFacts DEF CountKind
<1> HIDE DEF t
<1>3. /\ IsFiniteSet(J) /\ CountKind(t, K) = Cardinality(J) /\ Cardinality(J) \in Nat
  <2>1. Len(t) \in Nat
    BY <1>1
  <2>2. IsFiniteSet(J) /\ CountKind(t, K) \in Nat
    BY <2>1, CountFacts
  <2>3. QED BY <2>2 DEF CountKind
<1>4. Cardinality(J \ {1}) = Cardinality(I)
  <2>1. \A i \in J \ {1} : i - 1 \in I
    BY <1>1
  <2>2. \A i \in I : i + 1 \in J \ {1} /\ (i + 1) - 1 = i
    BY <1>1
  <2>3. Back \in Bijection(J \ {1}, I)
    <3>1. Back \in [J \ {1} -> I]
      BY <2>1
    <3>2. \A i, j \in J \ {1} : Back[i] = Back[j] => i = j
      BY <1>1
    <3>3. \A i \in I : \E j \in J \ {1} : Back[j] = i
      BY <2>2
    <3>4. QED BY <3>1, <3>2, <3>3, Zenon DEF Bijection, Injection, IsInjective, Surjection
  <2>4. IsFiniteSet(J \ {1})
    BY <1>3, FS_RemoveElement
  <2>5. QED BY <2>3, <2>4, FS_Bijection DEF ExistsBijection
<1>5. Cardinality(J \ {1}) = IF 1 \in J THEN Cardinality(J) - 1 ELSE Cardinality(J)
  BY <1>3, FS_RemoveElement
<1>6. 1 \in J <=> f.kind \in K
  BY <1>1
<1>7. CASE f.kind \in K
  <2>1. One(f.kind \in K) = 1 /\ Cardinality(I) = Cardinality(J) - 1
    BY <1>4, <1>5, <1>6, <1>7 DEF One
  <2>2. CountKind(t, K) = CountKind(s, K) + One(f.kind \in K)
    BY <1>2, <1>3, <2>1
  <2>3. QED BY <2>2 DEF t
<1>8. CASE f.kind \notin K
  <2>1. One(f.kind \in K) = 0 /\ Cardinality(I) = Cardinality(J)
    BY <1>4, <1>5, <1>6, <1>8 DEF One
  <2>2. CountKind(t, K) = CountKind(s, K) + One(f.kind \in K)
    BY <1>2, <1>3, <2>1
  <2>3. QED BY <2>2 DEF t
<1>9. QED BY <1>7, <1>8

\* What tx_thread has still to write, and everything the host has seen or will see.
Rest(o, q) == (IF o = NULL THEN <<>> ELSE <<o>>) \o q
Line(h, o, q) == h \o Rest(o, q)

LEMMA RestFacts ==
    ASSUME NEW o \in OutFrames \cup {NULL}, NEW q \in Seq(OutFrames)
    PROVE  /\ Rest(o, q) \in Seq(OutFrames)
           /\ Rest(NULL, q) = q
           /\ o # NULL => Rest(o, q) = <<o>> \o q
           /\ \A f \in OutFrames : Rest(o, Append(q, f)) = Append(Rest(o, q), f)
           /\ q # <<>> => Rest(Head(q), Tail(q)) = q /\ Head(q) \in OutFrames
<1>1. Rest(NULL, q) = q
  BY ConcatEmptySeq DEF Rest
<1>2. o # NULL => Rest(o, q) = <<o>> \o q
  BY DEF Rest
<1>3. Rest(o, q) \in Seq(OutFrames)
  <2>1. CASE o = NULL
    BY <1>1, <2>1
  <2>2. CASE o \in OutFrames
    <3>1. <<o>> \in Seq(OutFrames) /\ o # NULL
      BY <2>2, ConstantFacts
    <3>2. QED BY <1>2, <3>1, ConcatProperties
  <2>3. QED BY <2>1, <2>2
<1>4. ASSUME NEW f \in OutFrames PROVE Rest(o, Append(q, f)) = Append(Rest(o, q), f)
  <2> DEFINE p == IF o = NULL THEN <<>> ELSE <<o>>
  <2>1. p \in Seq(OutFrames)
    BY EmptySeq
  <2> HIDE DEF p
  <2>2. p \o Append(q, f) = Append(p \o q, f)
    <3>1. <<f>> \in Seq(OutFrames) /\ Append(q, f) = q \o <<f>>
      BY AppendIsConcat
    <3>2. Append(p \o q, f) = (p \o q) \o <<f>>
      BY <2>1, ConcatProperties, AppendIsConcat
    <3>3. QED BY <2>1, <3>1, <3>2, ConcatAssociative
  <2>3. QED BY <2>2 DEF p, Rest
<1>5. ASSUME q # <<>> PROVE Rest(Head(q), Tail(q)) = q /\ Head(q) \in OutFrames
  <2>1. Head(q) \in OutFrames /\ Head(q) # NULL
    BY <1>5, HeadTailProperties, ConstantFacts
  <2>2. <<Head(q)>> \o Tail(q) = q
    BY <1>5
  <2>3. QED BY <2>1, <2>2 DEF Rest
<1>6. QED BY <1>1, <1>2, <1>3, <1>4, <1>5

LEMMA LineFacts ==
    ASSUME NEW h \in Seq(OutFrames), NEW o \in OutFrames \cup {NULL}, NEW q \in Seq(OutFrames)
    PROVE  /\ Line(h, o, q) \in Seq(OutFrames)
           /\ \A f \in OutFrames : Line(h, o, Append(q, f)) = Append(Line(h, o, q), f)
           /\ q # <<>> => Line(h, Head(q), Tail(q)) = Line(h, NULL, q)
           /\ o # NULL => Line(Append(h, o), NULL, q) = Line(h, o, q)
<1>1. Rest(o, q) \in Seq(OutFrames) /\ Rest(NULL, q) = q /\ (o # NULL => Rest(o, q) = <<o>> \o q)
  BY RestFacts
<1>2. Line(h, o, q) \in Seq(OutFrames)
  BY <1>1, ConcatProperties DEF Line
<1>3. ASSUME NEW f \in OutFrames PROVE Line(h, o, Append(q, f)) = Append(Line(h, o, q), f)
  <2>0. \A g \in OutFrames : Rest(o, Append(q, g)) = Append(Rest(o, q), g)
    BY RestFacts
  <2>1. Rest(o, Append(q, f)) = Append(Rest(o, q), f)
    BY <2>0
  <2>2. Append(Rest(o, q), f) = Rest(o, q) \o <<f>> /\ <<f>> \in Seq(OutFrames)
    BY <1>1, AppendIsConcat
  <2>3. h \o (Rest(o, q) \o <<f>>) = (h \o Rest(o, q)) \o <<f>>
    BY <1>1, <2>2, ConcatAssociative
  <2>4. Append(Line(h, o, q), f) = Line(h, o, q) \o <<f>>
    BY <1>2, AppendIsConcat
  <2>5. QED BY <2>1, <2>2, <2>3, <2>4 DEF Line
<1>4. ASSUME q # <<>> PROVE Line(h, Head(q), Tail(q)) = Line(h, NULL, q)
  BY <1>1, <1>4, RestFacts DEF Line
<1>5. ASSUME o # NULL PROVE Line(Append(h, o), NULL, q) = Line(h, o, q)
  <2>1. <<o>> \in Seq(OutFrames) /\ o \in OutFrames
    BY <1>5
  <2>2. Append(h, o) = h \o <<o>> /\ h \o (<<o>> \o q) = (h \o <<o>>) \o q
    BY <2>1, AppendIsConcat, ConcatAssociative
  <2>3. QED BY <1>1, <1>5, <2>2 DEF Line
<1>6. QED BY <1>2, <1>3, <1>4, <1>5

\* s has only frames of t, in their order.
Part(s, t) ==
    \A i, j \in 1 .. Len(s) :
        \E a, b \in 1 .. Len(t) : t[a] = s[i] /\ t[b] = s[j] /\ (i < j => a < b)

\* The frame that is given up leaves the line.
LEMMA LineLosesOne ==
    ASSUME NEW h \in Seq(OutFrames), NEW o \in OutFrames, NEW q \in Seq(OutFrames)
    PROVE  Part(Line(h, NULL, q), Line(h, o, q))
<1> DEFINE s == Line(h, NULL, q)
           t == Line(h, o, q)
           At(i) == IF i <= Len(h) THEN i ELSE i + 1
<1>0. Len(h) \in Nat /\ Len(q) \in Nat /\ <<o>> \in Seq(OutFrames) /\ Len(<<o>>) = 1
  BY LenProperties
<1>1. s = h \o q
  BY RestFacts DEF Line
<1>2. /\ Len(s) = Len(h) + Len(q)
      /\ \A i \in 1 .. Len(s) : s[i] = IF i <= Len(h) THEN h[i] ELSE q[i - Len(h)]
  BY <1>1, ConcatProperties
<1>3. t = h \o (<<o>> \o q)
  BY RestFacts, ConstantFacts DEF Line
<1>4. /\ <<o>> \o q \in Seq(OutFrames) /\ Len(<<o>> \o q) = Len(q) + 1
      /\ \A i \in 2 .. Len(q) + 1 : (<<o>> \o q)[i] = q[i - 1]
  BY <1>0, ConcatProperties
<1>5. /\ Len(t) = Len(h) + Len(q) + 1
      /\ \A i \in 1 .. Len(t) : t[i] = IF i <= Len(h) THEN h[i] ELSE (<<o>> \o q)[i - Len(h)]
  BY <1>0, <1>3, <1>4, ConcatProperties
<1> HIDE DEF s, t
<1>6. ASSUME NEW i \in 1 .. Len(s) PROVE At(i) \in 1 .. Len(t) /\ t[At(i)] = s[i]
  <2>1. CASE i <= Len(h)
    BY <1>0, <1>2, <1>5, <2>1
  <2>2. CASE ~(i <= Len(h))
    <3>1. /\ At(i) = i + 1 /\ i + 1 \in 1 .. Len(t) /\ ~(i + 1 <= Len(h))
          /\ (i + 1) - Len(h) \in 2 .. Len(q) + 1 /\ (i + 1) - Len(h) - 1 = i - Len(h)
      BY <1>0, <1>2, <1>5, <2>2
    <3>2. t[i + 1] = (<<o>> \o q)[(i + 1) - Len(h)]
      BY <1>5, <3>1
    <3>3. (<<o>> \o q)[(i + 1) - Len(h)] = q[i - Len(h)]
      BY <1>4, <3>1
    <3>4. s[i] = q[i - Len(h)]
      BY <1>2, <2>2
    <3>5. QED BY <3>1, <3>2, <3>3, <3>4
  <2>3. QED BY <2>1, <2>2
<1>7. \A i, j \in 1 .. Len(s) : i < j => At(i) < At(j)
  BY <1>0
<1> HIDE DEF At
<1>8. Part(s, t)
  BY <1>6, <1>7 DEF Part
<1>9. QED BY <1>8 DEF s, t

LEMMA AscendingPart ==
    ASSUME NEW s, NEW t, NEW F, Ascending(t, F), Part(s, t)
    PROVE  Ascending(s, F)
<1> SUFFICES ASSUME NEW i \in 1 .. Len(s), NEW j \in 1 .. Len(s), i < j, s[i] \in F, s[j] \in F
             PROVE  s[i].n < s[j].n
  BY DEF Ascending
<1>1. \E a, b \in 1 .. Len(t) : t[a] = s[i] /\ t[b] = s[j] /\ a < b
  BY DEF Part
<1>2. QED BY <1>1 DEF Ascending

LEMMA AscendingAppend ==
    ASSUME NEW s \in Seq(OutFrames), NEW f \in OutFrames, NEW F, Ascending(s, F),
           f \in F => \A k \in 1 .. Len(s) : s[k] \in F => s[k].n < f.n
    PROVE  Ascending(Append(s, f), F)
<1> DEFINE t == Append(s, f)
<1>1. /\ Len(s) \in Nat /\ Len(t) = Len(s) + 1 /\ t[Len(s) + 1] = f
      /\ \A i \in 1 .. Len(s) : t[i] = s[i]
  BY AppendProperties, LenProperties
<1> HIDE DEF t
<1>2. ASSUME NEW i \in 1 .. Len(t), NEW j \in 1 .. Len(t), i < j, t[i] \in F, t[j] \in F
      PROVE  t[i].n < t[j].n
  <2>1. i \in 1 .. Len(s) /\ t[i] = s[i]
    BY <1>1, <1>2
  <2>2. CASE j \in 1 .. Len(s)
    BY <1>1, <1>2, <2>1, <2>2 DEF Ascending
  <2>3. CASE j = Len(s) + 1
    BY <1>1, <1>2, <2>1, <2>3
  <2>4. QED BY <1>1, <2>2, <2>3
<1>3. Ascending(t, F)
  BY <1>2 DEF Ascending
<1>4. QED BY <1>3 DEF t

-----------------------------------------------------------------------------
(* What the steps of tx_thread, and of those who give it frames, do to the *)
(* line.                                                                   *)

LEMMA StreamType ==
    ASSUME TypeOK
    PROVE  /\ Stream \in Seq(OutFrames) /\ Unwritten \in Seq(OutFrames)
           /\ Stream = Line(host, out, tx_queue) /\ Unwritten = Rest(out, tx_queue)
           /\ \A k \in 1 .. Len(Stream) : Stream[k] \in OutFrames
           /\ Len(Stream) \in Nat
           /\ \A K : CountKind(Unwritten, K) \in Nat
<1>1. Stream = Line(host, out, tx_queue) /\ Unwritten = Rest(out, tx_queue)
  BY DEF Stream, Unwritten, Line, Rest
<1>2. Stream \in Seq(OutFrames) /\ Unwritten \in Seq(OutFrames)
  BY <1>1, LineFacts, RestFacts DEF TypeOK
<1>3. Len(Unwritten) \in Nat
  BY <1>2, FrameSeq
<1>4. QED BY <1>1, <1>2, <1>3, FrameSeq, CountFacts

LEMMA QueuedFacts ==
    ASSUME TypeOK, NEW f \in OutFrames,
           tx_queue' = Append(tx_queue, f), UNCHANGED <<out, host>>
    PROVE  /\ Stream' = Append(Stream, f)
           /\ \A K : CountKind(Unwritten', K) = CountKind(Unwritten, K) + One(f.kind \in K)
<1>1. /\ Stream' = Line(host, out, Append(tx_queue, f))
      /\ Unwritten' = Rest(out, Append(tx_queue, f))
  BY DEF Stream, Unwritten, Line, Rest
<1>2. /\ out \in OutFrames \cup {NULL} /\ tx_queue \in Seq(OutFrames)
      /\ host \in Seq(OutFrames)
  BY DEF TypeOK
<1>3. Line(host, out, Append(tx_queue, f)) = Append(Line(host, out, tx_queue), f)
  BY <1>2, LineFacts
<1>4. Rest(out, Append(tx_queue, f)) = Append(Rest(out, tx_queue), f)
  <2>1. \A h \in OutFrames : Rest(out, Append(tx_queue, h)) = Append(Rest(out, tx_queue), h)
    BY <1>2, RestFacts
  <2>2. QED BY <2>1
<1>5. Stream' = Append(Stream, f) /\ Unwritten' = Append(Unwritten, f)
  BY <1>1, <1>3, <1>4, StreamType
<1>6. QED BY <1>5, StreamType, CountAppend

LEMMA GetFacts ==
    ASSUME TypeOK, TxGet
    PROVE  Stream' = Stream /\ Unwritten' = Unwritten
<1>1. /\ out = NULL /\ tx_queue # <<>>
      /\ out' = Head(tx_queue) /\ tx_queue' = Tail(tx_queue) /\ host' = host
  BY DEF TxGet
<1>2. /\ Stream' = Line(host, Head(tx_queue), Tail(tx_queue))
      /\ Unwritten' = Rest(Head(tx_queue), Tail(tx_queue))
  BY <1>1 DEF Stream, Unwritten, Line, Rest
<1>3. Stream = Line(host, NULL, tx_queue) /\ Unwritten = Rest(NULL, tx_queue)
  BY <1>1, StreamType
<1>4. QED BY <1>1, <1>2, <1>3, LineFacts, RestFacts DEF TypeOK

LEMMA WriteEndFacts ==
    ASSUME TypeOK, out # NULL, out' = NULL, UNCHANGED tx_queue
    PROVE  /\ out \in OutFrames
           /\ \A K : CountKind(Unwritten, K) = CountKind(Unwritten', K) + One(out.kind \in K)
           /\ host' = Append(host, out) => Stream' = Stream
           /\ host' = host => Part(Stream', Stream)
<1>1. out \in OutFrames /\ tx_queue \in Seq(OutFrames) /\ host \in Seq(OutFrames)
  BY DEF TypeOK
<1>2. Unwritten = <<out>> \o tx_queue /\ Unwritten' = tx_queue
  <2>1. Unwritten' = Rest(NULL, tx_queue)
    BY DEF Unwritten, Rest
  <2>2. QED BY <1>1, <2>1, StreamType, RestFacts
<1>3. \A K : CountKind(Unwritten, K) = CountKind(Unwritten', K) + One(out.kind \in K)
  BY <1>1, <1>2, CountFirst
<1>4. Stream' = Line(host', NULL, tx_queue) /\ Stream = Line(host, out, tx_queue)
  BY DEF Stream, Unwritten, Line, Rest
<1>5. host' = Append(host, out) => Stream' = Stream
  BY <1>1, <1>4, LineFacts
<1>6. host' = host => Part(Stream', Stream)
  BY <1>1, <1>4, LineLosesOne
<1>7. QED BY <1>1, <1>3, <1>5, <1>6

LEMMA SameStream ==
    ASSUME UNCHANGED <<out, tx_queue, host>>
    PROVE  Stream' = Stream /\ Unwritten' = Unwritten
BY DEF Stream, Unwritten

\* A reply of rx_thread, if there is a packet for it.
LEMMA SendFacts ==
    ASSUME TypeOK, PoolsConserved, NEW f \in OutFrames, f.kind # "radio",
           SendData(f), UNCHANGED <<out, host>>
    PROVE  /\ tx_free' \in Nat
           /\ CountKind(Unwritten', {"radio"}) = CountKind(Unwritten, {"radio"})
           /\ tx_free' + CountKind(Unwritten', {"mac", "report"}) = TxPool
           /\ Stream' = Stream \/ Stream' = Append(Stream, f)
           /\ tx_queue' \in Seq(OutFrames)
<1>0. /\ tx_free \in Nat /\ tx_queue \in Seq(OutFrames)
      /\ CountKind(Unwritten, {"mac", "report"}) \in Nat
      /\ CountKind(Unwritten, {"radio"}) \in Nat
  BY StreamType DEF TypeOK
<1>1. tx_free + CountKind(Unwritten, {"mac", "report"}) = TxPool
  BY DEF PoolsConserved
<1>2. CASE tx_free > 0
  <2>1. tx_free' = tx_free - 1 /\ tx_queue' = Append(tx_queue, f)
    BY <1>2 DEF SendData
  <2>2. /\ Stream' = Append(Stream, f)
        /\ CountKind(Unwritten', {"radio"}) = CountKind(Unwritten, {"radio"}) + One(f.kind \in {"radio"})
        /\ CountKind(Unwritten', {"mac", "report"})
              = CountKind(Unwritten, {"mac", "report"}) + One(f.kind \in {"mac", "report"})
    BY <2>1, QueuedFacts
  <2>3. One(f.kind \in {"radio"}) = 0 /\ One(f.kind \in {"mac", "report"}) = 1
    BY DEF One, OutFrames
  <2>4. tx_queue' \in Seq(OutFrames)
    BY <1>0, <2>1, AppendProperties
  <2>5. QED BY <1>0, <1>1, <1>2, <2>1, <2>2, <2>3, <2>4, ConstantFacts
<1>3. CASE ~(tx_free > 0)
  <2>1. UNCHANGED <<tx_free, tx_queue>>
    BY <1>3 DEF SendData
  <2>2. QED BY <1>0, <1>1, <2>1, SameStream
<1>4. QED BY <1>2, <1>3

-----------------------------------------------------------------------------
(* Pools.                                                                  *)

LEMMA NextPools ==
    ASSUME TypeOK, PoolsConserved, [Next]_vars
    PROVE  PoolsConserved' /\ rx_free' \in Nat /\ tx_free' \in Nat
<1> DEFINE radio == CountKind(Unwritten, {"radio"})
           replies == CountKind(Unwritten, {"mac", "report"})
           busy == One(job # NULL)
<1>0. /\ rx_free \in Nat /\ tx_free \in Nat /\ Len(rx_queue) \in Nat
      /\ rx_queue \in Seq(Commands)
      /\ radio \in Nat /\ replies \in Nat /\ busy \in Nat
      /\ RxPool \in Nat /\ TxPool \in Nat
  BY StreamType, LenProperties, ConstantFacts DEF TypeOK, One
<1>1. rx_free + Len(rx_queue) + busy + radio = RxPool /\ tx_free + replies = TxPool
  BY DEF PoolsConserved
<1>2. SUFFICES /\ rx_free' + Len(rx_queue') + busy' + radio' = RxPool
               /\ tx_free' + replies' = TxPool
               /\ rx_free' \in Nat /\ tx_free' \in Nat
  BY DEF PoolsConserved
<1>3. CASE UNCHANGED <<rx_free, tx_free, rx_queue, out, tx_queue, host>> /\ (job' = NULL <=> job = NULL)
  <2>1. radio' = radio /\ replies' = replies
    BY <1>3, SameStream
  <2>2. busy' = busy
    BY <1>3 DEF One
  <2>3. QED BY <1>0, <1>1, <1>3, <2>1, <2>2
<1>4. CASE \E kind \in Kinds, chan \in Channels : Arrive(kind, chan)
  <2>1. UNCHANGED <<tx_free, job, tx_queue, out, host>>
    BY <1>4 DEF Arrive
  <2>2. radio' = radio /\ replies' = replies /\ busy' = busy
    BY <2>1, SameStream DEF One
  <2>3. \/ UNCHANGED <<rx_free, rx_queue>>
        \/ rx_free > 0 /\ rx_free' = rx_free - 1 /\ \E c : rx_queue' = Append(rx_queue, c)
    BY <1>4 DEF Arrive
  <2>4. \A c : Len(Append(rx_queue, c)) = Len(rx_queue) + 1
    BY <1>0
  <2>5. rx_free' \in Nat /\ rx_free' + Len(rx_queue') = rx_free + Len(rx_queue)
    <3>1. CASE UNCHANGED <<rx_free, rx_queue>>
      BY <1>0, <3>1
    <3>2. CASE rx_free > 0 /\ rx_free' = rx_free - 1 /\ \E c : rx_queue' = Append(rx_queue, c)
      <4>1. Len(rx_queue') = Len(rx_queue) + 1
        BY <2>4, <3>2
      <4>2. QED BY <1>0, <3>2, <4>1
    <3>3. QED BY <2>3, <3>1, <3>2
  <2> HIDE DEF radio, replies, busy
  <2>6. QED BY <1>0, <1>1, <2>1, <2>2, <2>3, <2>5
<1>5. CASE RxGet
  <2>1. /\ job = NULL /\ rx_queue # <<>> /\ job' = Head(rx_queue) /\ rx_queue' = Tail(rx_queue)
        /\ UNCHANGED <<rx_free, tx_free, tx_queue, out, host>>
    BY <1>5 DEF RxGet
  <2>2. Head(rx_queue) # NULL /\ Len(rx_queue') = Len(rx_queue) - 1
    BY <1>0, <2>1, HeadTailProperties, ConstantFacts
  <2>3. radio' = radio /\ replies' = replies
    BY <2>1, SameStream
  <2>4. busy = 0 /\ busy' = 1
    BY <2>1, <2>2 DEF One
  <2> HIDE DEF radio, replies, busy
  <2>5. QED BY <1>0, <1>1, <2>1, <2>2, <2>3, <2>4
<1>6. CASE GetIeeeAddr \/ SendPktReport
  <2>1. PICK f : /\ SendData(f) /\ f \in OutFrames /\ f.kind # "radio"
                 /\ UNCHANGED <<rx_free, rx_queue, job, out, host>>
    <3>1. CASE GetIeeeAddr
      <4> DEFINE g == [kind |-> "mac", n |-> job.seq, value |-> IF mac_addr THEN 1 ELSE 0]
      <4>1. SendData(g) /\ UNCHANGED <<rx_free, rx_queue, job, out, host>> /\ job # NULL
        BY <3>1 DEF GetIeeeAddr
      <4>2. job.seq \in 0 .. MaxCommands + MaxRadio
        BY <4>1, ConstantFacts DEF TypeOK, Commands
      <4>3. g \in OutFrames /\ g.kind # "radio"
        BY <4>2 DEF OutFrames
      <4>4. QED BY <4>1, <4>3
    <3>2. CASE SendPktReport
      <4> DEFINE g == [kind |-> "report", n |-> job.seq, value |-> status]
      <4>1. SendData(g) /\ UNCHANGED <<rx_free, rx_queue, job, out, host>> /\ job # NULL
        BY <3>2 DEF SendPktReport
      <4>2. job.seq \in 0 .. MaxCommands + MaxRadio /\ status \in 0 .. 255
        BY <4>1, ConstantFacts DEF TypeOK, Commands
      <4>3. g \in OutFrames /\ g.kind # "radio"
        BY <4>2 DEF OutFrames
      <4>4. QED BY <4>1, <4>3
    <3>3. QED BY <1>6, <3>1, <3>2
  <2>2. radio' = radio /\ tx_free' + replies' = TxPool /\ tx_free' \in Nat
    BY <2>1, SendFacts
  <2>3. busy' = busy
    BY <2>1
  <2> HIDE DEF radio, replies, busy
  <2>4. QED BY <1>0, <1>1, <2>1, <2>2, <2>3
<1>7. CASE RxUnref
  <2>1. /\ job # NULL /\ job' = NULL /\ rx_free' = rx_free + 1
        /\ UNCHANGED <<rx_queue, tx_free, tx_queue, out, host>>
    BY <1>7 DEF RxUnref
  <2>2. radio' = radio /\ replies' = replies
    BY <2>1, SameStream
  <2>3. busy = 1 /\ busy' = 0
    BY <2>1 DEF One
  <2> HIDE DEF radio, replies, busy
  <2>4. QED BY <1>0, <1>1, <2>1, <2>2, <2>3
<1>8. CASE NetRecvData
  <2> DEFINE f == [kind |-> "radio", n |-> arrived', value |-> 0]
  <2>1. /\ rx_free > 0 /\ rx_free' = rx_free - 1 /\ tx_queue' = Append(tx_queue, f)
        /\ UNCHANGED <<rx_queue, job, tx_free, out, host>>
    BY <1>8 DEF NetRecvData, rxside
  <2>2. f \in OutFrames
    BY <1>8, ConstantFacts DEF NetRecvData, TypeOK, OutFrames
  <2>3. One(f.kind \in {"radio"}) = 1 /\ One(f.kind \in {"mac", "report"}) = 0
    BY DEF One
  <2> HIDE DEF f
  <2>31. \A K : CountKind(Unwritten', K) = CountKind(Unwritten, K) + One(f.kind \in K)
    BY <2>1, <2>2, QueuedFacts
  <2>32. radio' = radio + One(f.kind \in {"radio"})
    BY <2>31
  <2>33. replies' = replies + One(f.kind \in {"mac", "report"})
    BY <2>31
  <2> HIDE DEF radio, replies
  <2>4. radio' = radio + 1 /\ replies' = replies
    BY <1>0, <2>3, <2>32, <2>33
  <2>5. busy' = busy
    BY <2>1
  <2> HIDE DEF radio, replies, busy
  <2>6. QED BY <1>0, <1>1, <2>1, <2>4, <2>5
<1>9. CASE TxGet
  <2>1. radio' = radio /\ replies' = replies
    BY <1>9, GetFacts
  <2>2. UNCHANGED <<rx_free, tx_free, rx_queue, job>>
    BY <1>9 DEF TxGet, rxside
  <2>3. QED BY <1>0, <1>1, <2>1, <2>2
<1>10. CASE TxWritten \/ TxTimeout
  <2>1. /\ out # NULL /\ out' = NULL /\ Unref(out) /\ UNCHANGED <<tx_queue, rx_queue, job>>
    BY <1>10 DEF TxWritten, TxTimeout, rxside
  <2>2. /\ out \in OutFrames /\ radio = radio' + One(out.kind \in {"radio"})
        /\ replies = replies' + One(out.kind \in {"mac", "report"})
    BY <2>1, WriteEndFacts
  <2>3. busy' = busy
    BY <2>1
  <2>4. radio' \in Nat /\ replies' \in Nat
    <3>1. Unwritten' = tx_queue
      <4>1. Unwritten' = Rest(NULL, tx_queue)
        BY <2>1 DEF Unwritten, Rest
      <4>2. QED BY <4>1, RestFacts DEF TypeOK
    <3>2. Len(tx_queue) \in Nat
      BY LenProperties DEF TypeOK
    <3>3. QED BY <3>1, <3>2, CountFacts
  <2> HIDE DEF radio, replies, busy
  <2>5. CASE out.kind = "radio"
    <3>1. rx_free' = rx_free + 1 /\ tx_free' = tx_free
      BY <2>1, <2>5 DEF Unref
    <3>2. One(out.kind \in {"radio"}) = 1 /\ One(out.kind \in {"mac", "report"}) = 0
      BY <2>5 DEF One
    <3>3. radio = radio' + 1 /\ replies = replies' + 0
      BY <2>2, <3>2
    <3>4. UNCHANGED rx_queue
      BY <2>1
    <3>5. rx_free' \in Nat /\ tx_free' \in Nat
      BY <1>0, <3>1
    <3>6. tx_free + replies = TxPool
      BY <1>1
    <3>7. tx_free \in Nat /\ replies \in Nat /\ replies' \in Nat
      BY <1>0, <2>4
    <3>8. tx_free' + replies' = tx_free + replies
      BY <3>1, <3>3, <3>7
    <3>9. tx_free' + replies' = TxPool
      BY <3>6, <3>8
    <3>10. rx_free' + Len(rx_queue') + busy' + radio' = RxPool
      BY <1>0, <1>1, <2>3, <2>4, <3>1, <3>3, <3>4
    <3>11. QED BY <3>5, <3>9, <3>10
  <2>6. CASE out.kind # "radio"
    <3>1. tx_free' = tx_free + 1 /\ rx_free' = rx_free
      BY <2>1, <2>6 DEF Unref
    <3>2. One(out.kind \in {"radio"}) = 0 /\ One(out.kind \in {"mac", "report"}) = 1
      BY <2>2, <2>6 DEF One, OutFrames
    <3>3. radio = radio' + 0 /\ replies = replies' + 1
      BY <2>2, <3>2
    <3>4. UNCHANGED rx_queue
      BY <2>1
    <3>5. rx_free' \in Nat /\ tx_free' \in Nat
      BY <1>0, <3>1
    <3>6. tx_free + replies = TxPool
      BY <1>1
    <3>7. tx_free \in Nat /\ replies \in Nat /\ replies' \in Nat
      BY <1>0, <2>4
    <3>8. tx_free' + replies' = tx_free + replies
      BY <3>1, <3>3, <3>7
    <3>9. tx_free' + replies' = TxPool
      BY <3>6, <3>8
    <3>10. rx_free' + Len(rx_queue') + busy' + radio' = RxPool
      BY <1>0, <1>1, <2>3, <2>4, <3>1, <3>3, <3>4
    <3>11. QED BY <3>5, <3>9, <3>10
  <2>7. QED BY <2>5, <2>6
<1>11. CASE InitRadio \/ InitRadioFails \/ CallbackSet \/ RxEnable
  BY <1>3, <1>11 DEF InitRadio, InitRadioFails, CallbackSet, RxEnable, BootStep, rxside
<1>12. CASE ParseJunk \/ ProcessData \/ SetChannel
  <2>1. UNCHANGED <<rx_free, tx_free, rx_queue, out, tx_queue, host>> /\ job # NULL
    BY <1>12 DEF ParseJunk, ProcessData, SetChannel
  <2>2. job' # NULL
    <3>1. CASE job' = job
      BY <2>1, <3>1
    <3>2. CASE \E k \in Kinds, c \in Channels : job' = [job EXCEPT !.kind = k, !.chan = c]
      <4>1. \A k \in Kinds, c \in Channels : [job EXCEPT !.kind = k, !.chan = c] \in Commands
        BY <2>1 DEF TypeOK, Commands
      <4>2. QED BY <3>2, <4>1, ConstantFacts
    <3>3. QED BY <1>12, <3>1, <3>2 DEF ParseJunk, ProcessData, SetChannel
  <2>3. QED BY <1>3, <2>1, <2>2
<1>13. CASE UNCHANGED vars
  BY <1>3, <1>13 DEF vars
<1>14. QED
  BY <1>4, <1>5, <1>6, <1>7, <1>8, <1>9, <1>10, <1>11, <1>12, <1>13 DEF Next, RxThread

-----------------------------------------------------------------------------
(* Types.                                                                  *)

LEMMA CommandFacts ==
    ASSUME TypeOK
    PROVE  /\ Len(accepted) \in Nat /\ Len(rx_queue) \in Nat /\ Len(air) \in Nat
           /\ issued \in Nat /\ arrived \in Nat
           /\ \A i \in 1 .. Len(accepted) : accepted[i] \in Commands /\ accepted[i].seq \in Nat
           /\ \A i \in 1 .. Len(rx_queue) : rx_queue[i] \in Commands
           /\ \A k \in 1 .. Len(air) : air[k][1] \in Nat /\ air[k][2] \in Channels
           /\ job # NULL => job \in Commands /\ job.seq \in Nat
<1>1. /\ accepted \in Seq(Commands) /\ rx_queue \in Seq(Commands)
      /\ air \in Seq((0 .. MaxCommands) \X Channels)
      /\ issued \in Nat /\ arrived \in Nat
      /\ job # NULL => job \in Commands
  BY DEF TypeOK
<1>2. Len(accepted) \in Nat /\ Len(rx_queue) \in Nat /\ Len(air) \in Nat
  BY <1>1, LenProperties
<1>3. \A c \in Commands : c.seq \in Nat
  BY DEF Commands
<1>4. \A i \in 1 .. Len(accepted) : accepted[i] \in Commands
  BY <1>1, ElementOfSeq
<1>5. \A i \in 1 .. Len(rx_queue) : rx_queue[i] \in Commands
  BY <1>1, ElementOfSeq
<1>6. \A k \in 1 .. Len(air) : air[k][1] \in Nat /\ air[k][2] \in Channels
  <2>1. \A k \in 1 .. Len(air) : air[k] \in (0 .. MaxCommands) \X Channels
    BY <1>1, ElementOfSeq
  <2>2. QED BY <2>1
<1>7. QED BY <1>1, <1>2, <1>3, <1>4, <1>5, <1>6

\* A command is refused, or put into rx_queue.
LEMMA ArriveFacts ==
    ASSUME TypeOK, NEW kind \in Kinds, NEW chan \in Channels, Arrive(kind, chan)
    PROVE  /\ issued' = issued + 1 /\ issued' \in 1 .. MaxCommands /\ boot = "ready"
           /\ UNCHANGED <<boot, mac_addr, channel, arrived, job, step, status, tx_queue, out,
                          air, host>>
           /\ \/ UNCHANGED <<rx_queue, accepted>>
              \/ \E c \in Commands :
                    /\ rx_queue' = Append(rx_queue, c) /\ accepted' = Append(accepted, c)
                    /\ c.seq = IF c.kind = "junk" THEN 0 ELSE issued + 1
<1> DEFINE d == [kind |-> kind, seq |-> IF kind = "junk" THEN 0 ELSE issued + 1, chan |-> chan]
<1>1. /\ issued' = issued + 1 /\ boot = "ready" /\ issued < MaxCommands
      /\ UNCHANGED <<boot, mac_addr, channel, arrived, job, step, status, tx_queue, out,
                     air, host>>
      /\ \/ UNCHANGED <<rx_queue, accepted>>
         \/ rx_queue' = Append(rx_queue, d) /\ accepted' = Append(accepted, d)
  BY DEF Arrive
<1>2. issued' \in 1 .. MaxCommands
  BY <1>1, ConstantFacts DEF TypeOK
<1>3. d \in Commands
  BY <1>1, <1>2, ConstantFacts DEF Commands, Kinds
<1>4. d.seq = IF d.kind = "junk" THEN 0 ELSE issued + 1
  OBVIOUS
<1> HIDE DEF d
<1>5. QED BY <1>1, <1>2, <1>3, <1>4

LEMMA JunkFacts ==
    ASSUME TypeOK, ParseJunk
    PROVE  /\ job # NULL /\ step = "parse" /\ job.kind = "junk"
           /\ job' \in Commands /\ job' # NULL /\ job'.seq = job.seq
           /\ step' = "parse" \/ (step' = "unref" /\ job' = job)
<1>1. job \in Commands /\ job # NULL /\ step = "parse" /\ job.kind = "junk"
  BY DEF TypeOK, ParseJunk
<1>2. CASE job' = job /\ step' = "unref"
  BY <1>1, <1>2
<1>3. ASSUME NEW k \in Kinds, NEW c \in Channels,
             job' = [job EXCEPT !.kind = k, !.chan = c], step' = step
      PROVE  job' \in Commands /\ job'.seq = job.seq
  BY <1>1, <1>3 DEF Commands
<1>4. QED BY <1>1, <1>2, <1>3, ConstantFacts DEF ParseJunk

\* The types, but for the bounds of the pools.
Typed ==
    /\ boot \in {"init", "failed", "radio", "callback", "ready"}
    /\ mac_addr \in BOOLEAN
    /\ channel \in Channels
    /\ issued \in 0 .. MaxCommands /\ arrived \in 0 .. MaxRadio
    /\ rx_queue \in Seq(Commands) /\ accepted \in Seq(Commands)
    /\ job \in Commands \cup {NULL}
    /\ step \in {"parse", "report", "unref"}
    /\ status \in 0 .. 255
    /\ tx_queue \in Seq(OutFrames) /\ host \in Seq(OutFrames)
    /\ out \in OutFrames \cup {NULL}
    /\ air \in Seq((0 .. MaxCommands) \X Channels)

LEMMA ReplyFacts ==
    ASSUME TypeOK, GetIeeeAddr \/ SendPktReport
    PROVE  \E f \in OutFrames :
              /\ SendData(f) /\ f.n = job.seq
              /\ \/ f.kind = "mac" /\ step = "parse" /\ job.kind = "M"
                    /\ f.value = (IF mac_addr THEN 1 ELSE 0)
                 \/ f.kind = "report" /\ step = "report" /\ f.value = status
              /\ job # NULL /\ step' = "unref"
              /\ UNCHANGED <<boot, mac_addr, channel, issued, arrived, rx_free, rx_queue, job,
                             status, out, air, host, accepted>>
<1>1. job # NULL /\ job \in Commands
  BY DEF TypeOK, GetIeeeAddr, SendPktReport
<1>2. job.seq \in 0 .. MaxCommands + MaxRadio /\ status \in 0 .. 255
  BY <1>1, ConstantFacts DEF TypeOK, Commands
<1>3. CASE GetIeeeAddr
  <2> DEFINE g == [kind |-> "mac", n |-> job.seq, value |-> IF mac_addr THEN 1 ELSE 0]
  <2>1. g \in OutFrames /\ g.n = job.seq /\ g.kind = "mac"
        /\ g.value = (IF mac_addr THEN 1 ELSE 0)
    BY <1>2 DEF OutFrames
  <2>2. /\ SendData(g) /\ step' = "unref" /\ step = "parse" /\ job.kind = "M"
        /\ UNCHANGED <<boot, mac_addr, channel, issued, arrived, rx_free, rx_queue, job,
                       status, out, air, host, accepted>>
    BY <1>3 DEF GetIeeeAddr
  <2> HIDE DEF g
  <2>3. QED BY <1>1, <2>1, <2>2
<1>4. CASE SendPktReport
  <2> DEFINE g == [kind |-> "report", n |-> job.seq, value |-> status]
  <2>1. g \in OutFrames /\ g.n = job.seq /\ g.kind = "report" /\ g.value = status
    BY <1>2 DEF OutFrames
  <2>2. /\ SendData(g) /\ step' = "unref" /\ step = "report"
        /\ UNCHANGED <<boot, mac_addr, channel, issued, arrived, rx_free, rx_queue, job,
                       status, out, air, host, accepted>>
    BY <1>4 DEF SendPktReport
  <2> HIDE DEF g
  <2>3. QED BY <1>1, <2>1, <2>2
<1>5. QED BY <1>3, <1>4

LEMMA NextSorts ==
    ASSUME TypeOK, PoolsConserved, [Next]_vars
    PROVE  Typed'
<1> USE DEF TypeOK, Typed
<1>1. CASE InitRadio \/ InitRadioFails \/ CallbackSet \/ RxEnable
  <2>1. /\ boot' \in {"radio", "failed", "callback", "ready"}
        /\ UNCHANGED <<issued, arrived, rxside, tx_queue, out, host>>
    BY <1>1 DEF InitRadio, InitRadioFails, CallbackSet, RxEnable, BootStep
  <2>2. mac_addr' = mac_addr \/ mac_addr' = TRUE
    BY <1>1 DEF InitRadio, InitRadioFails, CallbackSet, RxEnable
  <2>3. mac_addr' \in BOOLEAN
    BY <2>2, Zenon
  <2>4. QED BY <2>1, <2>3 DEF rxside
<1>2. CASE \E kind \in Kinds, chan \in Channels : Arrive(kind, chan)
  <2>1. /\ issued' \in 0 .. MaxCommands
        /\ UNCHANGED <<boot, mac_addr, channel, arrived, job, step, status, tx_queue, out,
                       air, host>>
        /\ \/ UNCHANGED <<rx_queue, accepted>>
           \/ \E c \in Commands : rx_queue' = Append(rx_queue, c) /\ accepted' = Append(accepted, c)
    BY <1>2, ArriveFacts, SMTT(30)
  <2>2. \A c \in Commands : Append(rx_queue, c) \in Seq(Commands)
                         /\ Append(accepted, c) \in Seq(Commands)
    BY AppendProperties
  <2>3. rx_queue' \in Seq(Commands) /\ accepted' \in Seq(Commands)
    BY <2>1, <2>2
  <2>4. QED BY <2>1, <2>3
<1>3. CASE RxGet
  <2>1. rx_queue # <<>> /\ Head(rx_queue) \in Commands /\ Tail(rx_queue) \in Seq(Commands)
    BY <1>3, HeadTailProperties DEF RxGet
  <2>2. /\ job' = Head(rx_queue) /\ rx_queue' = Tail(rx_queue) /\ step' = "parse"
        /\ UNCHANGED <<boot, mac_addr, channel, issued, arrived, rx_free, tx_free, status,
                       tx_queue, out, air, host, accepted>>
    BY <1>3 DEF RxGet
  <2>3. QED BY <2>1, <2>2
<1>4. CASE ParseJunk
  <2>1. job' \in Commands /\ step' \in {"parse", "unref"}
    BY <1>4, JunkFacts
  <2>2. UNCHANGED <<boot, mac_addr, channel, issued, arrived, rx_queue, status, tx_queue, out,
                    air, host, accepted>>
    BY <1>4 DEF ParseJunk
  <2>3. QED BY <2>1, <2>2
<1>5. CASE GetIeeeAddr \/ SendPktReport
  <2>1. PICK f \in OutFrames :
              /\ SendData(f) /\ step' = "unref"
              /\ UNCHANGED <<boot, mac_addr, channel, issued, arrived, rx_free, rx_queue, job,
                             status, out, air, host, accepted>>
    BY <1>5, ReplyFacts
  <2>2. tx_queue' = tx_queue \/ tx_queue' = Append(tx_queue, f)
    BY <2>1 DEF SendData
  <2>3. tx_queue' \in Seq(OutFrames)
    <3>1. Append(tx_queue, f) \in Seq(OutFrames)
      BY AppendProperties
    <3>2. QED BY <2>2, <3>1
  <2>4. UNCHANGED <<boot, mac_addr, channel, issued, arrived, rx_queue, job, status, out, air,
                    host, accepted>> /\ step' = "unref"
    BY <2>1
  <2>5. QED BY <2>3, <2>4
<1>6. CASE ProcessData
  <2>1. /\ job \in Commands /\ step' = "report"
        /\ UNCHANGED <<boot, mac_addr, channel, issued, arrived, rx_queue, job, tx_queue, out,
                       host, accepted>>
        /\ \/ status' = 0 /\ air' = Append(air, <<job.seq, channel>>)
           \/ \E e \in RadioErrors : status' = 256 - e /\ air' = air
    BY <1>6 DEF ProcessData
  <2>2. <<job.seq, channel>> \in (0 .. MaxCommands) \X Channels
    BY <2>1 DEF Commands
  <2>3. air' \in Seq((0 .. MaxCommands) \X Channels)
    <3>1. Append(air, <<job.seq, channel>>) \in Seq((0 .. MaxCommands) \X Channels)
      BY <2>2, AppendProperties
    <3>2. QED BY <2>1, <3>1
  <2>4. status' \in 0 .. 255
    BY <2>1 DEF RadioErrors
  <2>5. QED BY <2>1, <2>3, <2>4
<1>7. CASE SetChannel
  <2>1. /\ job \in Commands /\ step' = "unref" /\ channel' = job.chan
        /\ UNCHANGED <<boot, mac_addr, issued, arrived, rx_queue, job, status, tx_queue, out,
                       air, host, accepted>>
    BY <1>7 DEF SetChannel
  <2>2. channel' \in Channels
    BY <2>1 DEF Commands
  <2>3. QED BY <2>1, <2>2
<1>8. CASE RxUnref
  BY <1>8 DEF RxUnref
<1>9. CASE NetRecvData
  <2> DEFINE f == [kind |-> "radio", n |-> arrived', value |-> 0]
  <2>1. /\ arrived' = arrived + 1 /\ arrived < MaxRadio /\ tx_queue' = Append(tx_queue, f)
        /\ UNCHANGED <<boot, mac_addr, issued, rxside, out, host>>
    BY <1>9 DEF NetRecvData
  <2>2. arrived' \in 0 .. MaxRadio /\ f \in OutFrames
    BY <2>1, ConstantFacts DEF OutFrames
  <2>3. tx_queue' \in Seq(OutFrames)
    BY <2>1, <2>2, AppendProperties
  <2>4. QED BY <2>1, <2>2, <2>3 DEF rxside
<1>10. CASE TxGet
  <2>1. tx_queue # <<>> /\ Head(tx_queue) \in OutFrames /\ Tail(tx_queue) \in Seq(OutFrames)
    BY <1>10, HeadTailProperties DEF TxGet
  <2>2. QED BY <1>10, <2>1 DEF TxGet, rxside
<1>11. CASE TxWritten \/ TxTimeout
  <2>1. /\ out # NULL /\ out' = NULL /\ UNCHANGED <<boot, mac_addr, issued, arrived, rxside, tx_queue>>
        /\ host' = host \/ host' = Append(host, out)
    BY <1>11 DEF TxWritten, TxTimeout
  <2>2. host' \in Seq(OutFrames)
    <3>1. Append(host, out) \in Seq(OutFrames)
      BY <2>1, AppendProperties
    <3>2. QED BY <2>1, <3>1
  <2>3. QED BY <2>1, <2>2 DEF rxside
<1>12. CASE UNCHANGED vars
  BY <1>12 DEF vars
<1>13. QED
  BY <1>1, <1>2, <1>3, <1>4, <1>5, <1>6, <1>7, <1>8, <1>9, <1>10, <1>11, <1>12 DEF Next, RxThread

LEMMA NextTyped ==
    ASSUME TypeOK, PoolsConserved, [Next]_vars
    PROVE  TypeOK' /\ PoolsConserved'
<1>1. PoolsConserved' /\ rx_free' \in Nat /\ tx_free' \in Nat
  BY NextPools
<1>2. Typed'
  BY NextSorts
<1>3. Len(rx_queue') \in Nat
  BY <1>2, LenProperties DEF Typed
<1>4. Len(Unwritten') \in Nat
  <2>1. Unwritten' = Rest(out', tx_queue')
    BY DEF Unwritten, Rest
  <2>2. Unwritten' \in Seq(OutFrames)
    BY <1>2, <2>1, RestFacts DEF Typed
  <2>3. QED BY <2>2, FrameSeq
<1>5. /\ CountKind(Unwritten', {"radio"}) \in Nat
      /\ CountKind(Unwritten', {"mac", "report"}) \in Nat
  BY <1>4, CountFacts
<1>6. One(job' # NULL) \in Nat
  BY DEF One
<1>7. /\ rx_free' + Len(rx_queue') + One(job' # NULL) + CountKind(Unwritten', {"radio"}) = RxPool
      /\ tx_free' + CountKind(Unwritten', {"mac", "report"}) = TxPool
  BY <1>1 DEF PoolsConserved
<1>8. rx_free' \in 0 .. RxPool /\ tx_free' \in 0 .. TxPool
  BY <1>1, <1>3, <1>5, <1>6, <1>7, ConstantFacts
<1>9. QED BY <1>1, <1>2, <1>8 DEF Typed, TypeOK

-----------------------------------------------------------------------------
(* The commands and their order.                                           *)

LEMMA NextBooted ==
    ASSUME TypeOK, Booted, [Next]_vars
    PROVE  Booted'
<1> USE DEF Booted
<1>1. CASE UNCHANGED <<boot, mac_addr, accepted>>
  BY <1>1
<1>2. CASE InitRadio
  BY <1>2 DEF InitRadio, BootStep, rxside
<1>3. CASE InitRadioFails
  BY <1>3 DEF InitRadioFails, BootStep, rxside
<1>4. CASE CallbackSet
  BY <1>4 DEF CallbackSet, BootStep, rxside
<1>5. CASE RxEnable
  BY <1>5 DEF RxEnable, BootStep, rxside
<1>6. CASE \E kind \in Kinds, chan \in Channels : Arrive(kind, chan)
  <2>1. boot = "ready" /\ UNCHANGED <<boot, mac_addr>>
    BY <1>6, ArriveFacts
  <2>2. QED BY <2>1
<1>7. CASE RxThread \/ NetRecvData \/ TxGet \/ TxWritten \/ TxTimeout \/ UNCHANGED vars
  BY <1>1, <1>7 DEF RxThread, RxGet, ParseJunk, GetIeeeAddr, ProcessData, SendPktReport,
                    SetChannel, RxUnref, NetRecvData, TxGet, TxWritten, TxTimeout, rxside, vars
<1>8. QED BY <1>2, <1>3, <1>4, <1>5, <1>6, <1>7 DEF Next

\* All steps but the arrival of a command.
LEMMA OtherSteps ==
    ASSUME [Next]_vars
    PROVE  \/ \E kind \in Kinds, chan \in Channels : Arrive(kind, chan)
           \/ UNCHANGED <<accepted, issued>>
BY DEF Next, InitRadio, InitRadioFails, CallbackSet, RxEnable, BootStep, RxThread, RxGet,
       ParseJunk, GetIeeeAddr, ProcessData, SendPktReport, SetChannel, RxUnref, NetRecvData,
       TxGet, TxWritten, TxTimeout, rxside, vars

LEMMA AppendAt ==
    ASSUME NEW S, NEW s \in Seq(S), NEW e \in S
    PROVE  /\ Append(s, e) \in Seq(S) /\ Len(s) \in Nat /\ Len(Append(s, e)) = Len(s) + 1
           /\ \A i \in 1 .. Len(s) : Append(s, e)[i] = s[i]
           /\ Append(s, e)[Len(s) + 1] = e
BY AppendProperties, LenProperties

\* A command that is accepted comes last, with a number above all others.
LEMMA AcceptFacts ==
    ASSUME TypeOK, NEW kind \in Kinds, NEW chan \in Channels, Arrive(kind, chan),
           ~UNCHANGED <<rx_queue, accepted>>
    PROVE  /\ Len(accepted') = Len(accepted) + 1 /\ Len(rx_queue') = Len(rx_queue) + 1
           /\ \A i \in 1 .. Len(accepted) : accepted'[i] = accepted[i]
           /\ \A i \in 1 .. Len(rx_queue) : rx_queue'[i] = rx_queue[i]
           /\ rx_queue'[Len(rx_queue) + 1] = accepted'[Len(accepted) + 1]
           /\ accepted'[Len(accepted) + 1].seq =
                 IF accepted'[Len(accepted) + 1].kind = "junk" THEN 0 ELSE issued + 1
<1>1. accepted \in Seq(Commands) /\ rx_queue \in Seq(Commands)
  BY DEF TypeOK
<1>2. PICK c \in Commands :
              /\ rx_queue' = Append(rx_queue, c) /\ accepted' = Append(accepted, c)
              /\ c.seq = IF c.kind = "junk" THEN 0 ELSE issued + 1
  BY ArriveFacts
<1>3. /\ Len(accepted') = Len(accepted) + 1
      /\ \A i \in 1 .. Len(accepted) : accepted'[i] = accepted[i]
      /\ accepted'[Len(accepted) + 1] = c
  BY <1>1, <1>2, AppendAt
<1>4. /\ Len(rx_queue') = Len(rx_queue) + 1
      /\ \A i \in 1 .. Len(rx_queue) : rx_queue'[i] = rx_queue[i]
      /\ rx_queue'[Len(rx_queue) + 1] = c
  BY <1>1, <1>2, AppendAt
<1>5. QED BY <1>2, <1>3, <1>4

LEMMA NextNumbered ==
    ASSUME TypeOK, Numbered, [Next]_vars
    PROVE  Numbered'
<1>1. CASE UNCHANGED <<accepted, issued>>
  BY <1>1 DEF Numbered
<1>2. ASSUME NEW kind \in Kinds, NEW chan \in Channels, Arrive(kind, chan) PROVE Numbered'
  <2> DEFINE n == Len(accepted)
  <2>0. n \in Nat /\ issued \in Nat /\ issued' = issued + 1
        /\ \A i \in 1 .. n : accepted[i].seq \in Nat
    BY <1>2, CommandFacts, ArriveFacts
  <2>1. CASE UNCHANGED accepted
    BY <2>0, <2>1 DEF Numbered
  <2>2. CASE ~UNCHANGED accepted
    <3>1. /\ Len(accepted') = n + 1
          /\ \A i \in 1 .. n : accepted'[i] = accepted[i]
          /\ accepted'[n + 1].seq = IF accepted'[n + 1].kind = "junk" THEN 0 ELSE issued + 1
      BY <1>2, <2>2, AcceptFacts
    <3> HIDE DEF n
    <3>2. \A i \in 1 .. n : /\ accepted[i].seq <= issued
                            /\ accepted[i].seq = 0 <=> accepted[i].kind = "junk"
      BY DEF Numbered, n
    <3>3. \A i, j \in 1 .. n :
             i < j /\ accepted[j].kind # "junk" => accepted[i].seq < accepted[j].seq
      BY DEF Numbered, n
    <3>4. ASSUME NEW i \in 1 .. Len(accepted')
          PROVE  /\ accepted'[i].seq <= issued'
                 /\ accepted'[i].seq = 0 <=> accepted'[i].kind = "junk"
      <4>1. CASE i \in 1 .. n
        BY <2>0, <3>1, <3>2, <4>1 DEF n
      <4>2. CASE i = n + 1
        BY <2>0, <3>1, <4>2
      <4>3. QED BY <2>0, <3>1, <4>1, <4>2
    <3>5. ASSUME NEW i \in 1 .. Len(accepted'), NEW j \in 1 .. Len(accepted'),
                 i < j, accepted'[j].kind # "junk"
          PROVE  accepted'[i].seq < accepted'[j].seq
      <4>1. i \in 1 .. n /\ accepted'[i] = accepted[i] /\ accepted[i].seq <= issued
            /\ accepted[i].seq \in Nat
        BY <2>0, <3>1, <3>2, <3>5 DEF n
      <4>2. CASE j \in 1 .. n
        BY <3>1, <3>3, <3>5, <4>1, <4>2
      <4>3. CASE j = n + 1
        BY <2>0, <3>1, <3>5, <4>1, <4>3
      <4>4. QED BY <2>0, <3>1, <4>2, <4>3
    <3>6. QED BY <3>4, <3>5 DEF Numbered
  <2>3. QED BY <2>1, <2>2
<1>3. QED BY <1>1, <1>2, OtherSteps

LEMMA QueueFacts ==
    ASSUME TypeOK, Queued
    PROVE  /\ Taken \in Nat /\ Applied \in Nat /\ Replied \in Nat
           /\ Len(accepted) \in Nat /\ Len(rx_queue) \in Nat
           /\ Taken + Len(rx_queue) = Len(accepted)
           /\ Replied <= Applied /\ Applied <= Taken
           /\ job # NULL => Taken \in 1 .. Len(accepted)
           /\ job # NULL /\ step = "parse" => Applied = Taken - 1 /\ Replied = Taken - 1
           /\ job # NULL /\ step = "report" => Applied = Taken /\ Replied = Taken - 1
           /\ job # NULL /\ step = "unref" => Applied = Taken /\ Replied = Taken
           /\ job = NULL => Applied = Taken /\ Replied = Taken
<1>1. Len(accepted) \in Nat /\ Len(rx_queue) \in Nat
  BY CommandFacts
<1>2. Len(rx_queue) + One(job # NULL) <= Len(accepted)
  BY DEF Queued
<1>3. CASE job = NULL
  <2>1. One(job # NULL) = 0
    BY <1>3 DEF One
  <2>2. QED BY <1>1, <1>2, <1>3, <2>1 DEF Taken, Applied, Replied
<1>4. CASE job # NULL
  <2>1. One(job # NULL) = 1
    BY <1>4 DEF One
  <2>2. Taken \in 1 .. Len(accepted) /\ Taken \in Nat \ {0} /\ Taken + Len(rx_queue) = Len(accepted)
    BY <1>1, <1>2, <2>1 DEF Taken
  <2>3. step \in {"parse", "report", "unref"}
    BY DEF TypeOK
  <2>4. QED BY <1>1, <1>4, <2>2, <2>3 DEF Applied, Replied
<1>5. QED BY <1>3, <1>4

LEMMA NextQueued ==
    ASSUME TypeOK, Numbered, Queued, [Next]_vars
    PROVE  Queued'
<1>0. /\ Taken \in Nat /\ Len(accepted) \in Nat /\ Len(rx_queue) \in Nat
      /\ Taken + Len(rx_queue) = Len(accepted)
      /\ job # NULL => Taken \in 1 .. Len(accepted)
  BY QueueFacts
<1>1. /\ Len(rx_queue) + One(job # NULL) <= Len(accepted)
      /\ \A i \in 1 .. Len(rx_queue) : rx_queue[i] = accepted[Taken + i]
      /\ job # NULL =>
            /\ job.seq = accepted[Taken].seq
            /\ accepted[Taken].kind # "junk" => job = accepted[Taken]
  BY DEF Queued
<1>2. CASE UNCHANGED <<accepted, rx_queue, job>>
  BY <1>2 DEF Queued, Taken
<1>3. ASSUME NEW kind \in Kinds, NEW chan \in Channels, Arrive(kind, chan) PROVE Queued'
  <2>1. job' = job
    BY <1>3, ArriveFacts
  <2>2. CASE UNCHANGED <<rx_queue, accepted>>
    BY <1>2, <2>1, <2>2
  <2>3. CASE ~UNCHANGED <<rx_queue, accepted>>
    <3>1. /\ Len(accepted') = Len(accepted) + 1 /\ Len(rx_queue') = Len(rx_queue) + 1
          /\ \A i \in 1 .. Len(accepted) : accepted'[i] = accepted[i]
          /\ \A i \in 1 .. Len(rx_queue) : rx_queue'[i] = rx_queue[i]
          /\ rx_queue'[Len(rx_queue) + 1] = accepted'[Len(accepted) + 1]
      BY <1>3, <2>3, AcceptFacts
    <3>2. Taken' = Taken
      BY <1>0, <3>1 DEF Taken
    <3>3. Len(rx_queue') + One(job' # NULL) <= Len(accepted')
      <4>1. One(job' # NULL) = One(job # NULL) /\ One(job # NULL) \in Nat
        BY <2>1 DEF One
      <4>2. QED BY <1>0, <1>1, <3>1, <4>1
    <3>4. ASSUME NEW i \in 1 .. Len(rx_queue')
          PROVE  rx_queue'[i] = accepted'[Taken' + i]
      <4>1. CASE i \in 1 .. Len(rx_queue)
        <5>1. Taken + i \in 1 .. Len(accepted)
          BY <1>0, <4>1
        <5>2. QED BY <1>1, <3>1, <3>2, <4>1, <5>1
      <4>2. CASE i = Len(rx_queue) + 1
        <5>1. Taken + i = Len(accepted) + 1
          BY <1>0, <4>2
        <5>2. QED BY <3>1, <3>2, <4>2, <5>1
      <4>3. QED BY <1>0, <3>1, <4>1, <4>2
    <3>5. job' # NULL =>
             /\ job'.seq = accepted'[Taken'].seq
             /\ accepted'[Taken'].kind # "junk" => job' = accepted'[Taken']
      BY <1>0, <1>1, <2>1, <3>1, <3>2
    <3>6. QED BY <3>3, <3>4, <3>5 DEF Queued
  <2>4. QED BY <2>2, <2>3
<1>4. CASE RxGet
  <2>1. /\ job = NULL /\ rx_queue # <<>> /\ job' = Head(rx_queue) /\ rx_queue' = Tail(rx_queue)
        /\ accepted' = accepted
    BY <1>4 DEF RxGet
  <2>2. /\ Len(rx_queue') = Len(rx_queue) - 1 /\ Len(rx_queue) \in Nat \ {0}
        /\ \A i \in 1 .. Len(rx_queue') : rx_queue'[i] = rx_queue[i + 1]
        /\ Head(rx_queue) = rx_queue[1]
    BY <1>0, <2>1, HeadTailProperties, EmptySeq DEF TypeOK
  <2>3. Taken' = Taken + 1
    BY <1>0, <2>1, <2>2 DEF Taken
  <2>4. Len(rx_queue') + One(job' # NULL) <= Len(accepted')
    <3>1. One(job' # NULL) \in {0, 1}
      BY DEF One
    <3>2. QED BY <1>0, <2>1, <2>2, <3>1
  <2>5. ASSUME NEW i \in 1 .. Len(rx_queue') PROVE rx_queue'[i] = accepted'[Taken' + i]
    <3>1. i + 1 \in 1 .. Len(rx_queue) /\ Taken + (i + 1) = Taken' + i
      BY <1>0, <2>2, <2>3
    <3>2. rx_queue[i + 1] = accepted[Taken + (i + 1)]
      BY <1>1, <3>1
    <3>3. QED BY <2>1, <2>2, <3>1, <3>2
  <2>6. job' = accepted'[Taken']
    <3>1. 1 \in 1 .. Len(rx_queue)
      BY <2>2
    <3>2. QED BY <1>1, <2>1, <2>2, <2>3, <3>1
  <2>7. QED BY <2>4, <2>5, <2>6 DEF Queued
<1>5. CASE ParseJunk
  <2>1. /\ job # NULL /\ job.kind = "junk" /\ job' # NULL /\ job'.seq = job.seq
    BY <1>5, JunkFacts
  <2>2. UNCHANGED <<accepted, rx_queue>>
    BY <1>5 DEF ParseJunk
  <2>3. accepted[Taken].kind = "junk"
    BY <1>1, <2>1
  <2>4. Taken' = Taken
    BY <2>2 DEF Taken
  <2>5. One(job' # NULL) = One(job # NULL)
    BY <2>1
  <2>6. /\ Len(rx_queue') + One(job' # NULL) <= Len(accepted')
        /\ \A i \in 1 .. Len(rx_queue') : rx_queue'[i] = accepted'[Taken' + i]
    BY <1>1, <2>2, <2>4, <2>5
  <2>7. job'.seq = accepted'[Taken'].seq /\ accepted'[Taken'].kind = "junk"
    BY <1>1, <2>1, <2>2, <2>3, <2>4
  <2>8. QED BY <2>6, <2>7 DEF Queued
<1>6. CASE RxUnref
  <2>1. job' = NULL /\ UNCHANGED <<accepted, rx_queue>>
    BY <1>6 DEF RxUnref
  <2>2. One(job' # NULL) = 0 /\ One(job # NULL) \in Nat /\ Taken' = Taken
    BY <2>1 DEF One, Taken
  <2>3. Len(rx_queue') + One(job' # NULL) <= Len(accepted')
    BY <1>0, <1>1, <2>1, <2>2
  <2>4. QED BY <1>1, <2>1, <2>2, <2>3 DEF Queued
<1>7. CASE GetIeeeAddr \/ ProcessData \/ SendPktReport \/ SetChannel
  BY <1>2, <1>7 DEF GetIeeeAddr, ProcessData, SendPktReport, SetChannel
<1>8. CASE \/ InitRadio \/ InitRadioFails \/ CallbackSet \/ RxEnable
           \/ NetRecvData \/ TxGet \/ TxWritten \/ TxTimeout \/ UNCHANGED vars
  BY <1>2, <1>8 DEF InitRadio, InitRadioFails, CallbackSet, RxEnable, BootStep, NetRecvData,
                    TxGet, TxWritten, TxTimeout, rxside, vars
<1>9. QED BY <1>3, <1>4, <1>5, <1>6, <1>7, <1>8 DEF Next, RxThread

\* What was behind stays behind: rx_thread never goes back, and new commands come last.
LEMMA BehindStays ==
    ASSUME TypeOK, Queued, [Next]_vars, NEW p \in Nat, NEW q \in Nat, p <= q,
           NEW n \in Nat, Behind(n, p)
    PROVE  BehindIn(accepted', issued', n, q)
<1>0. Len(accepted) \in Nat /\ issued \in Nat
  BY CommandFacts
<1>1. n <= issued /\ \A i \in p + 1 .. Len(accepted) : accepted[i].kind # "junk" => n < accepted[i].seq
  BY DEF Behind, BehindIn
<1>2. CASE UNCHANGED <<accepted, issued>>
  BY <1>0, <1>1, <1>2 DEF BehindIn
<1>3. ASSUME NEW kind \in Kinds, NEW chan \in Channels, Arrive(kind, chan)
      PROVE  BehindIn(accepted', issued', n, q)
  <2>1. issued' = issued + 1
    BY <1>3, ArriveFacts
  <2>2. CASE UNCHANGED accepted
    BY <1>0, <1>1, <2>1, <2>2 DEF BehindIn
  <2>3. CASE ~UNCHANGED accepted
    <3>1. /\ Len(accepted') = Len(accepted) + 1
          /\ \A i \in 1 .. Len(accepted) : accepted'[i] = accepted[i]
          /\ accepted'[Len(accepted) + 1].seq =
                IF accepted'[Len(accepted) + 1].kind = "junk" THEN 0 ELSE issued + 1
      BY <1>3, <2>3, AcceptFacts
    <3>2. ASSUME NEW i \in q + 1 .. Len(accepted'), accepted'[i].kind # "junk"
          PROVE  n < accepted'[i].seq
      <4>1. CASE i = Len(accepted) + 1
        BY <1>0, <1>1, <3>1, <3>2, <4>1
      <4>2. CASE i # Len(accepted) + 1
        <5>1. i \in 1 .. Len(accepted) /\ i \in p + 1 .. Len(accepted)
          BY <1>0, <3>1, <4>2
        <5>2. QED BY <1>1, <3>1, <3>2, <5>1
      <4>3. QED BY <4>1, <4>2
    <3>3. QED BY <1>0, <1>1, <2>1, <3>2 DEF BehindIn
  <2>4. QED BY <2>2, <2>3
<1>4. QED BY <1>2, <1>3, OtherSteps

LEMMA Progress ==
    ASSUME TypeOK, Queued, Queued', TypeOK', [Next]_vars
    PROVE  Applied <= Applied' /\ Replied <= Replied' /\ Applied' \in Nat /\ Replied' \in Nat
<1>0. /\ Taken \in Nat /\ Applied \in Nat /\ Replied \in Nat
      /\ Replied <= Applied /\ Applied <= Taken
      /\ job # NULL /\ step = "parse" => Applied = Taken - 1 /\ Replied = Taken - 1
      /\ job # NULL /\ step = "report" => Applied = Taken /\ Replied = Taken - 1
      /\ job # NULL /\ step = "unref" => Applied = Taken /\ Replied = Taken
      /\ job = NULL => Applied = Taken /\ Replied = Taken
      /\ job # NULL => Taken >= 1
  BY QueueFacts
<1>1. CASE Taken' = Taken /\ UNCHANGED <<job, step>>
  BY <1>0, <1>1 DEF Applied, Replied
<1>2. ASSUME NEW kind \in Kinds, NEW chan \in Channels, Arrive(kind, chan)
      PROVE  Taken' = Taken /\ UNCHANGED <<job, step>>
  <2>1. UNCHANGED <<job, step>> /\ Len(accepted) \in Nat /\ Len(rx_queue) \in Nat
    BY <1>2, ArriveFacts, CommandFacts
  <2>2. CASE UNCHANGED <<rx_queue, accepted>>
    BY <2>1, <2>2 DEF Taken
  <2>3. CASE ~UNCHANGED <<rx_queue, accepted>>
    <3>1. Len(accepted') = Len(accepted) + 1 /\ Len(rx_queue') = Len(rx_queue) + 1
      BY <1>2, <2>3, AcceptFacts
    <3>2. QED BY <2>1, <3>1 DEF Taken
  <2>4. QED BY <2>2, <2>3
<1>3. CASE RxGet
  <2>1. /\ job = NULL /\ rx_queue # <<>> /\ rx_queue' = Tail(rx_queue)
        /\ accepted' = accepted /\ step' = "parse"
    BY <1>3 DEF RxGet
  <2>2. Len(rx_queue') = Len(rx_queue) - 1 /\ Len(rx_queue) \in Nat /\ Len(accepted) \in Nat
    BY <2>1, CommandFacts, HeadTailProperties DEF TypeOK
  <2>3. Taken' = Taken + 1
    BY <2>1, <2>2 DEF Taken
  <2>4. Applied' \in {Taken' - 1, Taken'} /\ Replied' \in {Taken' - 1, Taken'}
    BY DEF Applied, Replied
  <2>5. QED BY <1>0, <2>1, <2>3, <2>4
<1>4. CASE ParseJunk \/ GetIeeeAddr \/ ProcessData \/ SendPktReport \/ SetChannel \/ RxUnref
  <2>1. Taken' = Taken
    BY <1>4 DEF ParseJunk, GetIeeeAddr, ProcessData, SendPktReport, SetChannel, RxUnref, Taken
  <2>2. Applied' \in {Taken - 1, Taken} /\ Replied' \in {Taken - 1, Taken}
    BY <2>1 DEF Applied, Replied
  <2>3. job # NULL
    BY <1>4 DEF ParseJunk, GetIeeeAddr, ProcessData, SendPktReport, SetChannel, RxUnref
  <2>4. CASE step = "parse"
    BY <1>0, <2>2, <2>3, <2>4
  <2>5. CASE SendPktReport
    <3>1. step = "report" /\ step' = "unref"
      BY <2>5 DEF SendPktReport
    <3>2. Applied' = Taken /\ Replied' = Taken
      BY <2>1, <3>1 DEF Applied, Replied
    <3>3. QED BY <1>0, <3>2
  <2>6. CASE RxUnref
    <3>1. step = "unref" /\ job' = NULL
      BY <2>6 DEF RxUnref
    <3>2. Applied' = Taken /\ Replied' = Taken
      BY <2>1, <3>1 DEF Applied, Replied
    <3>3. QED BY <1>0, <3>2
  <2>7. QED
    BY <1>4, <2>4, <2>5, <2>6 DEF ParseJunk, GetIeeeAddr, ProcessData, SetChannel
<1>5. CASE \/ InitRadio \/ InitRadioFails \/ CallbackSet \/ RxEnable
           \/ NetRecvData \/ TxGet \/ TxWritten \/ TxTimeout \/ UNCHANGED vars
  <2>1. UNCHANGED <<accepted, rx_queue, job, step>>
    BY <1>5 DEF InitRadio, InitRadioFails, CallbackSet, RxEnable, BootStep, NetRecvData,
                TxGet, TxWritten, TxTimeout, rxside, vars
  <2>2. QED BY <1>1, <2>1 DEF Taken
<1>6. QED BY <1>1, <1>2, <1>3, <1>4, <1>5 DEF Next, RxThread

-----------------------------------------------------------------------------
(* Transmissions.                                                          *)

\* The command that rx_thread transmits: its number is above all that were transmitted
\* or reported, and below those of the commands that wait.
LEMMA JobFacts ==
    ASSUME TypeOK, Numbered, Queued, job # NULL
    PROVE  /\ job.seq \in Nat /\ job.seq <= issued
           /\ Behind(job.seq, Taken)
           /\ \A n \in Nat : n > 0 /\ Behind(n, Taken - 1) => n # job.seq
           /\ \A n \in Nat : job.seq > 0 /\ Behind(n, Taken - 1) => n < job.seq
<1>1. /\ Taken \in 1 .. Len(accepted) /\ job.seq = accepted[Taken].seq /\ Len(accepted) \in Nat
      /\ job.seq \in Nat
  BY QueueFacts, CommandFacts DEF Queued
<1>2. /\ job.seq <= issued
      /\ job.seq = 0 <=> accepted[Taken].kind = "junk"
      /\ \A i \in 1 .. Len(accepted) :
            Taken < i /\ accepted[i].kind # "junk" => job.seq < accepted[i].seq
  BY <1>1 DEF Numbered
<1>3. Behind(job.seq, Taken)
  BY <1>1, <1>2 DEF Behind, BehindIn
<1>4. ASSUME NEW n \in Nat, Behind(n, Taken - 1), job.seq > 0 PROVE n < job.seq
  <2>1. Taken \in (Taken - 1) + 1 .. Len(accepted)
    BY <1>1
  <2>2. accepted[Taken].kind # "junk"
    BY <1>1, <1>2, <1>4
  <2>3. QED BY <1>1, <1>4, <2>1, <2>2 DEF Behind, BehindIn
<1>5. \A n \in Nat : n > 0 /\ Behind(n, Taken - 1) => n # job.seq
  BY <1>1, <1>4
<1>6. QED BY <1>1, <1>2, <1>3, <1>4, <1>5

LEMMA DataFacts ==
    ASSUME TypeOK, Numbered, Queued, Transmitted, ProcessData
    PROVE  /\ job # NULL /\ step = "parse" /\ step' = "report" /\ job.kind = "S"
           /\ UNCHANGED <<boot, mac_addr, channel, issued, arrived, rx_free, tx_free, rx_queue,
                          job, tx_queue, out, host, accepted>>
           /\ Applied = Taken - 1 /\ Replied = Taken - 1 /\ Applied' = Taken
           /\ \/ /\ status' = 0
                 /\ Len(air') = Len(air) + 1 /\ air'[Len(air) + 1] = <<job.seq, channel>>
                 /\ \A k \in 1 .. Len(air) : air'[k] = air[k]
              \/ status' = 251 /\ air' = air
           /\ \A k \in 1 .. Len(air) : job.seq > 0 => air[k][1] < job.seq
<1>1. /\ job # NULL /\ step = "parse" /\ step' = "report" /\ job.kind = "S"
      /\ UNCHANGED <<boot, mac_addr, channel, issued, arrived, rx_free, tx_free, rx_queue,
                     job, tx_queue, out, host, accepted>>
      /\ \/ status' = 0 /\ air' = Append(air, <<job.seq, channel>>)
         \/ \E e \in RadioErrors : status' = 256 - e /\ UNCHANGED air
  BY DEF ProcessData
<1>2. Applied = Taken - 1 /\ Replied = Taken - 1 /\ Applied' = Taken
  BY <1>1, QueueFacts DEF Applied, Taken
<1>3. air \in Seq((0 .. MaxCommands) \X Channels)
  BY DEF TypeOK
<1>4. <<job.seq, channel>> \in (0 .. MaxCommands) \X Channels
  BY <1>1 DEF TypeOK, Commands
<1>5. LET a == Append(air, <<job.seq, channel>>)
      IN  /\ Len(a) = Len(air) + 1 /\ a[Len(air) + 1] = <<job.seq, channel>>
          /\ \A k \in 1 .. Len(air) : a[k] = air[k]
  BY <1>3, <1>4, AppendAt
<1>6. \A k \in 1 .. Len(air) : job.seq > 0 => air[k][1] < job.seq
  <2>1. \A k \in 1 .. Len(air) : air[k][1] \in Nat /\ Behind(air[k][1], Taken - 1)
    BY <1>2, CommandFacts DEF Transmitted
  <2>2. QED BY <1>1, <2>1, JobFacts
<1>7. (\E e \in RadioErrors : status' = 256 - e /\ UNCHANGED air) => status' = 251 /\ air' = air
  BY DEF RadioErrors
<1>8. QED BY <1>1, <1>2, <1>5, <1>6, <1>7

LEMMA OtherThanData ==
    ASSUME [Next]_vars, ~ProcessData
    PROVE  UNCHANGED air /\ (\/ UNCHANGED <<status, step>> \/ job' = NULL \/ step' # "report")
<1>1. CASE \E kind \in Kinds, chan \in Channels : Arrive(kind, chan)
  BY <1>1 DEF Arrive
<1>2. CASE \/ InitRadio \/ InitRadioFails \/ CallbackSet \/ RxEnable
           \/ NetRecvData \/ TxGet \/ TxWritten \/ TxTimeout \/ UNCHANGED vars
  BY <1>2 DEF InitRadio, InitRadioFails, CallbackSet, RxEnable, BootStep, NetRecvData,
              TxGet, TxWritten, TxTimeout, rxside, vars
<1>3. CASE RxGet \/ ParseJunk \/ GetIeeeAddr \/ SendPktReport \/ SetChannel \/ RxUnref
  BY <1>3 DEF RxGet, ParseJunk, GetIeeeAddr, SendPktReport, SetChannel, RxUnref
<1>4. QED BY <1>1, <1>2, <1>3 DEF Next, RxThread

LEMMA NextTransmitted ==
    ASSUME TypeOK, TypeOK', Numbered, Queued, Queued', Transmitted, [Next]_vars
    PROVE  Transmitted'
<1>0. /\ Applied \in Nat /\ Applied' \in Nat /\ Applied <= Applied' /\ Len(air) \in Nat
      /\ \A k \in 1 .. Len(air) : air[k][1] \in Nat
  BY QueueFacts, Progress, CommandFacts
<1>1. \A k \in 1 .. Len(air) : BehindIn(accepted', issued', air[k][1], Applied')
  BY <1>0, BehindStays DEF Transmitted
<1>2. \A k, l \in 1 .. Len(air) :
         k < l /\ air[k][1] > 0 /\ air[l][1] > 0 => air[k][1] < air[l][1]
  BY DEF Transmitted
<1>3. CASE UNCHANGED air
  BY <1>1, <1>2, <1>3 DEF Transmitted, Behind
<1>4. CASE ProcessData /\ ~UNCHANGED air
  <2>1. /\ job # NULL /\ UNCHANGED <<accepted, issued>> /\ Applied' = Taken
        /\ Len(air') = Len(air) + 1 /\ air'[Len(air) + 1] = <<job.seq, channel>>
        /\ \A k \in 1 .. Len(air) : air'[k] = air[k]
        /\ \A k \in 1 .. Len(air) : job.seq > 0 => air[k][1] < job.seq
    BY <1>4, DataFacts
  <2>2. BehindIn(accepted', issued', job.seq, Applied') /\ job.seq \in Nat
    BY <2>1, JobFacts DEF Behind
  <2>3. ASSUME NEW k \in 1 .. Len(air')
        PROVE  BehindIn(accepted', issued', air'[k][1], Applied')
    <3>1. CASE k \in 1 .. Len(air)
      BY <1>1, <2>1, <3>1
    <3>2. CASE k = Len(air) + 1
      <4>1. air'[k][1] = job.seq
        BY <2>1, <3>2
      <4>2. QED BY <2>2, <4>1
    <3>3. QED BY <1>0, <2>1, <3>1, <3>2
  <2>4. ASSUME NEW k \in 1 .. Len(air'), NEW l \in 1 .. Len(air'),
               k < l, air'[k][1] > 0, air'[l][1] > 0
        PROVE  air'[k][1] < air'[l][1]
    <3>1. k \in 1 .. Len(air) /\ air'[k] = air[k]
      BY <1>0, <2>1, <2>4
    <3>2. CASE l \in 1 .. Len(air)
      BY <1>2, <2>1, <2>4, <3>1, <3>2
    <3>3. CASE l = Len(air) + 1
      BY <2>1, <2>4, <3>1, <3>3
    <3>4. QED BY <1>0, <2>1, <3>2, <3>3
  <2>5. QED BY <2>3, <2>4 DEF Transmitted, Behind
<1>5. QED BY <1>3, <1>4, OtherThanData

LEMMA NextStatus ==
    ASSUME TypeOK, Numbered, Queued, Transmitted, StatusOwn, [Next]_vars
    PROVE  StatusOwn'
<1>1. CASE ProcessData
  <2>0. /\ job' = job /\ job.seq \in Nat /\ Len(air) \in Nat
        /\ \A k \in 1 .. Len(air) : air[k][1] \in Nat
    BY <1>1, DataFacts, JobFacts, CommandFacts
  <2>1. CASE status' = 0
    <3>1. Len(air') = Len(air) + 1 /\ air'[Len(air) + 1] = <<job.seq, channel>>
      BY <1>1, <2>1, DataFacts
    <3>2. Len(air) + 1 \in 1 .. Len(air') /\ air'[Len(air) + 1][1] = job'.seq
      BY <2>0, <3>1
    <3>3. InAir(job.seq)'
      BY <2>0, <3>2 DEF InAir, Sent
    <3>4. QED BY <2>1, <3>3 DEF StatusOwn, InAir, Sent
  <2>2. CASE status' # 0
    <3>1. air' = air /\ \A k \in 1 .. Len(air) : job.seq > 0 => air[k][1] < job.seq
      BY <1>1, <2>2, DataFacts
    <3>2. job'.seq > 0 => \A k \in 1 .. Len(air') : air'[k][1] # job'.seq
      BY <2>0, <3>1
    <3>3. QED BY <2>2, <3>2 DEF StatusOwn, InAir, Sent
  <2>3. QED BY <2>1, <2>2
<1>2. CASE ~ProcessData
  <2>1. UNCHANGED air
    BY <1>2, OtherThanData
  <2>2. CASE job' = NULL \/ step' # "report"
    BY <2>2 DEF StatusOwn
  <2>3. CASE UNCHANGED <<status, step>> /\ job' # NULL /\ step' = "report"
    <3>1. job' = job
      <4>1. ~RxGet /\ ~ParseJunk
        BY <2>3, JunkFacts DEF RxGet
      <4>2. ~RxUnref
        BY <2>3 DEF RxUnref
      <4>3. QED BY <1>2, <4>1, <4>2 DEF Next, InitRadio, InitRadioFails, CallbackSet, RxEnable,
               BootStep, Arrive, RxThread, GetIeeeAddr, SendPktReport, SetChannel, NetRecvData,
               TxGet, TxWritten, TxTimeout, rxside, vars
    <3>2. QED BY <2>1, <2>3, <3>1 DEF StatusOwn, InAir, Sent
  <2>4. QED BY <1>2, <2>2, <2>3, OtherThanData
<1>3. QED BY <1>1, <1>2

-----------------------------------------------------------------------------
(* Frames on their way to the host.                                        *)

\* What is true of a frame after the step.
HonestNext(f) == HonestIn(f, arrived', accepted', issued', Replied', air')

\* What was true of a frame stays true.
LEMMA HonestStays ==
    ASSUME TypeOK, TypeOK', Numbered, Queued, Queued', Transmitted, [Next]_vars,
           NEW f \in OutFrames, Honest(f)
    PROVE  HonestNext(f)
<1>0. f.n \in Nat /\ Replied \in Nat /\ Replied' \in Nat /\ Replied <= Replied'
  BY QueueFacts, Progress, ConstantFacts DEF OutFrames
<1>1. /\ f.kind = "radio" => f.n <= arrived
      /\ f \in Replies => Behind(f.n, Replied)
      /\ f.kind = "report" /\ f.n > 0 => (f.value = 0 <=> InAir(f.n))
      /\ f.kind = "mac" => f.value = 1
  BY DEF Honest, HonestIn, Behind, InAir
<1>2. arrived <= arrived' /\ arrived \in Nat /\ arrived' \in Nat
  <2>1. arrived' = arrived \/ arrived' = arrived + 1
    BY DEF Next, InitRadio, InitRadioFails, CallbackSet, RxEnable, BootStep, Arrive, RxThread,
           RxGet, ParseJunk, GetIeeeAddr, ProcessData, SendPktReport, SetChannel, RxUnref,
           NetRecvData, TxGet, TxWritten, TxTimeout, rxside, vars
  <2>2. QED BY <2>1, CommandFacts
<1>3. f.kind = "radio" => f.n <= arrived'
  BY <1>0, <1>1, <1>2
<1>4. f \in Replies => BehindIn(accepted', issued', f.n, Replied')
  BY <1>0, <1>1, BehindStays
<1>5. f.kind = "report" /\ f.n > 0 => (Sent(air', f.n) <=> InAir(f.n))
  <2>1. CASE UNCHANGED air
    BY <2>1 DEF InAir
  <2>2. CASE ProcessData /\ ~UNCHANGED air
    <3>1. /\ Len(air') = Len(air) + 1 /\ air'[Len(air) + 1] = <<job.seq, channel>>
          /\ \A k \in 1 .. Len(air) : air'[k] = air[k]
          /\ job # NULL /\ Replied = Taken - 1 /\ Len(air) \in Nat
      BY <2>2, DataFacts, CommandFacts
    <3>2. SUFFICES ASSUME f.kind = "report", f.n > 0 PROVE Sent(air', f.n) <=> InAir(f.n)
      OBVIOUS
    <3>3. f \in Replies
      BY <3>2 DEF Replies
    <3>4. f.n # job.seq
      BY <1>0, <1>1, <3>1, <3>2, <3>3, JobFacts
    <3>5. \A k \in 1 .. Len(air') : air'[k][1] = f.n => k \in 1 .. Len(air) /\ air[k][1] = f.n
      BY <3>1, <3>4
    <3>6. \A k \in 1 .. Len(air) : air[k][1] = f.n => k \in 1 .. Len(air') /\ air'[k][1] = f.n
      BY <3>1
    <3>7. QED BY <3>5, <3>6 DEF InAir, Sent
  <2>3. QED BY <2>1, <2>2, OtherThanData
<1>6. QED BY <1>1, <1>3, <1>4, <1>5 DEF HonestNext, HonestIn, InAir

\* One more frame on the line, none of what is there, or a part of it.
LEMMA StreamAppend ==
    ASSUME TypeOK, StreamHonest, HostOrder, NEW f \in OutFrames,
           Stream' = Append(Stream, f), HonestNext(f),
           \A g \in OutFrames : Honest(g) => HonestNext(g),
           \A k \in 1 .. Len(Stream) :
              /\ f.kind = "radio" /\ Stream[k].kind = "radio" => Stream[k].n < f.n
              /\ f \in Replies /\ Stream[k] \in Replies => Stream[k].n < f.n
    PROVE  StreamHonest' /\ HostOrder'
<1>1. /\ Stream \in Seq(OutFrames) /\ Len(Stream) \in Nat
      /\ \A k \in 1 .. Len(Stream) : Stream[k] \in OutFrames
  BY StreamType
<1>2. /\ Len(Stream') = Len(Stream) + 1
      /\ \A k \in 1 .. Len(Stream) : Stream'[k] = Stream[k]
      /\ Stream'[Len(Stream) + 1] = f
  BY <1>1, AppendAt
<1>3. StreamHonest'
  <2>1. ASSUME NEW k \in 1 .. Len(Stream') PROVE HonestNext(Stream'[k])
    <3>1. CASE k \in 1 .. Len(Stream)
      BY <1>1, <1>2, <3>1 DEF StreamHonest
    <3>2. CASE k = Len(Stream) + 1
      BY <1>2, <3>2
    <3>3. QED BY <1>1, <1>2, <3>1, <3>2
  <2>2. QED BY <2>1 DEF StreamHonest, Honest, HonestNext
<1>4. Ascending(Append(Stream, f), RadioFrames)
  BY <1>1, AscendingAppend DEF HostOrder, RadioFrames
<1>5. Ascending(Append(Stream, f), Replies)
  BY <1>1, AscendingAppend DEF HostOrder
<1>6. QED BY <1>3, <1>4, <1>5 DEF HostOrder

LEMMA StreamPart ==
    ASSUME TypeOK, StreamHonest, HostOrder, Part(Stream', Stream),
           \A g \in OutFrames : Honest(g) => HonestNext(g)
    PROVE  StreamHonest' /\ HostOrder'
<1>1. \A k \in 1 .. Len(Stream) : Stream[k] \in OutFrames
  BY StreamType
<1>2. ASSUME NEW k \in 1 .. Len(Stream') PROVE HonestNext(Stream'[k])
  <2>1. PICK a \in 1 .. Len(Stream) : Stream[a] = Stream'[k]
    BY DEF Part
  <2>2. Stream'[k] \in OutFrames /\ Honest(Stream[a])
    BY <1>1, <2>1 DEF StreamHonest
  <2>3. QED BY <2>1, <2>2
<1>3. Ascending(Stream', RadioFrames) /\ Ascending(Stream', Replies)
  BY AscendingPart DEF HostOrder
<1>4. QED BY <1>2, <1>3 DEF StreamHonest, HostOrder, Honest, HonestNext

LEMMA StreamSame ==
    ASSUME TypeOK, StreamHonest, HostOrder, Stream' = Stream,
           \A g \in OutFrames : Honest(g) => HonestNext(g)
    PROVE  StreamHonest' /\ HostOrder'
<1>1. \A k \in 1 .. Len(Stream) : Stream[k] \in OutFrames
  BY StreamType
<1>2. ASSUME NEW k \in 1 .. Len(Stream') PROVE HonestNext(Stream'[k])
  BY <1>1 DEF StreamHonest
<1>3. QED BY <1>2 DEF StreamHonest, HostOrder, Honest, HonestNext

\* The reply of a command is honest, and its number above those of all earlier replies.
LEMMA ReplyHonest ==
    ASSUME TypeOK, TypeOK', PoolsConserved, Booted, Numbered, Queued, Queued', Transmitted, StatusOwn,
           StreamHonest, [Next]_vars, GetIeeeAddr \/ SendPktReport
    PROVE  \E f \in OutFrames :
              /\ Stream' = Stream \/ Stream' = Append(Stream, f)
              /\ f.kind # "radio" /\ HonestNext(f)
              /\ \A k \in 1 .. Len(Stream) :
                    f \in Replies /\ Stream[k] \in Replies => Stream[k].n < f.n
<1>1. PICK f \in OutFrames :
              /\ SendData(f) /\ f.n = job.seq
              /\ \/ f.kind = "mac" /\ step = "parse" /\ job.kind = "M"
                    /\ f.value = (IF mac_addr THEN 1 ELSE 0)
                 \/ f.kind = "report" /\ step = "report" /\ f.value = status
              /\ job # NULL /\ step' = "unref"
              /\ UNCHANGED <<boot, mac_addr, channel, issued, arrived, rx_free, rx_queue, job,
                             status, out, air, host, accepted>>
  BY ReplyFacts
<1>2. Stream' = Stream \/ Stream' = Append(Stream, f)
  BY <1>1, SendFacts
<1>3. Replied = Taken - 1 /\ Replied' = Taken
  BY <1>1, QueueFacts DEF Replied, Taken
<1>4. Behind(f.n, Taken) /\ f.n \in Nat
  BY <1>1, JobFacts
<1>5. f.kind = "report" /\ f.n > 0 => (f.value = 0 <=> Sent(air', f.n))
  BY <1>1 DEF StatusOwn, InAir
<1>6. f.kind = "mac" => f.value = 1
  <2>1. accepted # <<>>
    BY <1>1, QueueFacts, EmptySeq
  <2>2. mac_addr
    BY <2>1 DEF Booted
  <2>3. QED BY <1>1, <2>2
<1>7. BehindIn(accepted', issued', f.n, Replied')
  BY <1>1, <1>3, <1>4 DEF Behind
<1>8. f.kind # "radio"
  BY <1>1
<1>9. HonestNext(f)
  BY <1>5, <1>6, <1>7, <1>8 DEF HonestNext, HonestIn
<1>10. ASSUME NEW k \in 1 .. Len(Stream), f \in Replies, Stream[k] \in Replies
       PROVE  Stream[k].n < f.n
  <2>1. Behind(Stream[k].n, Taken - 1)
    <3>1. Honest(Stream[k])
      BY <1>10 DEF StreamHonest
    <3>2. BehindIn(accepted, issued, Stream[k].n, Replied)
      BY <1>10, <3>1 DEF Honest, HonestIn
    <3>3. QED BY <1>3, <3>2 DEF Behind, BehindIn
  <2>2. Stream[k].n \in Nat
    <3>1. \A g \in Replies : g.n \in Nat
      BY ConstantFacts DEF Replies, OutFrames
    <3>2. QED BY <1>10, <3>1
  <2>3. job.seq > 0
    BY <1>1, <1>10 DEF Replies
  <2>4. QED BY <1>1, <2>1, <2>2, <2>3, JobFacts
<1>11. QED BY <1>2, <1>8, <1>9, <1>10

LEMMA NextStream ==
    ASSUME TypeOK, TypeOK', PoolsConserved, Booted, Numbered, Queued, Queued', Transmitted, StatusOwn,
           StreamHonest, HostOrder, [Next]_vars
    PROVE  StreamHonest' /\ HostOrder'
<1>1. \A g \in OutFrames : Honest(g) => HonestNext(g)
  BY HonestStays
<1>2. CASE Stream' = Stream
  BY <1>1, <1>2, StreamSame
<1>3. CASE GetIeeeAddr \/ SendPktReport
  <2>1. PICK f \in OutFrames :
              /\ Stream' = Stream \/ Stream' = Append(Stream, f)
              /\ f.kind # "radio" /\ HonestNext(f)
              /\ \A k \in 1 .. Len(Stream) :
                    f \in Replies /\ Stream[k] \in Replies => Stream[k].n < f.n
    BY <1>3, ReplyHonest
  <2>2. CASE Stream' = Append(Stream, f)
    BY <1>1, <2>1, <2>2, StreamAppend
  <2>3. QED BY <1>2, <2>1, <2>2
<1>4. CASE NetRecvData
  <2> DEFINE f == [kind |-> "radio", n |-> arrived + 1, value |-> 0]
  <2>1. /\ arrived' = arrived + 1 /\ arrived < MaxRadio /\ tx_queue' = Append(tx_queue, f)
        /\ UNCHANGED <<out, host>>
    BY <1>4 DEF NetRecvData
  <2>2. arrived \in Nat
    BY CommandFacts
  <2>3. f \in OutFrames
    BY <2>1, <2>2, ConstantFacts DEF OutFrames
  <2>4. Stream' = Append(Stream, f)
    BY <2>1, <2>3, QueuedFacts
  <2>5. f \notin Replies /\ f.kind = "radio" /\ f.n = arrived'
    BY <2>1 DEF Replies
  <2> HIDE DEF f
  <2>6. HonestNext(f)
    BY <2>1, <2>2, <2>5 DEF HonestNext, HonestIn
  <2>7. \A k \in 1 .. Len(Stream) : Stream[k].kind = "radio" => Stream[k].n < f.n
    <3>0. \A g \in OutFrames : g.n \in Nat /\ (Honest(g) => (g.kind = "radio" => g.n <= arrived))
      BY ConstantFacts DEF Honest, HonestIn, OutFrames
    <3>1. \A k \in 1 .. Len(Stream) : Stream[k].kind = "radio" =>
             Stream[k].n <= arrived /\ Stream[k].n \in Nat
      BY <3>0, StreamType DEF StreamHonest
    <3>2. QED BY <2>1, <2>2, <2>5, <3>1
  <2>8. QED BY <1>1, <2>3, <2>4, <2>5, <2>6, <2>7, StreamAppend
<1>5. CASE TxGet
  BY <1>2, <1>5, GetFacts
<1>6. CASE TxWritten
  <2>1. out # NULL /\ out' = NULL /\ UNCHANGED tx_queue /\ host' = Append(host, out)
    BY <1>6 DEF TxWritten
  <2>2. QED BY <1>2, <2>1, WriteEndFacts
<1>7. CASE TxTimeout
  <2>1. out # NULL /\ out' = NULL /\ UNCHANGED tx_queue /\ host' = host
    BY <1>7 DEF TxTimeout
  <2>2. QED BY <1>1, <2>1, WriteEndFacts, StreamPart
<1>8. CASE UNCHANGED <<out, tx_queue, host>>
  BY <1>2, <1>8, SameStream
<1>9. QED
  BY <1>3, <1>4, <1>5, <1>6, <1>7, <1>8
     DEF Next, InitRadio, InitRadioFails, CallbackSet, RxEnable, BootStep, Arrive, RxThread,
         RxGet, ParseJunk, ProcessData, SetChannel, RxUnref, vars

-----------------------------------------------------------------------------
(* Channels.                                                               *)

\* ChannelBefore, of any sequence of commands.
BeforeIn(acc, i, c) ==
    \/ c = DefaultChannel /\ \A j \in 1 .. i - 1 : acc[j].kind # "C"
    \/ \E j \in 1 .. i - 1 :
          /\ acc[j].kind = "C" /\ acc[j].chan = c
          /\ \A m \in j + 1 .. i - 1 : acc[m].kind # "C"

LEMMA BeforeFacts ==
    /\ \A i, c : ChannelBefore(i, c) <=> BeforeIn(accepted, i, c)
    /\ Tuned <=> (CleanIn(accepted, Applied) => BeforeIn(accepted, Applied + 1, channel))
    /\ Tuned' <=> (CleanIn(accepted', Applied') => BeforeIn(accepted', Applied' + 1, channel'))
    /\ ChannelObeyed <=>
          \A i \in 1 .. Len(accepted) : CleanIn(accepted, i) =>
              \A k \in 1 .. Len(air) :
                  air[k][1] = accepted[i].seq => BeforeIn(accepted, i, air[k][2])
    /\ ChannelObeyed' <=>
          \A i \in 1 .. Len(accepted') : CleanIn(accepted', i) =>
              \A k \in 1 .. Len(air') :
                  air'[k][1] = accepted'[i].seq => BeforeIn(accepted', i, air'[k][2])
<1>1. \A i, c : ChannelBefore(i, c) <=> BeforeIn(accepted, i, c)
  BY DEF ChannelBefore, BeforeIn
<1>2. Tuned <=> (CleanIn(accepted, Applied) => BeforeIn(accepted, Applied + 1, channel))
  BY <1>1 DEF Tuned, Clean
<1>3. Tuned' <=> (CleanIn(accepted', Applied') => BeforeIn(accepted', Applied' + 1, channel'))
  BY DEF Tuned, Clean, ChannelBefore, BeforeIn
<1>4. ChannelObeyed <=>
          \A i \in 1 .. Len(accepted) : CleanIn(accepted, i) =>
              \A k \in 1 .. Len(air) :
                  air[k][1] = accepted[i].seq => BeforeIn(accepted, i, air[k][2])
  BY <1>1 DEF ChannelObeyed, CleanIn
<1>5. ChannelObeyed' <=>
          \A i \in 1 .. Len(accepted') : CleanIn(accepted', i) =>
              \A k \in 1 .. Len(air') :
                  air'[k][1] = accepted'[i].seq => BeforeIn(accepted', i, air'[k][2])
  BY DEF ChannelObeyed, CleanIn, ChannelBefore, BeforeIn
<1>6. QED BY <1>1, <1>2, <1>3, <1>4, <1>5

\* What has been accepted keeps its place, and so does what it asks for.
LEMMA KeptAccepted ==
    ASSUME TypeOK, [Next]_vars
    PROVE  /\ Len(accepted) \in Nat /\ Len(accepted') \in Nat /\ Len(accepted) <= Len(accepted')
           /\ \A i \in 1 .. Len(accepted) : accepted'[i] = accepted[i]
<1>1. Len(accepted) \in Nat
  BY CommandFacts
<1>2. CASE UNCHANGED accepted
  BY <1>1, <1>2
<1>3. ASSUME NEW kind \in Kinds, NEW chan \in Channels, Arrive(kind, chan), ~UNCHANGED accepted
      PROVE  /\ Len(accepted') = Len(accepted) + 1
             /\ \A i \in 1 .. Len(accepted) : accepted'[i] = accepted[i]
  BY <1>3, AcceptFacts
<1>4. QED BY <1>1, <1>2, <1>3, OtherSteps

LEMMA ChannelStays ==
    ASSUME TypeOK, [Next]_vars, NEW i \in Nat, i <= Len(accepted), NEW c
    PROVE  /\ BeforeIn(accepted, i + 1, c) => BeforeIn(accepted', i + 1, c)
           /\ BeforeIn(accepted, i, c) => BeforeIn(accepted', i, c)
           /\ CleanIn(accepted', i) => CleanIn(accepted, i)
<1>1. \A j \in 1 .. (i + 1) - 1 : accepted'[j] = accepted[j]
  BY KeptAccepted
<1>2. \A j \in 1 .. i - 1 : accepted'[j] = accepted[j]
  BY <1>1
<1>3. CleanIn(accepted', i) => CleanIn(accepted, i)
  BY <1>1 DEF CleanIn
<1>4. BeforeIn(accepted, i + 1, c) => BeforeIn(accepted', i + 1, c)
  BY <1>1 DEF BeforeIn
<1>5. BeforeIn(accepted, i, c) => BeforeIn(accepted', i, c)
  BY <1>2 DEF BeforeIn
<1>6. QED BY <1>3, <1>4, <1>5

\* What the commands up to the i-th ask for.
LEMMA ChannelAfter ==
    ASSUME NEW acc, NEW i \in Nat \ {0}, NEW c
    PROVE  /\ acc[i].kind = "C" => BeforeIn(acc, i + 1, acc[i].chan)
           /\ acc[i].kind # "C" /\ BeforeIn(acc, i, c) => BeforeIn(acc, i + 1, c)
<1>1. ASSUME acc[i].kind = "C" PROVE BeforeIn(acc, i + 1, acc[i].chan)
  <2>1. i \in 1 .. (i + 1) - 1 /\ \A m \in i + 1 .. (i + 1) - 1 : FALSE
    OBVIOUS
  <2>2. QED BY <1>1, <2>1 DEF BeforeIn
<1>2. ASSUME acc[i].kind # "C", BeforeIn(acc, i, c) PROVE BeforeIn(acc, i + 1, c)
  <2>1. CASE c = DefaultChannel /\ \A j \in 1 .. i - 1 : acc[j].kind # "C"
    <3>1. \A j \in 1 .. (i + 1) - 1 : acc[j].kind # "C"
      BY <1>2, <2>1
    <3>2. QED BY <2>1, <3>1 DEF BeforeIn
  <2>2. ASSUME NEW j \in 1 .. i - 1, acc[j].kind = "C", acc[j].chan = c,
               \A m \in j + 1 .. i - 1 : acc[m].kind # "C"
        PROVE  BeforeIn(acc, i + 1, c)
    <3>1. j \in 1 .. (i + 1) - 1 /\ \A m \in j + 1 .. (i + 1) - 1 : acc[m].kind # "C"
      BY <1>2, <2>2
    <3>2. QED BY <2>2, <3>1 DEF BeforeIn
  <2>3. QED BY <1>2, <2>1, <2>2 DEF BeforeIn
<1>3. QED BY <1>1, <1>2

\* The command of the job, when nothing up to it was junk.
LEMMA CleanJob ==
    ASSUME TypeOK, Queued, job # NULL, CleanIn(accepted, Taken)
    PROVE  /\ Taken \in Nat \ {0} /\ job = accepted[Taken] /\ job.kind # "junk"
           /\ CleanIn(accepted, Taken - 1)
<1>1. Taken \in 1 .. Len(accepted) /\ Len(accepted) \in Nat
  BY QueueFacts
<1>2. QED BY <1>1 DEF CleanIn, Queued

\* How the channel and the commands that have had their effect change together.
LEMMA EffectFacts ==
    ASSUME TypeOK, Queued, [Next]_vars
    PROVE  \/ Applied' = Applied /\ channel' = channel
           \/ /\ job # NULL /\ Applied = Taken - 1 /\ Applied' = Taken /\ UNCHANGED accepted
              /\ \/ job.kind \in {"junk", "M", "S"} /\ channel' = channel
                 \/ job.kind = "C" /\ channel' = job.chan
<1>0. /\ job # NULL /\ step = "parse" => Applied = Taken - 1
      /\ job # NULL /\ step # "parse" => Applied = Taken
      /\ job = NULL => Applied = Taken
      /\ Len(accepted) \in Nat /\ Len(rx_queue) \in Nat
  BY QueueFacts DEF TypeOK
<1>1. ASSUME NEW kind \in Kinds, NEW chan \in Channels, Arrive(kind, chan)
      PROVE  Applied' = Applied /\ channel' = channel
  <2>1. UNCHANGED <<job, step, channel>>
    BY <1>1, ArriveFacts
  <2>2. Taken' = Taken
    <3>1. CASE UNCHANGED <<rx_queue, accepted>>
      BY <3>1 DEF Taken
    <3>2. CASE ~UNCHANGED <<rx_queue, accepted>>
      <4>1. Len(accepted') = Len(accepted) + 1 /\ Len(rx_queue') = Len(rx_queue) + 1
        BY <1>1, <3>2, AcceptFacts
      <4>2. QED BY <1>0, <4>1 DEF Taken
    <3>3. QED BY <3>1, <3>2
  <2>3. QED BY <2>1, <2>2 DEF Applied
<1>2. CASE RxGet
  <2>1. /\ job = NULL /\ rx_queue # <<>> /\ job' = Head(rx_queue) /\ rx_queue' = Tail(rx_queue)
        /\ step' = "parse" /\ UNCHANGED <<channel, accepted>>
    BY <1>2 DEF RxGet
  <2>2. Len(rx_queue') = Len(rx_queue) - 1 /\ job' # NULL
    BY <2>1, HeadTailProperties, ConstantFacts DEF TypeOK
  <2>3. Taken' = Taken + 1 /\ Taken \in Int
    BY <1>0, <2>1, <2>2 DEF Taken
  <2>4. Applied' = Taken' - 1
    BY <2>1, <2>2 DEF Applied
  <2>5. QED BY <1>0, <2>1, <2>3, <2>4
<1>3. CASE ParseJunk
  <2>1. /\ job # NULL /\ step = "parse" /\ job.kind = "junk" /\ job' # NULL
        /\ step' \in {"parse", "unref"}
    BY <1>3, JunkFacts
  <2>2. UNCHANGED <<accepted, rx_queue, channel>>
    BY <1>3 DEF ParseJunk
  <2>3. Taken' = Taken
    BY <2>2 DEF Taken
  <2>4. QED BY <1>0, <2>1, <2>2, <2>3 DEF Applied
<1>4. CASE GetIeeeAddr \/ ProcessData
  BY <1>0, <1>4 DEF GetIeeeAddr, ProcessData, Applied, Taken
<1>5. CASE SetChannel
  BY <1>0, <1>5 DEF SetChannel, Applied, Taken
<1>6. CASE SendPktReport \/ RxUnref
  BY <1>0, <1>6 DEF SendPktReport, RxUnref, Applied, Taken
<1>7. CASE \/ InitRadio \/ InitRadioFails \/ CallbackSet \/ RxEnable
           \/ NetRecvData \/ TxGet \/ TxWritten \/ TxTimeout \/ UNCHANGED vars
  BY <1>7 DEF InitRadio, InitRadioFails, CallbackSet, RxEnable, BootStep, NetRecvData,
              TxGet, TxWritten, TxTimeout, rxside, vars, Applied, Taken
<1>8. QED BY <1>1, <1>2, <1>3, <1>4, <1>5, <1>6, <1>7 DEF Next, RxThread

LEMMA NextTuned ==
    ASSUME TypeOK, Queued, Tuned, [Next]_vars
    PROVE  Tuned'
<1>0. /\ Taken \in Nat /\ Applied \in Nat /\ Applied <= Taken /\ Len(accepted) \in Nat
      /\ Applied <= Len(accepted)
  BY QueueFacts
<1>1. CASE Applied' = Applied /\ channel' = channel
  <2>1. SUFFICES ASSUME CleanIn(accepted', Applied)
                 PROVE  BeforeIn(accepted', Applied + 1, channel)
    BY <1>1, BeforeFacts
  <2>2. CleanIn(accepted, Applied)
    BY <1>0, <2>1, ChannelStays
  <2>3. BeforeIn(accepted, Applied + 1, channel)
    BY <2>2, BeforeFacts
  <2>4. QED BY <1>0, <2>3, ChannelStays
<1>2. CASE /\ job # NULL /\ Applied = Taken - 1 /\ Applied' = Taken /\ UNCHANGED accepted
           /\ \/ job.kind \in {"junk", "M", "S"} /\ channel' = channel
              \/ job.kind = "C" /\ channel' = job.chan
  <2>1. SUFFICES ASSUME CleanIn(accepted, Taken)
                 PROVE  BeforeIn(accepted, Taken + 1, channel')
    BY <1>2, BeforeFacts
  <2>2. /\ Taken \in Nat \ {0} /\ job = accepted[Taken] /\ CleanIn(accepted, Taken - 1)
    BY <1>2, <2>1, CleanJob
  <2>3. BeforeIn(accepted, Taken, channel)
    <3>1. CleanIn(accepted, Applied) /\ Applied + 1 = Taken
      BY <1>2, <2>2
    <3>2. QED BY <3>1, BeforeFacts
  <2>4. QED BY <1>2, <2>2, <2>3, ChannelAfter
<1>3. QED BY <1>1, <1>2, EffectFacts

LEMMA NextChannel ==
    ASSUME TypeOK, Numbered, Queued, Transmitted, Tuned, ChannelObeyed, [Next]_vars
    PROVE  ChannelObeyed'
<1>0. /\ Len(accepted) \in Nat /\ Len(accepted') \in Nat /\ Len(accepted) <= Len(accepted')
      /\ Len(air) \in Nat /\ \A k \in 1 .. Len(air) : air[k][1] \in Nat
      /\ \A i \in 1 .. Len(accepted) : accepted'[i] = accepted[i] /\ accepted[i].seq \in Nat
      /\ issued \in Nat
  BY KeptAccepted, CommandFacts
<1>1. ASSUME NEW i \in 1 .. Len(accepted), CleanIn(accepted', i), NEW k \in 1 .. Len(air),
             air[k][1] = accepted[i].seq
      PROVE  BeforeIn(accepted', i, air[k][2])
  <2>1. CleanIn(accepted, i)
    BY <1>0, <1>1, ChannelStays
  <2>2. BeforeIn(accepted, i, air[k][2])
    BY <1>1, <2>1, BeforeFacts
  <2>3. QED BY <1>0, <2>2, ChannelStays
\* A command that has just come has a number that was not transmitted yet.
<1>2. ASSUME NEW i \in 1 .. Len(accepted'), i \notin 1 .. Len(accepted), CleanIn(accepted', i),
             NEW k \in 1 .. Len(air)
      PROVE  air[k][1] # accepted'[i].seq /\ UNCHANGED air
  <2>1. PICK kind \in Kinds, chan \in Channels : Arrive(kind, chan)
    BY <1>2, OtherSteps
  <2>2. ~UNCHANGED accepted
    BY <1>2
  <2>3. /\ Len(accepted') = Len(accepted) + 1 /\ i = Len(accepted) + 1
        /\ accepted'[i].seq = IF accepted'[i].kind = "junk" THEN 0 ELSE issued + 1
    BY <1>0, <1>2, <2>1, <2>2, AcceptFacts
  <2>4. accepted'[i].kind # "junk"
    BY <1>0, <1>2, <2>3 DEF CleanIn
  <2>5. air[k][1] <= issued /\ air' = air
    BY <2>1, ArriveFacts DEF Transmitted, Behind, BehindIn
  <2>6. QED BY <1>0, <2>3, <2>4, <2>5
<1>3. CASE UNCHANGED air
  BY <1>0, <1>1, <1>2, <1>3, BeforeFacts
<1>4. CASE ProcessData /\ ~UNCHANGED air
  <2>1. /\ job # NULL /\ UNCHANGED accepted /\ Applied = Taken - 1
        /\ Len(air') = Len(air) + 1 /\ air'[Len(air) + 1] = <<job.seq, channel>>
        /\ \A k \in 1 .. Len(air) : air'[k] = air[k]
    BY <1>4, DataFacts
  <2>2. ASSUME NEW i \in 1 .. Len(accepted), CleanIn(accepted, i), job.seq = accepted[i].seq
        PROVE  BeforeIn(accepted, i, channel)
    <3>1. accepted[i].kind # "junk" /\ accepted[i].seq > 0
      BY <1>0, <2>2 DEF CleanIn, Numbered
    <3>2. Taken \in 1 .. Len(accepted) /\ accepted[Taken].seq = accepted[i].seq
      BY <2>1, <2>2, QueueFacts DEF Queued
    <3>3. accepted[Taken].kind # "junk"
      BY <3>1, <3>2 DEF Numbered
    <3>4. i = Taken
      BY <1>0, <3>1, <3>2, <3>3 DEF Numbered
    <3>5. CleanIn(accepted, Applied) /\ Applied + 1 = i
      BY <2>1, <2>2, <3>4, CleanJob
    <3>6. QED BY <3>5, BeforeFacts
  <2>3. ASSUME NEW i \in 1 .. Len(accepted'), CleanIn(accepted', i), NEW k \in 1 .. Len(air'),
               air'[k][1] = accepted'[i].seq
        PROVE  BeforeIn(accepted', i, air'[k][2])
    <3>1. CASE k \in 1 .. Len(air)
      BY <1>1, <2>1, <2>3, <3>1
    <3>2. CASE k = Len(air) + 1
      <4>1. air'[k][1] = job.seq /\ air'[k][2] = channel
        BY <2>1, <3>2
      <4>2. QED BY <2>1, <2>2, <2>3, <4>1
    <3>3. QED BY <1>0, <2>1, <3>1, <3>2
  <2>4. QED BY <2>3, BeforeFacts
<1>5. QED BY <1>3, <1>4, OtherThanData

-----------------------------------------------------------------------------
(* The theorems.                                                           *)

LEMMA InitIInv == Init => IInv
<1> SUFFICES ASSUME Init PROVE IInv
  OBVIOUS
<1> USE ConstantFacts DEF Init
<1>1. /\ Len(rx_queue) = 0 /\ Len(accepted) = 0 /\ Len(air) = 0
      /\ Stream = <<>> /\ Unwritten = <<>> /\ Len(Stream) = 0 /\ Len(Unwritten) = 0
  <2>1. Unwritten = <<>>
    BY ConcatEmptySeq, EmptySeq DEF Unwritten
  <2>2. Stream = <<>>
    BY <2>1, ConcatEmptySeq, EmptySeq DEF Stream
  <2>3. QED BY <2>1, <2>2, EmptySeq
<1>2. /\ rx_queue \in Seq(Commands) /\ accepted \in Seq(Commands)
      /\ tx_queue \in Seq(OutFrames) /\ host \in Seq(OutFrames)
      /\ air \in Seq((0 .. MaxCommands) \X Channels)
  BY EmptySeq
<1>3. mac_addr \in BOOLEAN
  BY Zenon
<1>4. TypeOK
  BY <1>2, <1>3 DEF TypeOK
<1>5. PoolsConserved
  <2>1. CountKind(Unwritten, {"radio"}) = 0 /\ CountKind(Unwritten, {"mac", "report"}) = 0
    BY <1>1, CountEmpty
  <2>2. One(job # NULL) = 0
    BY DEF One
  <2>3. QED BY <1>1, <2>1, <2>2 DEF PoolsConserved
<1>6. Booted /\ Numbered /\ Queued
  <2>1. One(job # NULL) = 0
    BY DEF One
  <2>2. QED BY <1>1, <2>1 DEF Booted, Numbered, Queued
<1>7. Transmitted /\ StatusOwn /\ StreamHonest /\ HostOrder
  BY <1>1 DEF Transmitted, StatusOwn, StreamHonest, HostOrder, Ascending
<1>8. Tuned /\ ChannelObeyed
  <2>1. Applied = 0
    BY <1>1 DEF Applied, Taken
  <2>2. ChannelBefore(Applied + 1, channel)
    BY <2>1 DEF ChannelBefore
  <2>3. QED BY <1>1, <2>2 DEF Tuned, ChannelObeyed
<1>9. QED BY <1>4, <1>5, <1>6, <1>7, <1>8 DEF IInv

LEMMA NextIInv ==
    ASSUME IInv, [Next]_vars
    PROVE  IInv'
<1>1. TypeOK' /\ PoolsConserved'
  BY NextTyped DEF IInv
<1>2. Booted' /\ Numbered' /\ Queued'
  BY NextBooted, NextNumbered, NextQueued DEF IInv
<1>3. Transmitted' /\ StatusOwn'
  BY <1>1, <1>2, NextTransmitted, NextStatus DEF IInv
<1>4. StreamHonest' /\ HostOrder'
  BY <1>1, <1>2, NextStream DEF IInv
<1>5. Tuned' /\ ChannelObeyed'
  BY NextTuned, NextChannel DEF IInv
<1>6. QED BY <1>1, <1>2, <1>3, <1>4, <1>5 DEF IInv

\* The commands, the transmissions, the frames on their way to the host and the two pools
\* fit together after every step of main, rx_thread, tx_thread, the driver and the line.
THEOREM Invariance == Spec => []IInv
<1>1. IInv /\ [Next]_vars => IInv'
  BY NextIInv
<1>2. QED BY InitIInv, <1>1, PTL DEF Spec

\* Every variable keeps its type; above all, neither pool ever holds more packets than it
\* has, and the status fits a byte.
THEOREM TypeCorrect == Spec => []TypeOK
<1>1. IInv => TypeOK
  BY DEF IInv
<1>2. QED BY Invariance, <1>1, PTL

\* Every packet of either pool is free or in exactly one place, and goes back to the pool
\* it came from.
THEOREM PoolsConservedHolds == Spec => []PoolsConserved
<1>1. IInv => PoolsConserved
  BY DEF IInv
<1>2. QED BY Invariance, <1>1, PTL

\* No reply and no radio frame overtakes another on its way to the host, or comes twice.
THEOREM HostOrderHolds == Spec => []HostOrder
<1>1. IInv => HostOrder
  BY DEF IInv
<1>2. QED BY Invariance, <1>1, PTL

\* A command is transmitted at most once, its report says what became of it, and no reply
\* carries the address before there is one.
THEOREM RepliesHonestHolds == Spec => []RepliesHonest
<1>1. IInv => RepliesHonest
  <2> SUFFICES ASSUME IInv PROVE RepliesHonest
    OBVIOUS
  <2>1. \A i, j \in 1 .. Len(air) : i < j /\ air[i][1] > 0 /\ air[j][1] > 0 =>
           air[i][1] < air[j][1]
    BY DEF IInv, Transmitted
  <2>2. ASSUME NEW k \in 1 .. Len(Stream)
        PROVE  /\ Stream[k].kind = "report" /\ Stream[k].n > 0 =>
                     (Stream[k].value = 0 <=> \E i \in 1 .. Len(air) : air[i][1] = Stream[k].n)
               /\ Stream[k].kind = "mac" => Stream[k].value = 1
    <3>1. Honest(Stream[k])
      BY <2>2 DEF IInv, StreamHonest
    <3>2. QED BY <3>1 DEF Honest, HonestIn, Sent
  <2>3. QED BY <2>1, <2>2 DEF RepliesHonest
<1>2. QED BY Invariance, <1>1, PTL

\* A frame goes out on the channel that the host selected last before it.
THEOREM ChannelObeyedHolds == Spec => []ChannelObeyed
<1>1. IInv => ChannelObeyed
  BY DEF IInv
<1>2. QED BY Invariance, <1>1, PTL
=============================================================================
