-------------------------- MODULE BlePingPongProofs -------------------------
(***************************************************************************)
(* Proofs about BlePingPong, for any number of devices, connections and    *)
(* failing starts.                                                         *)
(***************************************************************************)
EXTENDS BlePingPong, SequenceTheorems, WellFoundedInduction, TLAPS

Messages == [kind : Kinds, link : LinkIds]

-----------------------------------------------------------------------------
(* The inductive invariant.                                                *)

RxAt(d) == at[d]["rx"]
Finding == {"found_scan", "found_adv", "create"}
Serving == {"conn_adv", "conn_scan"}

\* d is an end of connection l, among the connections ln.
Belongs(ln, d, l) == l \in DOMAIN ln /\ d \in {ln[l].central, ln[l].peripheral}

\* No device is connected to itself.
Peers ==
    /\ Len(links) <= MaxLinks
    /\ \A l \in DOMAIN links : links[l].central # links[l].peripheral
    /\ \A d \in Devices :
        /\ init[d] # d
        /\ RxAt(d) \in Finding => job[d].peer \in Devices \ {d}

\* An event x of d is about a connection of d, one that is up if x needs the channel.
Valid(ln, d, x) ==
    /\ x.link # 0 => Belongs(ln, d, x.link)
    /\ x.kind # "connected" => x.link # 0
    /\ x.kind = "accept" => d = ln[x.link].peripheral
    /\ x.kind \in {"accept", "open", "ping", "pong"} => ln[x.link].up

Owned ==
    \A d \in Devices :
        /\ \A i \in 1 .. Len(rxq[d]) : Valid(links, d, rxq[d][i])
        /\ \A i \in 1 .. Len(wqq[d]) : Belongs(links, d, wqq[d][i])
        /\ job[d].link # 0 => Belongs(links, d, job[d].link)
        /\ default_conn[d] # 0 => Belongs(links, d, default_conn[d])
        /\ le_chan[d] # 0 => Belongs(links, d, le_chan[d])

Told(d, kind, l) == \E i \in 1 .. Len(rxq[d]) : rxq[d][i].kind = kind /\ rxq[d][i].link = l
Left(d, l) == \E i \in 1 .. Len(wqq[d]) : wqq[d][i] = l

\* A device hears of a connection's end after it has heard of the connection; until it
\* has, disconnected_cb does not run for it.
Ordered ==
    \A d \in Devices :
        /\ \A i, j \in 1 .. Len(rxq[d]) :
              /\ rxq[d][i].kind = "disconnected" /\ rxq[d][j].kind = "connected"
              /\ rxq[d][j].link = rxq[d][i].link
              => j < i
        /\ \A l \in DOMAIN links : Told(d, "connected", l) =>
              ~Left(d, l) /\ (Up(l) \/ Told(d, "disconnected", l))
        /\ RxAt(d) \in Serving /\ job[d].link # 0 =>
              ~Left(d, job[d].link) /\ (overlap[d] \/ default_conn[d] = job[d].link)

\* A connection that is referred to is up, or the event that clears the reference is
\* on its way.
Tracked ==
    \A d \in Devices :
        /\ default_conn[d] # 0 =>
              \/ Up(default_conn[d]) \/ Told(d, "disconnected", default_conn[d])
              \/ Left(d, default_conn[d])
        /\ le_chan[d] # 0 => Up(le_chan[d]) \/ Told(d, "disconnected", le_chan[d])

\* What is_scanning says is so, and one thread at a time is about to set it.
ScanTrue ==
    \A d \in Devices :
        /\ is_scanning[d] => scan[d]
        /\ \A t \in Threads : at[d][t] = "scanset" =>
              /\ scan[d] /\ ~is_scanning[d]
              /\ \A u \in Threads : at[d][u] = "scanset" => t = u

\* A device scans, or will, or has a connection or an answer to wait for.
Busy(d) ==
    \/ \E t \in Threads : at[d][t] \in {"adv", "advset", "scan"}
    \/ RxAt(d) \in {"found_adv", "create", "conn_adv", "conn_scan"}
Expects(d) ==
    \/ init[d] # NoDevice \/ default_conn[d] # 0
    \/ \E i \in 1 .. Len(rxq[d]) : rxq[d][i].kind = "connected"
Awake == \A d \in Devices : fails = 0 => overlap[d] \/ scan[d] \/ Busy(d) \/ Expects(d)

\* An event that is the ball of l or will become it.
Token(ln, d, x, l) ==
    /\ x.link = l
    /\ \/ x.kind \in {"accept", "ping", "pong"}
       \/ x.kind \in {"connected", "open"} /\ ln[l].central = d
InHand(d, l) ==
    RxAt(d) \in Serving \cup {"chan"} /\ job[d].link = l /\ links[l].central = d

OneToken ==
    \A l \in DOMAIN links, d, e \in Devices :
        \A i \in 1 .. Len(rxq[d]) : Token(links, d, rxq[d][i], l) =>
            /\ ~InHand(e, l)
            /\ \A j \in 1 .. Len(rxq[e]) : Token(links, e, rxq[e][j], l) => d = e /\ i = j

ChanIsCentral ==
    \A d \in Devices : RxAt(d) = "chan" =>
        job[d].link # 0 /\ links[job[d].link].central = d

IInv ==
    /\ TypeOK /\ Peers /\ Owned /\ Ordered /\ Tracked /\ ScanTrue /\ Awake /\ OneToken
    /\ ChanIsCentral


-----------------------------------------------------------------------------
(* Induction over the numbers: a set that has 0 and the successor of each  *)
(* of its members has all of them.                                         *)

LEMMA SetInduction ==
    ASSUME NEW T \in SUBSET Nat, 0 \in T, \A n \in Nat : n \in T => n + 1 \in T
    PROVE  T = Nat
<1> DEFINE less == {ss \in Nat \X Nat : ss[1] < ss[2]}
           rest == Nat \ T
<1>1. SUFFICES ASSUME rest # {} PROVE FALSE
  OBVIOUS
<1>2. IsWellFoundedOn(less, Nat)
  BY NatLessThanWellFounded DEF OpToRel
<1>3. PICK x \in rest : \A y \in rest : <<y, x>> \notin less
  BY <1>1, <1>2, WFMin
<1>4. x # 0 /\ x \in Nat
  OBVIOUS
<1>5. x - 1 \in Nat /\ x - 1 < x
  BY <1>4
<1>6. <<x - 1, x>> \in less
  BY <1>4, <1>5
<1>7. x - 1 \in T
  BY <1>3, <1>5, <1>6
<1>8. (x - 1) + 1 \in T
  BY <1>5, <1>7
<1>9. QED BY <1>4, <1>8

-----------------------------------------------------------------------------
(* How a queue comes from another.                                         *)

\* The entry at i of t is that at a of s, and a is not dropped; or a is 0 and it is new.
From(t, s, D, N, i, a) ==
    (a = 0 /\ t[i] \in N) \/ (a \in (1 .. Len(s)) \ D /\ t[i] = s[a])

\* t has the entries of s in their order, but for those at the places D, and at most one
\* of N behind them. Stated for pairs of entries: each pair of t comes from one of s, and
\* each pair of s that is not dropped is in t.
Derived(t, s, D, N) ==
    /\ \A i, j \in 1 .. Len(t) : \E a, b \in 0 .. Len(s) :
          /\ From(t, s, D, N, i, a) /\ From(t, s, D, N, j, b)
          /\ i < j => a # 0 /\ (b = 0 \/ a < b)
    /\ \A a, b \in (1 .. Len(s)) \ D : \E i, j \in 1 .. Len(t) :
          t[i] = s[a] /\ t[j] = s[b] /\ (a < b => i < j)
    /\ \A x \in N : \E j \in 1 .. Len(t) :
          t[j] = x /\ \A a \in (1 .. Len(s)) \ D : \E i \in 1 .. Len(t) : i < j /\ t[i] = s[a]

LEMMA DerivedSame ==
    ASSUME NEW S, NEW s \in Seq(S)
    PROVE  Derived(s, s, {}, {})
<1>1. Len(s) \in Nat
  BY LenProperties
<1>2. QED BY <1>1 DEF Derived, From

LEMMA DerivedTail ==
    ASSUME NEW S, NEW s \in Seq(S), s # <<>>
    PROVE  Derived(Tail(s), s, {1}, {})
<1>1. /\ Len(s) \in Nat /\ Len(Tail(s)) = Len(s) - 1 /\ Len(s) > 0
      /\ \A i \in 1 .. Len(Tail(s)) : Tail(s)[i] = s[i + 1]
  BY HeadTailProperties, EmptySeq, LenProperties
<1>2. \A i \in 1 .. Len(Tail(s)) : From(Tail(s), s, {1}, {}, i, i + 1) /\ i + 1 \in 0 .. Len(s)
  BY <1>1 DEF From
<1>3. \A a \in (1 .. Len(s)) \ {1} : a - 1 \in 1 .. Len(Tail(s)) /\ Tail(s)[a - 1] = s[a]
  BY <1>1
<1>4. ASSUME NEW i \in 1 .. Len(Tail(s)), NEW j \in 1 .. Len(Tail(s))
      PROVE  \E a, b \in 0 .. Len(s) :
                /\ From(Tail(s), s, {1}, {}, i, a) /\ From(Tail(s), s, {1}, {}, j, b)
                /\ i < j => a # 0 /\ (b = 0 \/ a < b)
  <2>1. i < j => i + 1 # 0 /\ i + 1 < j + 1
    BY <1>1
  <2>2. QED BY <1>2, <2>1
<1>5. ASSUME NEW a \in (1 .. Len(s)) \ {1}, NEW b \in (1 .. Len(s)) \ {1}
      PROVE  \E i, j \in 1 .. Len(Tail(s)) :
                Tail(s)[i] = s[a] /\ Tail(s)[j] = s[b] /\ (a < b => i < j)
  <2>1. a < b => a - 1 < b - 1
    BY <1>1
  <2>2. QED BY <1>3, <2>1
<1>6. QED BY <1>4, <1>5 DEF Derived

\* An entry more, whatever was dropped before.
LEMMA DerivedAppend ==
    ASSUME NEW S, NEW s \in Seq(S), NEW t \in Seq(S), NEW D, Derived(t, s, D, {}), NEW x \in S
    PROVE  Derived(Append(t, x), s, D, {x})
<1> DEFINE u == Append(t, x)
<1>1. /\ Len(s) \in Nat /\ Len(t) \in Nat /\ Len(u) = Len(t) + 1
      /\ \A i \in 1 .. Len(t) : u[i] = t[i]
      /\ u[Len(t) + 1] = x
  BY AppendProperties, LenProperties
<1> HIDE DEF u
<1>2. \A i, j \in 1 .. Len(t) : \E a, b \in 0 .. Len(s) :
          /\ From(t, s, D, {}, i, a) /\ From(t, s, D, {}, j, b)
          /\ i < j => a # 0 /\ (b = 0 \/ a < b)
  BY DEF Derived
<1>3. \A i \in 1 .. Len(t), a \in 0 .. Len(s) :
          From(t, s, D, {}, i, a) => From(u, s, D, {x}, i, a) /\ a # 0
  BY <1>1 DEF From
<1>4. From(u, s, D, {x}, Len(t) + 1, 0) /\ 0 \in 0 .. Len(s)
  BY <1>1 DEF From
<1>5. \A i \in 1 .. Len(u) : i \in 1 .. Len(t) \/ i = Len(t) + 1
  BY <1>1
<1>6. ASSUME NEW i \in 1 .. Len(u), NEW j \in 1 .. Len(u)
      PROVE  \E a, b \in 0 .. Len(s) :
                /\ From(u, s, D, {x}, i, a) /\ From(u, s, D, {x}, j, b)
                /\ i < j => a # 0 /\ (b = 0 \/ a < b)
  <2>1. CASE i \in 1 .. Len(t) /\ j \in 1 .. Len(t)
    BY <1>2, <1>3, <2>1
  <2>2. CASE i \in 1 .. Len(t) /\ j = Len(t) + 1
    BY <1>2, <1>3, <1>4, <2>2
  <2>3. CASE i = Len(t) + 1 /\ j \in 1 .. Len(t)
    <3>1. ~(i < j)
      BY <1>1, <2>3
    <3>2. QED BY <1>2, <1>3, <1>4, <2>3, <3>1
  <2>4. CASE i = Len(t) + 1 /\ j = Len(t) + 1
    BY <1>1, <1>4, <2>4
  <2>5. QED BY <1>5, <2>1, <2>2, <2>3, <2>4
<1>7. \A a, b \in (1 .. Len(s)) \ D : \E i, j \in 1 .. Len(t) :
          t[i] = s[a] /\ t[j] = s[b] /\ (a < b => i < j)
  BY DEF Derived
<1>8. \A i \in 1 .. Len(t) : i \in 1 .. Len(u) /\ i < Len(t) + 1
  BY <1>1
<1>9. \A a, b \in (1 .. Len(s)) \ D : \E i, j \in 1 .. Len(u) :
          u[i] = s[a] /\ u[j] = s[b] /\ (a < b => i < j)
  <2>1. SUFFICES ASSUME NEW a \in (1 .. Len(s)) \ D, NEW b \in (1 .. Len(s)) \ D
                 PROVE  \E i, j \in 1 .. Len(u) :
                           u[i] = s[a] /\ u[j] = s[b] /\ (a < b => i < j)
    OBVIOUS
  <2>2. PICK i, j \in 1 .. Len(t) : t[i] = s[a] /\ t[j] = s[b] /\ (a < b => i < j)
    BY <1>7
  <2>3. i \in 1 .. Len(u) /\ j \in 1 .. Len(u) /\ u[i] = t[i] /\ u[j] = t[j]
    BY <1>1, <1>8
  <2>4. QED BY <2>2, <2>3
<1>10. Len(t) + 1 \in 1 .. Len(u)
  BY <1>1
<1>11. \A a \in (1 .. Len(s)) \ D : \E i \in 1 .. Len(u) : i < Len(t) + 1 /\ u[i] = s[a]
  BY <1>1, <1>7, <1>8
<1>12. \A y \in {x} : \E j \in 1 .. Len(u) :
          u[j] = y /\ \A a \in (1 .. Len(s)) \ D : \E i \in 1 .. Len(u) : i < j /\ u[i] = s[a]
  BY <1>1, <1>10, <1>11
<1>13. QED BY <1>6, <1>9, <1>12 DEF Derived, u

-----------------------------------------------------------------------------
(* Remaining: what its recursive function computes, by induction.          *)

Stays(s, l) == {a \in 1 .. Len(s) : s[a].link # l \/ s[a].kind = "connected"}
Goes(s, l) == (1 .. Len(s)) \ Stays(s, l)

LEMMA RemainingRecursion ==
    ASSUME NEW s \in Seq(Messages), NEW l
    PROVE  \E f : /\ f = [n \in 0 .. Len(s) |->
                            IF n = 0 THEN <<>>
                            ELSE IF s[n].link # l \/ s[n].kind = "connected"
                                 THEN Append(f[n - 1], s[n])
                            ELSE f[n - 1]]
                  /\ Remaining(s, l) = f[Len(s)]
<1> DEFINE Value(f, n) == IF n = 0 THEN <<>>
                          ELSE IF s[n].link # l \/ s[n].kind = "connected"
                               THEN Append(f[n - 1], s[n])
                          ELSE f[n - 1]
           Solves(f, m) == f = [n \in 0 .. m |-> Value(f, n)]
           T == {m \in Nat : \E f : Solves(f, m)}
<1>1. 0 \in T
  <2>1. Solves([n \in 0 .. 0 |-> <<>>], 0)
    OBVIOUS
  <2>2. QED BY <2>1
<1>2. ASSUME NEW m \in Nat, m \in T PROVE m + 1 \in T
  <2>1. PICK f : Solves(f, m)
    BY <1>2
  <2> DEFINE g == [n \in 0 .. m + 1 |-> IF n = m + 1 THEN Value(f, m + 1) ELSE f[n]]
  <2>2. \A n \in 0 .. m : f[n] = Value(f, n) /\ n \in 0 .. m + 1 /\ n # m + 1
    <3> HIDE DEF Value
    <3>1. f = [n \in 0 .. m |-> Value(f, n)]
      BY <2>1
    <3>2. ASSUME NEW n \in 0 .. m PROVE f[n] = Value(f, n)
      <4> DEFINE h == [k \in 0 .. m |-> Value(f, k)]
      <4>1. h[n] = Value(f, n) /\ f = h
        BY <3>1
      <4> HIDE DEF h
      <4>2. QED BY <4>1
    <3>3. QED BY <3>2
  <2>3. \A n \in 0 .. m + 1 : n # 0 => n - 1 \in 0 .. m
    OBVIOUS
  <2>4. \A n \in 0 .. m : g[n] = f[n]
    BY <2>2
  <2>5. \A n \in 0 .. m + 1 : Value(g, n) = Value(f, n)
    BY <2>3, <2>4
  <2>6. \A n \in 0 .. m + 1 : g[n] = Value(f, n)
    BY <2>2
  <2>7. g = [n \in 0 .. m + 1 |-> Value(g, n)]
    <3> HIDE DEF Value
    <3>1. DOMAIN g = 0 .. m + 1
      OBVIOUS
    <3>2. g = [n \in 0 .. m + 1 |-> g[n]]
      BY <3>1
    <3> HIDE DEF g
    <3>3. \A n \in 0 .. m + 1 : g[n] = Value(g, n)
      BY <2>5, <2>6
    <3>4. [n \in 0 .. m + 1 |-> g[n]] = [n \in 0 .. m + 1 |-> Value(g, n)]
      BY <3>3
    <3>5. QED BY <3>2, <3>4
  <2>8. Solves(g, m + 1)
    BY <2>7
  <2> HIDE DEF Solves, g
  <2>9. QED BY <2>8
<1>3. T = Nat
  <2> HIDE DEF Solves
  <2>1. T \in SUBSET Nat
    OBVIOUS
  <2> HIDE DEF T
  <2>2. QED BY <1>1, <1>2, <2>1, SetInduction
<1>4. Len(s) \in Nat
  BY LenProperties
<1>5. \E f : Solves(f, Len(s))
  BY <1>3, <1>4
<1>6. Remaining(s, l) = (CHOOSE f : Solves(f, Len(s)))[Len(s)]
  BY DEF Remaining
<1>7. Solves(CHOOSE f : Solves(f, Len(s)), Len(s))
  <2> HIDE DEF Solves
  <2>1. QED BY <1>5, Zenon
<1>8. QED BY <1>6, <1>7

\* t has the entries of s at the places K up to n, in their order.
Chosen(t, s, K, n) ==
    /\ t \in Seq(Messages)
    /\ \A i, j \in 1 .. Len(t) : \E a, b \in 1 .. n :
          {a, b} \subseteq K /\ t[i] = s[a] /\ t[j] = s[b] /\ (i < j => a < b)
    /\ \A a, b \in 1 .. n : {a, b} \subseteq K => \E i, j \in 1 .. Len(t) :
          t[i] = s[a] /\ t[j] = s[b] /\ (a < b => i < j)

LEMMA ChosenNext ==
    ASSUME NEW s \in Seq(Messages), NEW K, NEW n \in Nat, n + 1 <= Len(s), NEW t, Chosen(t, s, K, n)
    PROVE  /\ n + 1 \notin K => Chosen(t, s, K, n + 1)
           /\ n + 1 \in K => Chosen(Append(t, s[n + 1]), s, K, n + 1)
<1>0. /\ Len(s) \in Nat /\ n + 1 \in 1 .. Len(s) /\ s[n + 1] \in Messages
      /\ t \in Seq(Messages) /\ Len(t) \in Nat
      /\ \A a \in 1 .. n + 1 : a \in 1 .. n \/ a = n + 1
      /\ \A a \in 1 .. n : a \in 1 .. n + 1 /\ a # n + 1
      /\ \A a \in 1 .. n : a < n + 1 /\ ~(n + 1 < a)
  BY LenProperties DEF Chosen
<1>1. \A i, j \in 1 .. Len(t) : \E a, b \in 1 .. n :
          {a, b} \subseteq K /\ t[i] = s[a] /\ t[j] = s[b] /\ (i < j => a < b)
  BY DEF Chosen
<1>2. \A a, b \in 1 .. n : {a, b} \subseteq K => \E i, j \in 1 .. Len(t) :
          t[i] = s[a] /\ t[j] = s[b] /\ (a < b => i < j)
  BY DEF Chosen
<1>a. \A i \in 1 .. Len(t) : \E a \in 1 .. n : a \in K /\ t[i] = s[a]
  <2> TAKE i \in 1 .. Len(t)
  <2>1. PICK a, b \in 1 .. n : {a, b} \subseteq K /\ t[i] = s[a] /\ t[i] = s[b]
    BY <1>1, ZenonT(30)
  <2>2. QED BY <2>1
<1>b. \A a \in 1 .. n : a \in K => \E i \in 1 .. Len(t) : t[i] = s[a]
  <2> SUFFICES ASSUME NEW a \in 1 .. n, a \in K PROVE \E i \in 1 .. Len(t) : t[i] = s[a]
    OBVIOUS
  <2>1. {a, a} \subseteq K
    OBVIOUS
  <2>2. PICK i, j \in 1 .. Len(t) : t[i] = s[a] /\ t[j] = s[a]
    BY <1>2, <2>1, Zenon
  <2>3. QED BY <2>2, Zenon
<1>3. ASSUME n + 1 \notin K PROVE Chosen(t, s, K, n + 1)
  <2>1. \A i, j \in 1 .. Len(t) : \E a, b \in 1 .. n + 1 :
          {a, b} \subseteq K /\ t[i] = s[a] /\ t[j] = s[b] /\ (i < j => a < b)
    <3> SUFFICES ASSUME NEW i \in 1 .. Len(t), NEW j \in 1 .. Len(t)
                 PROVE  \E a, b \in 1 .. n + 1 :
                            {a, b} \subseteq K /\ t[i] = s[a] /\ t[j] = s[b] /\ (i < j => a < b)
      OBVIOUS
    <3>1. PICK a, b \in 1 .. n :
              {a, b} \subseteq K /\ t[i] = s[a] /\ t[j] = s[b] /\ (i < j => a < b)
      BY <1>1, Zenon
    <3>2. a \in 1 .. n + 1 /\ b \in 1 .. n + 1
      BY <1>0
    <3>3. QED BY <3>1, <3>2
  <2>2. \A a, b \in 1 .. n + 1 : {a, b} \subseteq K => a \in 1 .. n /\ b \in 1 .. n
    BY <1>0, <1>3
  <2>3. QED BY <1>0, <1>2, <2>1, <2>2 DEF Chosen
<1>4. ASSUME n + 1 \in K PROVE Chosen(Append(t, s[n + 1]), s, K, n + 1)
  <2> DEFINE u == Append(t, s[n + 1])
  <2>1. /\ u \in Seq(Messages) /\ Len(u) = Len(t) + 1
        /\ \A i \in 1 .. Len(t) : u[i] = t[i]
        /\ u[Len(t) + 1] = s[n + 1]
    BY <1>0, AppendProperties
  <2> HIDE DEF u
  <2>2. /\ \A i \in 1 .. Len(u) : i \in 1 .. Len(t) \/ i = Len(t) + 1
        /\ \A i \in 1 .. Len(t) : i \in 1 .. Len(u) /\ i < Len(t) + 1 /\ ~(Len(t) + 1 < i)
        /\ Len(t) + 1 \in 1 .. Len(u) /\ n + 1 \in 1 .. n + 1
        /\ ~(n + 1 < n + 1) /\ ~(Len(t) + 1 < Len(t) + 1)
    BY <1>0, <2>1
  <2>3. ASSUME NEW i \in 1 .. Len(u), NEW j \in 1 .. Len(u)
        PROVE  \E a, b \in 1 .. n + 1 :
                  {a, b} \subseteq K /\ u[i] = s[a] /\ u[j] = s[b] /\ (i < j => a < b)
    <3>1. CASE i \in 1 .. Len(t) /\ j \in 1 .. Len(t)
      <4>1. PICK a, b \in 1 .. n :
                {a, b} \subseteq K /\ t[i] = s[a] /\ t[j] = s[b] /\ (i < j => a < b)
        BY <1>1, <3>1, Zenon
      <4>2. QED BY <1>0, <2>1, <3>1, <4>1
    <3>2. CASE i \in 1 .. Len(t) /\ j = Len(t) + 1
      <4>1. PICK a \in 1 .. n : a \in K /\ t[i] = s[a]
        BY <1>a, <3>2, Zenon
      <4>2. a \in 1 .. n + 1 /\ {a, n + 1} \subseteq K /\ u[i] = s[a] /\ u[j] = s[n + 1]
            /\ a < n + 1
        BY <1>0, <1>4, <2>1, <3>2, <4>1
      <4>3. QED BY <2>2, <4>2
    <3>3. CASE i = Len(t) + 1 /\ j \in 1 .. Len(t)
      <4>1. PICK a \in 1 .. n : a \in K /\ t[j] = s[a]
        BY <1>a, <3>3, Zenon
      <4>2. a \in 1 .. n + 1 /\ {n + 1, a} \subseteq K /\ u[j] = s[a] /\ u[i] = s[n + 1]
            /\ ~(i < j)
        BY <1>0, <1>4, <2>1, <2>2, <3>3, <4>1
      <4>3. QED BY <2>2, <4>2
    <3>4. CASE i = Len(t) + 1 /\ j = Len(t) + 1
      BY <1>4, <2>1, <2>2, <3>4
    <3>5. QED BY <2>2, <3>1, <3>2, <3>3, <3>4
  <2>4. ASSUME NEW a \in 1 .. n + 1, NEW b \in 1 .. n + 1, {a, b} \subseteq K
        PROVE  \E i, j \in 1 .. Len(u) : u[i] = s[a] /\ u[j] = s[b] /\ (a < b => i < j)
    <3>1. CASE a \in 1 .. n /\ b \in 1 .. n
      <4>1. PICK i, j \in 1 .. Len(t) : t[i] = s[a] /\ t[j] = s[b] /\ (a < b => i < j)
        BY <1>2, <2>4, <3>1, Zenon
      <4>2. QED BY <2>1, <2>2, <4>1
    <3>2. CASE a \in 1 .. n /\ b = n + 1
      <4>1. PICK i \in 1 .. Len(t) : t[i] = s[a]
        BY <1>b, <2>4, <3>2
      <4>2. i \in 1 .. Len(u) /\ u[i] = s[a] /\ u[Len(t) + 1] = s[b] /\ i < Len(t) + 1
        BY <2>1, <2>2, <3>2, <4>1
      <4>3. QED BY <2>2, <4>2
    <3>3. CASE a = n + 1 /\ b \in 1 .. n
      <4>1. PICK i \in 1 .. Len(t) : t[i] = s[b]
        BY <1>b, <2>4, <3>3
      <4>2. i \in 1 .. Len(u) /\ u[i] = s[b] /\ u[Len(t) + 1] = s[a] /\ ~(a < b)
        BY <1>0, <2>1, <2>2, <3>3, <4>1
      <4>3. QED BY <2>2, <4>2
    <3>4. CASE a = n + 1 /\ b = n + 1
      BY <2>1, <2>2, <3>4
    <3>5. QED BY <1>0, <3>1, <3>2, <3>3, <3>4
  <2>5. Chosen(u, s, K, n + 1)
    BY <2>1, <2>3, <2>4 DEF Chosen
  <2>6. QED BY <2>5 DEF u
<1>5. QED BY <1>3, <1>4

LEMMA RemainingFacts ==
    ASSUME NEW s \in Seq(Messages), NEW l
    PROVE  /\ Remaining(s, l) \in Seq(Messages)
           /\ Derived(Remaining(s, l), s, Goes(s, l), {})
<1> DEFINE K == Stays(s, l)
<1>1. Len(s) \in Nat
  BY LenProperties
<1>2. PICK f : /\ f = [n \in 0 .. Len(s) |->
                         IF n = 0 THEN <<>>
                         ELSE IF s[n].link # l \/ s[n].kind = "connected"
                              THEN Append(f[n - 1], s[n])
                         ELSE f[n - 1]]
               /\ Remaining(s, l) = f[Len(s)]
  BY RemainingRecursion
<1>3. f[0] = <<>>
  BY <1>1, <1>2
<1>4. \A n \in Nat : n + 1 <= Len(s) =>
          f[n + 1] = IF n + 1 \in K THEN Append(f[n], s[n + 1]) ELSE f[n]
  <2>1. SUFFICES ASSUME NEW n \in Nat, n + 1 <= Len(s)
                 PROVE  f[n + 1] = IF n + 1 \in K THEN Append(f[n], s[n + 1]) ELSE f[n]
    OBVIOUS
  <2>2. n + 1 \in 0 .. Len(s) /\ n + 1 # 0 /\ (n + 1) - 1 = n /\ n + 1 \in 1 .. Len(s)
    BY <1>1, <2>1
  <2>3. f[n + 1] = IF s[n + 1].link # l \/ s[n + 1].kind = "connected"
                   THEN Append(f[n], s[n + 1]) ELSE f[n]
    BY <1>2, <2>2
  <2>4. n + 1 \in K <=> s[n + 1].link # l \/ s[n + 1].kind = "connected"
    BY <2>2 DEF Stays
  <2>5. QED BY <2>3, <2>4
<1> DEFINE T == {n \in Nat : n <= Len(s) => Chosen(f[n], s, K, n)}
<1> HIDE DEF K
<1>5. 0 \in T
  <2>1. <<>> \in Seq(Messages) /\ Len(<<>>) = 0
    BY EmptySeq
  <2>2. Chosen(<<>>, s, K, 0)
    BY <2>1 DEF Chosen
  <2>3. QED BY <1>3, <2>2
<1>6. ASSUME NEW n \in Nat, n \in T PROVE n + 1 \in T
  <2>1. SUFFICES ASSUME n + 1 <= Len(s) PROVE Chosen(f[n + 1], s, K, n + 1)
    OBVIOUS
  <2>2. Chosen(f[n], s, K, n)
    BY <1>1, <1>6, <2>1
  <2>3. QED BY <1>4, <2>1, <2>2, ChosenNext
<1>7. T = Nat
  <2>1. T \in SUBSET Nat
    OBVIOUS
  <2> HIDE DEF T
  <2>2. QED BY <1>5, <1>6, <2>1, SetInduction
<1>8. Chosen(Remaining(s, l), s, K, Len(s))
  <2>1. Remaining(s, l) = f[Len(s)]
    BY <1>2
  <2>2. Len(s) \in T
    BY <1>1, <1>7
  <2>3. Chosen(f[Len(s)], s, K, Len(s))
    BY <1>1, <2>2
  <2>4. QED BY <2>1, <2>3
<1> DEFINE t == Remaining(s, l)
           D == Goes(s, l)
<1>9. K \subseteq 1 .. Len(s) /\ D = (1 .. Len(s)) \ K
  BY DEF K, Stays, Goes
<1> HIDE DEF t, D
<1>10. t \in Seq(Messages)
  BY <1>8 DEF Chosen, t
<1>11. ASSUME NEW i \in 1 .. Len(t), NEW j \in 1 .. Len(t)
       PROVE  \E a, b \in 0 .. Len(s) :
                 /\ From(t, s, D, {}, i, a) /\ From(t, s, D, {}, j, b)
                 /\ i < j => a # 0 /\ (b = 0 \/ a < b)
  <2>1. PICK a, b \in 1 .. Len(s) :
            {a, b} \subseteq K /\ t[i] = s[a] /\ t[j] = s[b] /\ (i < j => a < b)
    BY <1>8 DEF Chosen, t
  <2>2. a \in (1 .. Len(s)) \ D /\ b \in (1 .. Len(s)) \ D
    BY <1>9, <2>1
  <2>3. From(t, s, D, {}, i, a) /\ From(t, s, D, {}, j, b)
    BY <2>1, <2>2 DEF From
  <2>4. a # 0 /\ b # 0 /\ a \in 0 .. Len(s) /\ b \in 0 .. Len(s)
    BY <1>1
  <2>5. QED BY <2>1, <2>3, <2>4
<1>12. \A a, b \in (1 .. Len(s)) \ D : \E i, j \in 1 .. Len(t) :
          t[i] = s[a] /\ t[j] = s[b] /\ (a < b => i < j)
  <2>1. \A a \in (1 .. Len(s)) \ D : a \in 1 .. Len(s) /\ a \in K
    BY <1>9
  <2>2. QED BY <1>8, <2>1 DEF Chosen, t
<1>13. QED BY <1>10, <1>11, <1>12 DEF Derived, t, D

-----------------------------------------------------------------------------
(* Types.                                                                  *)

LEMMA ConstantFacts ==
    NoDevice \notin Devices /\ MaxLinks \in Nat /\ MaxFails \in Nat
BY BleAssumption

LEMMA GotoFacts ==
    ASSUME TypeOK, NEW d \in Devices, NEW t \in Threads, NEW to \in Places, Goto(d, t, to)
    PROVE  /\ at' \in [Devices -> [Threads -> Places]]
           /\ \A e \in Devices, u \in Threads :
                 at'[e][u] = IF e = d /\ u = t THEN to ELSE at[e][u]
BY DEF TypeOK, Goto

LEMMA QueueFacts ==
    ASSUME TypeOK, NEW d \in Devices
    PROVE  /\ rxq[d] \in Seq(Messages) /\ Len(rxq[d]) \in Nat
           /\ wqq[d] \in Seq(LinkIds) /\ Len(wqq[d]) \in Nat
           /\ \A i \in 1 .. Len(rxq[d]) : rxq[d][i] \in Messages
           /\ \A i \in 1 .. Len(wqq[d]) : wqq[d][i] \in LinkIds
           /\ DOMAIN rxq[d] = 1 .. Len(rxq[d]) /\ DOMAIN wqq[d] = 1 .. Len(wqq[d])
           /\ DOMAIN links = 1 .. Len(links) /\ Len(links) \in Nat
           /\ \A x \in Messages : Append(rxq[d], x) \in Seq(Messages)
           /\ rxq[d] # <<>> => /\ Tail(rxq[d]) \in Seq(Messages)
                               /\ Head(rxq[d]) \in Messages /\ Head(rxq[d]) = rxq[d][1]
                               /\ 1 \in 1 .. Len(rxq[d])
           /\ wqq[d] # <<>> => /\ Tail(wqq[d]) \in Seq(LinkIds)
                               /\ Head(wqq[d]) \in LinkIds /\ Head(wqq[d]) = wqq[d][1]
<1>1. /\ rxq[d] \in Seq(Messages) /\ wqq[d] \in Seq(LinkIds)
      /\ links \in Seq([central : Devices, peripheral : Devices, up : BOOLEAN])
  BY DEF TypeOK, Messages
<1>2. /\ Len(rxq[d]) \in Nat /\ Len(wqq[d]) \in Nat /\ Len(links) \in Nat
      /\ DOMAIN rxq[d] = 1 .. Len(rxq[d]) /\ DOMAIN wqq[d] = 1 .. Len(wqq[d])
      /\ DOMAIN links = 1 .. Len(links)
      /\ \A i \in 1 .. Len(rxq[d]) : rxq[d][i] \in Messages
      /\ \A i \in 1 .. Len(wqq[d]) : wqq[d][i] \in LinkIds
  BY <1>1, LenProperties
<1>3. \A x \in Messages : Append(rxq[d], x) \in Seq(Messages)
  BY <1>1, AppendProperties
<1>4. rxq[d] # <<>> => /\ Tail(rxq[d]) \in Seq(Messages) /\ Head(rxq[d]) \in Messages
                       /\ Head(rxq[d]) = rxq[d][1] /\ 1 \in 1 .. Len(rxq[d])
  BY <1>1, HeadTailProperties, EmptySeq, LenProperties
<1>5. wqq[d] # <<>> => /\ Tail(wqq[d]) \in Seq(LinkIds) /\ Head(wqq[d]) \in LinkIds
                       /\ Head(wqq[d]) = wqq[d][1]
  BY <1>1, HeadTailProperties, EmptySeq, LenProperties
<1>6. QED BY <1>1, <1>2, <1>3, <1>4, <1>5

\* The event at the head of the queue, and what is behind it.
LEMMA EventFacts ==
    ASSUME TypeOK, NEW d \in Devices, NEW kind, NEW l, Event(d, kind, l)
    PROVE  /\ rxq[d] # <<>> /\ at[d]["rx"] = "idle"
           /\ rxq[d][1] = [kind |-> kind, link |-> l] /\ 1 \in 1 .. Len(rxq[d])
           /\ kind \in Kinds /\ l \in LinkIds
<1>1. /\ rxq[d] # <<>> /\ at[d]["rx"] = "idle" /\ Head(rxq[d]) = [kind |-> kind, link |-> l]
  BY DEF Event, At
<1>2. [kind |-> kind, link |-> l] \in Messages
  BY <1>1, QueueFacts
<1>3. kind \in Kinds /\ l \in LinkIds
  BY <1>2 DEF Messages
<1>4. QED BY <1>1, <1>3, QueueFacts

\* The messages that are sent have the type of messages.
LEMMA MessageType ==
    ASSUME NEW kind \in Kinds, NEW l \in LinkIds
    PROVE  [kind |-> kind, link |-> l] \in Messages
BY DEF Messages

-----------------------------------------------------------------------------
(* How each step changes the queues.                                       *)

\* The places dd[e] of rxq[e] are dropped, and x is appended for the devices P.
Queues(dd, P, x) ==
    \A e \in Devices : Derived(rxq'[e], rxq[e], dd[e], IF e \in P THEN {x} ELSE {})
None == [e \in Devices |-> {}]
First(d) == [e \in Devices |-> IF e = d THEN {1} ELSE {}]
Typed == rxq' \in [Devices -> Seq(Messages)]

LEMMA QueuesSame ==
    ASSUME TypeOK, rxq' = rxq, NEW x
    PROVE  Typed /\ Queues(None, {}, x)
<1>1. Typed
  BY DEF TypeOK, Typed, Messages
<1>2. ASSUME NEW e \in Devices
      PROVE  Derived(rxq'[e], rxq[e], None[e], IF e \in {} THEN {x} ELSE {})
  <2>1. Derived(rxq[e], rxq[e], {}, {})
    BY QueueFacts, DerivedSame
  <2>2. QED BY <2>1 DEF None
<1>3. QED BY <1>1, <1>2 DEF Queues

LEMMA QueuesTaken ==
    ASSUME TypeOK, NEW d \in Devices, rxq[d] # <<>>, rxq' = [rxq EXCEPT ![d] = Tail(@)], NEW x
    PROVE  Typed /\ Queues(First(d), {}, x)
<1>1. rxq'[d] = Tail(rxq[d]) /\ \A e \in Devices \ {d} : rxq'[e] = rxq[e]
  BY DEF TypeOK
<1>2. Typed
  BY QueueFacts DEF TypeOK, Typed, Messages
<1>3. ASSUME NEW e \in Devices
      PROVE  Derived(rxq'[e], rxq[e], First(d)[e], IF e \in {} THEN {x} ELSE {})
  <2>1. Derived(rxq[e], rxq[e], {}, {}) /\ Derived(Tail(rxq[d]), rxq[d], {1}, {})
    BY QueueFacts, DerivedSame, DerivedTail
  <2>2. QED BY <1>1, <2>1 DEF First
<1>4. QED BY <1>2, <1>3 DEF Queues

LEMMA QueuesSent ==
    ASSUME TypeOK, NEW p \in Devices, NEW x \in Messages, rxq' = [rxq EXCEPT ![p] = Append(@, x)]
    PROVE  Typed /\ Queues(None, {p}, x)
<1>1. rxq'[p] = Append(rxq[p], x) /\ \A e \in Devices \ {p} : rxq'[e] = rxq[e]
  BY DEF TypeOK
<1>2. Typed
  BY QueueFacts DEF TypeOK, Typed, Messages
<1>3. ASSUME NEW e \in Devices
      PROVE  Derived(rxq'[e], rxq[e], None[e], IF e \in {p} THEN {x} ELSE {})
  <2>1. Derived(rxq[e], rxq[e], {}, {}) /\ rxq[e] \in Seq(Messages)
    BY QueueFacts, DerivedSame
  <2>2. Derived(Append(rxq[e], x), rxq[e], {}, {x})
    BY <2>1, DerivedAppend
  <2>3. QED BY <1>1, <2>1, <2>2 DEF None
<1>4. QED BY <1>2, <1>3 DEF Queues

LEMMA QueuesPassed ==
    ASSUME TypeOK, NEW d \in Devices, rxq[d] # <<>>, NEW p \in Devices, p # d, NEW x \in Messages,
           rxq' = [rxq EXCEPT ![d] = Tail(@), ![p] = Append(@, x)]
    PROVE  Typed /\ Queues(First(d), {p}, x)
<1>1. /\ rxq'[d] = Tail(rxq[d]) /\ rxq'[p] = Append(rxq[p], x)
      /\ \A e \in Devices \ {d, p} : rxq'[e] = rxq[e]
  BY DEF TypeOK
<1>2. Typed
  BY QueueFacts DEF TypeOK, Typed, Messages
<1>3. ASSUME NEW e \in Devices
      PROVE  Derived(rxq'[e], rxq[e], First(d)[e], IF e \in {p} THEN {x} ELSE {})
  <2>1. /\ Derived(rxq[e], rxq[e], {}, {}) /\ rxq[e] \in Seq(Messages)
        /\ Derived(Tail(rxq[d]), rxq[d], {1}, {})
    BY QueueFacts, DerivedSame, DerivedTail
  <2>2. Derived(Append(rxq[e], x), rxq[e], {}, {x})
    BY <2>1, DerivedAppend
  <2>3. QED BY <1>1, <2>1, <2>2 DEF First
<1>4. QED BY <1>2, <1>3 DEF Queues

\* accept_conn: the event is taken and both ends get the next one.
LEMMA QueuesOpened ==
    ASSUME TypeOK, NEW d \in Devices, rxq[d] # <<>>, NEW p \in Devices, p # d, NEW x \in Messages,
           rxq' = [rxq EXCEPT ![d] = Tail(@) \o <<x>>, ![p] = Append(@, x)]
    PROVE  Typed /\ Queues(First(d), {d, p}, x)
<1>1. Tail(rxq[d]) \in Seq(Messages) /\ Tail(rxq[d]) \o <<x>> = Append(Tail(rxq[d]), x)
  BY QueueFacts, AppendIsConcat
<1>2. /\ rxq'[d] = Append(Tail(rxq[d]), x) /\ rxq'[p] = Append(rxq[p], x)
      /\ \A e \in Devices \ {d, p} : rxq'[e] = rxq[e]
  BY <1>1 DEF TypeOK
<1>3. Append(Tail(rxq[d]), x) \in Seq(Messages)
  BY <1>1, AppendProperties
<1>4. Typed
  BY <1>1, <1>3, QueueFacts DEF TypeOK, Typed, Messages
<1>5. ASSUME NEW e \in Devices
      PROVE  Derived(rxq'[e], rxq[e], First(d)[e], IF e \in {d, p} THEN {x} ELSE {})
  <2>1. /\ Derived(rxq[e], rxq[e], {}, {}) /\ rxq[e] \in Seq(Messages)
        /\ rxq[d] \in Seq(Messages) /\ Derived(Tail(rxq[d]), rxq[d], {1}, {})
    BY QueueFacts, DerivedSame, DerivedTail
  <2>2. Derived(Append(rxq[e], x), rxq[e], {}, {x})
    BY <2>1, DerivedAppend
  <2>3. Derived(Append(Tail(rxq[d]), x), rxq[d], {1}, {x})
    BY <1>1, <2>1, DerivedAppend
  <2>4. QED BY <1>2, <2>1, <2>2, <2>3 DEF First
<1>6. QED BY <1>4, <1>5 DEF Queues

\* A connection comes up: both ends are told.
LEMMA QueuesBoth ==
    ASSUME TypeOK, NEW P \in SUBSET Devices, NEW x \in Messages,
           rxq' = [e \in Devices |-> IF e \in P THEN Append(rxq[e], x) ELSE rxq[e]]
    PROVE  Typed /\ Queues(None, P, x)
<1>1. \A e \in Devices : rxq[e] \in Seq(Messages) /\ Append(rxq[e], x) \in Seq(Messages)
  BY QueueFacts
<1>2. Typed
  BY <1>1 DEF Typed
<1>3. ASSUME NEW e \in Devices
      PROVE  Derived(rxq'[e], rxq[e], None[e], IF e \in P THEN {x} ELSE {})
  <2>1. Derived(rxq[e], rxq[e], {}, {})
    BY <1>1, DerivedSame
  <2>2. Derived(Append(rxq[e], x), rxq[e], {}, {x})
    BY <1>1, <2>1, DerivedAppend
  <2>3. QED BY <2>1, <2>2 DEF None
<1>4. QED BY <1>2, <1>3 DEF Queues

\* A connection ends: at both ends its messages are lost, and the end is the last event.
GoneFrom(P, l) == [e \in Devices |-> IF e \in P THEN Goes(rxq[e], l) ELSE {}]

LEMMA QueuesLost ==
    ASSUME TypeOK, NEW P \in SUBSET Devices, NEW l, NEW x \in Messages,
           rxq' = [e \in Devices |-> IF e \in P THEN Append(Remaining(rxq[e], l), x) ELSE rxq[e]]
    PROVE  Typed /\ Queues(GoneFrom(P, l), P, x)
<1>1. \A e \in Devices : /\ rxq[e] \in Seq(Messages) /\ Remaining(rxq[e], l) \in Seq(Messages)
                         /\ Append(Remaining(rxq[e], l), x) \in Seq(Messages)
  BY QueueFacts, RemainingFacts, AppendProperties
<1>2. Typed
  BY <1>1 DEF Typed
<1>3. ASSUME NEW e \in Devices
      PROVE  Derived(rxq'[e], rxq[e], GoneFrom(P, l)[e], IF e \in P THEN {x} ELSE {})
  <2>1. Derived(rxq[e], rxq[e], {}, {})
    BY <1>1, DerivedSame
  <2>2. Derived(Remaining(rxq[e], l), rxq[e], Goes(rxq[e], l), {})
    BY <1>1, RemainingFacts
  <2>3. Derived(Append(Remaining(rxq[e], l), x), rxq[e], Goes(rxq[e], l), {x})
    BY <1>1, <2>2, DerivedAppend
  <2>4. QED BY <2>1, <2>3 DEF GoneFrom
<1>4. QED BY <1>2, <1>3 DEF Queues


-----------------------------------------------------------------------------
(* What a step of the queues keeps, whichever it is.                       *)

\* The queue of e has what it had but for dd[e], and x if e is in P.
Entries(dd, P, x, e) ==
    /\ \A i \in 1 .. Len(rxq'[e]) :
          \/ e \in P /\ rxq'[e][i] = x
          \/ \E a \in (1 .. Len(rxq[e])) \ dd[e] : rxq'[e][i] = rxq[e][a]
    /\ \A a \in (1 .. Len(rxq[e])) \ dd[e] :
          \E i \in 1 .. Len(rxq'[e]) : rxq'[e][i] = rxq[e][a]
    /\ e \in P => \E i \in 1 .. Len(rxq'[e]) : rxq'[e][i] = x

LEMMA QueueEntries ==
    ASSUME NEW dd, NEW P, NEW x, Queues(dd, P, x), NEW e \in Devices, Len(rxq[e]) \in Nat
    PROVE  Entries(dd, P, x, e)
<1> DEFINE N == IF e \in P THEN {x} ELSE {}
<1>1. Derived(rxq'[e], rxq[e], dd[e], N)
  BY DEF Queues
<1>2. \A y \in N : e \in P /\ y = x
  OBVIOUS
<1>3. e \in P => x \in N
  OBVIOUS
<1> HIDE DEF N
<1>4. ASSUME NEW i \in 1 .. Len(rxq'[e])
      PROVE  \/ e \in P /\ rxq'[e][i] = x
             \/ \E a \in (1 .. Len(rxq[e])) \ dd[e] : rxq'[e][i] = rxq[e][a]
  <2>1. PICK a \in 0 .. Len(rxq[e]) : From(rxq'[e], rxq[e], dd[e], N, i, a)
    BY <1>1 DEF Derived
  <2>2. QED BY <1>2, <2>1 DEF From
<1>5. /\ \A a \in (1 .. Len(rxq[e])) \ dd[e] :
            \E i \in 1 .. Len(rxq'[e]) : rxq'[e][i] = rxq[e][a]
      /\ e \in P => \E i \in 1 .. Len(rxq'[e]) : rxq'[e][i] = x
  BY <1>1, <1>3 DEF Derived
<1>6. QED BY <1>4, <1>5, Zenon DEF Entries

LEMMA QueuePairs ==
    ASSUME NEW dd, NEW P, NEW x, Queues(dd, P, x), NEW e \in Devices, Len(rxq[e]) \in Nat,
           NEW i \in 1 .. Len(rxq'[e]), NEW j \in 1 .. Len(rxq'[e]), i < j
    PROVE  \E a \in (1 .. Len(rxq[e])) \ dd[e] :
              /\ rxq'[e][i] = rxq[e][a]
              /\ \/ e \in P /\ rxq'[e][j] = x
                 \/ \E b \in (1 .. Len(rxq[e])) \ dd[e] : a < b /\ rxq'[e][j] = rxq[e][b]
<1> DEFINE N == IF e \in P THEN {x} ELSE {}
<1>1. Derived(rxq'[e], rxq[e], dd[e], N)
  BY DEF Queues
<1>2. \A y \in N : e \in P /\ y = x
  OBVIOUS
<1> HIDE DEF N
<1>3. PICK a, b \in 0 .. Len(rxq[e]) :
          /\ From(rxq'[e], rxq[e], dd[e], N, i, a) /\ From(rxq'[e], rxq[e], dd[e], N, j, b)
          /\ a # 0 /\ (b = 0 \/ a < b)
  BY <1>1 DEF Derived
<1>4. a \in (1 .. Len(rxq[e])) \ dd[e] /\ rxq'[e][i] = rxq[e][a]
  BY <1>3 DEF From
<1>5. \/ e \in P /\ rxq'[e][j] = x
      \/ b \in (1 .. Len(rxq[e])) \ dd[e] /\ rxq'[e][j] = rxq[e][b] /\ a < b
  BY <1>2, <1>3 DEF From
<1>6. QED BY <1>4, <1>5

\* The part of Owned about the queues.
LEMMA ValidStep ==
    ASSUME TypeOK, NEW dd, NEW P, NEW x, Queues(dd, P, x), NEW ln,
           \A e \in Devices : \A a \in (1 .. Len(rxq[e])) \ dd[e] : Valid(ln, e, rxq[e][a]),
           \A e \in Devices : e \in P => Valid(ln, e, x)
    PROVE  \A e \in Devices : \A i \in 1 .. Len(rxq'[e]) : Valid(ln, e, rxq'[e][i])
<1>1. SUFFICES ASSUME NEW e \in Devices, NEW i \in 1 .. Len(rxq'[e])
               PROVE  Valid(ln, e, rxq'[e][i])
  OBVIOUS
<1>2. Len(rxq[e]) \in Nat
  BY QueueFacts
<1>3. \/ e \in P /\ rxq'[e][i] = x
      \/ \E a \in (1 .. Len(rxq[e])) \ dd[e] : rxq'[e][i] = rxq[e][a]
  BY <1>1, <1>2, QueueEntries DEF Entries
<1>4. QED BY <1>3

\* The end of a connection is not overtaken.
LEMMA OrderStep ==
    ASSUME TypeOK, Typed, Ordered, NEW dd, NEW P, NEW x, Queues(dd, P, x),
           \A e \in Devices : e \in P /\ x.kind = "connected" => ~Told(e, "disconnected", x.link)
    PROVE  \A e \in Devices, i, j \in Nat :
              /\ i \in 1 .. Len(rxq'[e]) /\ j \in 1 .. Len(rxq'[e])
              /\ rxq'[e][i].kind = "disconnected" /\ rxq'[e][j].kind = "connected"
              /\ rxq'[e][j].link = rxq'[e][i].link
              => j < i
<1>1. SUFFICES ASSUME NEW e \in Devices, NEW i \in 1 .. Len(rxq'[e]), NEW j \in 1 .. Len(rxq'[e]),
                      rxq'[e][i].kind = "disconnected", rxq'[e][j].kind = "connected",
                      rxq'[e][j].link = rxq'[e][i].link, ~(j < i)
               PROVE  FALSE
  OBVIOUS
<1>2. i # j
  BY <1>1
<1>3. i \in Nat /\ j \in Nat /\ i < j
  BY <1>1, <1>2
<1>4. Len(rxq[e]) \in Nat
  BY QueueFacts
<1>5. PICK a \in (1 .. Len(rxq[e])) \ dd[e] :
          /\ rxq'[e][i] = rxq[e][a]
          /\ \/ e \in P /\ rxq'[e][j] = x
             \/ \E b \in (1 .. Len(rxq[e])) \ dd[e] : a < b /\ rxq'[e][j] = rxq[e][b]
  BY <1>1, <1>3, <1>4, QueuePairs
<1>6. CASE e \in P /\ rxq'[e][j] = x
  BY <1>1, <1>5, <1>6 DEF Told
<1>7. CASE \E b \in (1 .. Len(rxq[e])) \ dd[e] : a < b /\ rxq'[e][j] = rxq[e][b]
  <2>1. PICK b \in (1 .. Len(rxq[e])) \ dd[e] : a < b /\ rxq'[e][j] = rxq[e][b]
    BY <1>7
  <2>2. b < a
    BY <1>1, <1>5, <2>1 DEF Ordered
  <2>3. QED BY <1>4, <2>1, <2>2
<1>8. QED BY <1>5, <1>6, <1>7

\* What is told remains so, unless it is dropped; nothing but x is told anew.
LEMMA ToldStep ==
    ASSUME TypeOK, NEW dd, NEW P, NEW x, Queues(dd, P, x), NEW e \in Devices, NEW kind, NEW l
    PROVE  /\ /\ Told(e, kind, l)
              /\ \A a \in (1 .. Len(rxq[e])) \cap dd[e] :
                    ~(rxq[e][a].kind = kind /\ rxq[e][a].link = l)
              => Told(e, kind, l)'
           /\ Told(e, kind, l)' =>
                \/ e \in P /\ x.kind = kind /\ x.link = l
                \/ \E a \in (1 .. Len(rxq[e])) \ dd[e] :
                      rxq[e][a].kind = kind /\ rxq[e][a].link = l
           /\ e \in P /\ x.kind = kind /\ x.link = l => Told(e, kind, l)'
<1>1. Len(rxq[e]) \in Nat
  BY QueueFacts
<1>2. /\ \A i \in 1 .. Len(rxq'[e]) :
             \/ e \in P /\ rxq'[e][i] = x
             \/ \E a \in (1 .. Len(rxq[e])) \ dd[e] : rxq'[e][i] = rxq[e][a]
      /\ \A a \in (1 .. Len(rxq[e])) \ dd[e] :
             \E i \in 1 .. Len(rxq'[e]) : rxq'[e][i] = rxq[e][a]
      /\ e \in P => \E i \in 1 .. Len(rxq'[e]) : rxq'[e][i] = x
  <2>1. Entries(dd, P, x, e)
    BY <1>1, QueueEntries
  <2>2. QED BY <2>1, Zenon DEF Entries
<1>3. QED BY <1>2, Zenon DEF Told

\* A step makes no token of a connection but l0.
Others(l0, P, x) ==
    \A l \in DOMAIN links' : l # l0 =>
        /\ l \in DOMAIN links /\ links'[l].central = links[l].central
        /\ \A e \in Devices : /\ InHand(e, l)' => InHand(e, l)
                              /\ e \in P => ~Token(links', e, x, l)

\* It may make one of l0, for one device, when there is no other of l0 left.
Anew(l0, dd, P, x) ==
    l0 \in DOMAIN links' =>
        /\ \A e \in Devices : \A a \in (1 .. Len(rxq[e])) \ dd[e] :
              ~Token(links', e, rxq[e][a], l0)
        /\ \A e, f \in Devices : e \in P /\ Token(links', e, x, l0) =>
              ~InHand(f, l0)' /\ (f \in P /\ Token(links', f, x, l0) => e = f)

LEMMA TokenStep ==
    ASSUME TypeOK, OneToken, NEW dd, NEW P, NEW x, Queues(dd, P, x), NEW l0,
           Others(l0, P, x), Anew(l0, dd, P, x)
    PROVE  OneToken'
<1>1. SUFFICES ASSUME NEW l \in DOMAIN links', NEW d \in Devices, NEW e \in Devices,
                      NEW i \in 1 .. Len(rxq'[d]), Token(links', d, rxq'[d][i], l)
               PROVE  /\ ~InHand(e, l)'
                      /\ \A j \in 1 .. Len(rxq'[e]) :
                            Token(links', e, rxq'[e][j], l) => d = e /\ i = j
  BY DEF OneToken
<1>2. \A f \in Devices : Len(rxq[f]) \in Nat
  BY QueueFacts
<1>3. \A f \in Devices : \A k \in 1 .. Len(rxq'[f]) :
          \/ f \in P /\ rxq'[f][k] = x
          \/ \E a \in (1 .. Len(rxq[f])) \ dd[f] : rxq'[f][k] = rxq[f][a]
  <2> TAKE f \in Devices
  <2>1. Entries(dd, P, x, f)
    BY <1>2, QueueEntries
  <2>2. QED BY <2>1, Zenon DEF Entries
<1>4. CASE l # l0
  <2>1. /\ l \in DOMAIN links /\ links'[l].central = links[l].central
        /\ \A f \in Devices : /\ InHand(f, l)' => InHand(f, l)
                              /\ f \in P => ~Token(links', f, x, l)
    BY <1>1, <1>4 DEF Others
  <2>2. \A f, y : Token(links', f, y, l) <=> Token(links, f, y, l)
    BY <2>1 DEF Token
  <2>3. \A f \in Devices : \A k \in 1 .. Len(rxq'[f]) : Token(links', f, rxq'[f][k], l) =>
            \E a \in (1 .. Len(rxq[f])) \ dd[f] :
               rxq'[f][k] = rxq[f][a] /\ Token(links, f, rxq[f][a], l)
    <3> SUFFICES ASSUME NEW f \in Devices, NEW k \in 1 .. Len(rxq'[f]),
                        Token(links', f, rxq'[f][k], l)
                 PROVE  \E a \in (1 .. Len(rxq[f])) \ dd[f] :
                           rxq'[f][k] = rxq[f][a] /\ Token(links, f, rxq[f][a], l)
      OBVIOUS
    <3>1. Token(links, f, rxq'[f][k], l)
      BY <2>2
    <3>2. ~(f \in P /\ rxq'[f][k] = x)
      BY <2>1
    <3>3. PICK a \in (1 .. Len(rxq[f])) \ dd[f] : rxq'[f][k] = rxq[f][a]
      BY <1>3, <3>2, Zenon
    <3>4. QED BY <3>1, <3>3
  <2>4. PICK a \in (1 .. Len(rxq[d])) \ dd[d] : Token(links, d, rxq[d][a], l)
    BY <1>1, <2>3
  <2>5. ~InHand(e, l)'
    BY <2>1, <2>4 DEF OneToken
  <2>6. ASSUME NEW j \in 1 .. Len(rxq'[e]), Token(links', e, rxq'[e][j], l)
        PROVE  d = e /\ i = j
    <3>1. PICK b \in (1 .. Len(rxq[e])) \ dd[e] : Token(links, e, rxq[e][b], l)
      BY <2>3, <2>6
    <3>2. d = e
      BY <2>1, <2>4, <3>1 DEF OneToken
    <3>3. ASSUME NEW k \in 1 .. Len(rxq'[d]), NEW m \in 1 .. Len(rxq'[d]), k < m,
                 Token(links', d, rxq'[d][k], l), Token(links', d, rxq'[d][m], l)
          PROVE  FALSE
      <4>1. PICK u \in (1 .. Len(rxq[d])) \ dd[d] :
                /\ rxq'[d][k] = rxq[d][u]
                /\ \/ d \in P /\ rxq'[d][m] = x
                   \/ \E v \in (1 .. Len(rxq[d])) \ dd[d] : u < v /\ rxq'[d][m] = rxq[d][v]
        BY <1>2, <3>3, QueuePairs
      <4>2. PICK v \in (1 .. Len(rxq[d])) \ dd[d] : u < v /\ rxq'[d][m] = rxq[d][v]
        BY <2>1, <3>3, <4>1
      <4>3. u = v
        BY <2>1, <2>2, <3>3, <4>1, <4>2 DEF OneToken
      <4>4. QED BY <1>2, <4>2, <4>3
    <3>4. i \in Nat /\ j \in Nat /\ j \in 1 .. Len(rxq'[d])
      BY <3>2
    <3>5. ~(i < j) /\ ~(j < i)
      BY <1>1, <2>6, <3>2, <3>3, <3>4
    <3>6. QED BY <3>2, <3>4, <3>5
  <2>7. QED BY <2>5, <2>6
<1>5. CASE l = l0
  <2>1. /\ \A f \in Devices : \A a \in (1 .. Len(rxq[f])) \ dd[f] :
              ~Token(links', f, rxq[f][a], l)
        /\ \A f, g \in Devices : f \in P /\ Token(links', f, x, l) =>
              ~InHand(g, l)' /\ (g \in P /\ Token(links', g, x, l) => f = g)
    BY <1>1, <1>5 DEF Anew
  <2>2. \A f \in Devices : \A k \in 1 .. Len(rxq'[f]) : Token(links', f, rxq'[f][k], l) =>
            f \in P /\ Token(links', f, x, l)
    BY <1>3, <2>1
  <2>3. ~InHand(e, l)'
    BY <1>1, <2>1, <2>2
  <2>4. ASSUME NEW j \in 1 .. Len(rxq'[e]), Token(links', e, rxq'[e][j], l)
        PROVE  d = e /\ i = j
    <3>1. d = e
      BY <1>1, <2>1, <2>2, <2>4
    <3>2. ASSUME NEW k \in 1 .. Len(rxq'[d]), NEW m \in 1 .. Len(rxq'[d]), k < m,
                 Token(links', d, rxq'[d][k], l)
          PROVE  FALSE
      BY <1>2, <2>1, <3>2, QueuePairs
    <3>3. i \in Nat /\ j \in Nat /\ j \in 1 .. Len(rxq'[d])
      BY <3>1
    <3>4. ~(i < j) /\ ~(j < i)
      BY <1>1, <2>4, <3>1, <3>2, <3>3
    <3>5. QED BY <3>1, <3>3, <3>4
  <2>5. QED BY <2>3, <2>4
<1>6. QED BY <1>4, <1>5

LEMMA TokensKept ==
    ASSUME TypeOK, OneToken, NEW dd, NEW P, NEW x, Queues(dd, P, x),
           \A l0 : Others(l0, P, x)
    PROVE  OneToken'
<1>1. PICK l0 : l0 \notin DOMAIN links'
  <2>1. \E l0 : l0 \notin DOMAIN links'
    <3> DEFINE Russell == {l \in DOMAIN links' : l \notin l}
    <3>1. Russell \notin DOMAIN links'
      OBVIOUS
    <3>2. QED BY <3>1
  <2>2. QED BY <2>1
<1>2. Others(l0, P, x) /\ Anew(l0, dd, P, x)
  BY <1>1 DEF Anew
<1>3. QED BY <1>2, TokenStep

-----------------------------------------------------------------------------
(* The initial states.                                                     *)

LEMMA InitInvariant == Init => IInv
<1> SUFFICES ASSUME Init PROVE IInv
  OBVIOUS
<1>1. TypeOK
  <2>1. /\ is_advertising \in [Devices -> BOOLEAN] /\ is_scanning \in [Devices -> BOOLEAN]
        /\ connecting \in [Devices -> BOOLEAN]
        /\ adv \in [Devices -> BOOLEAN] /\ scan \in [Devices -> BOOLEAN]
        /\ overlap \in [Devices -> BOOLEAN] /\ init \in [Devices -> Devices \cup {NoDevice}]
    BY DEF Init
  <2>2. /\ default_conn \in [Devices -> LinkIds] /\ le_chan \in [Devices -> LinkIds]
        /\ job \in [Devices -> [link : LinkIds, peer : Devices \cup {NoDevice}]]
        /\ fails \in 0 .. MaxFails
    BY ConstantFacts DEF Init, LinkIds, NoJob
  <2>3. /\ links \in Seq([central : Devices, peripheral : Devices, up : BOOLEAN])
        /\ rxq \in [Devices -> Seq([kind : Kinds, link : LinkIds])]
        /\ wqq \in [Devices -> Seq(LinkIds)]
    BY EmptySeq DEF Init
  <2>4. at \in [Devices -> [Threads -> Places]]
    BY DEF Init, Threads, Places
  <2>5. QED BY <2>1, <2>2, <2>3, <2>4 DEF TypeOK
<1>2. /\ links = <<>> /\ Len(links) = 0 /\ DOMAIN links = {}
      /\ \A d \in Devices : /\ rxq[d] = <<>> /\ wqq[d] = <<>>
                            /\ Len(rxq[d]) = 0 /\ Len(wqq[d]) = 0
  BY DEF Init
<1>3. \A d \in Devices : /\ RxAt(d) = "idle" /\ at[d]["main"] = "adv" /\ at[d]["wq"] = "idle"
                         /\ job[d].link = 0 /\ default_conn[d] = 0 /\ le_chan[d] = 0
                         /\ init[d] = NoDevice /\ ~scan[d] /\ ~is_scanning[d]
                         /\ \A t \in Threads : at[d][t] # "scanset"
  BY DEF Init, RxAt, Threads, NoJob
<1>4. Peers
  BY <1>2, <1>3, ConstantFacts DEF Peers, Finding
<1>5. \A d \in Devices : 1 .. Len(rxq[d]) = {} /\ 1 .. Len(wqq[d]) = {}
  <2>1. \A n \in Nat : n = 0 => 1 .. n = {}
    OBVIOUS
  <2>2. QED BY <1>2, <2>1
<1>6. Owned
  BY <1>3, <1>5 DEF Owned
<1>7. Ordered
  BY <1>2, <1>3, <1>5 DEF Ordered, Serving
<1>8. Tracked
  BY <1>3 DEF Tracked
<1>9. ScanTrue
  BY <1>3 DEF ScanTrue
<1>10. Awake
  BY <1>3 DEF Awake, Busy, Threads
<1>11. OneToken /\ ChanIsCentral
  BY <1>2, <1>3 DEF OneToken, ChanIsCentral
<1>12. QED BY <1>1, <1>4, <1>6, <1>7, <1>8, <1>9, <1>10, <1>11 DEF IInv

-----------------------------------------------------------------------------
(* Steps that touch neither connections nor queues.                        *)

LEMMA QuietStep ==
    ASSUME IInv, UNCHANGED <<default_conn, le_chan, links, rxq, wqq, overlap>>,
           \A e \in Devices :
              /\ init'[e] # e
              /\ at'[e]["rx"] \in Finding => job'[e].peer \in Devices \ {e}
              /\ job'[e].link # 0 => job'[e].link = job[e].link
              /\ at'[e]["rx"] \in Serving => RxAt(e) \in Serving /\ job'[e] = job[e]
              /\ at'[e]["rx"] = "chan" =>
                    /\ job'[e] = job[e]
                    /\ RxAt(e) \in Serving \cup {"chan"}
                    /\ job[e].link # 0 /\ links[job[e].link].central = e
    PROVE  Peers' /\ Owned' /\ Ordered' /\ Tracked' /\ OneToken' /\ ChanIsCentral'
<1>1. /\ default_conn' = default_conn /\ le_chan' = le_chan /\ links' = links
      /\ rxq' = rxq /\ wqq' = wqq /\ overlap' = overlap
  OBVIOUS
<1>2. \A l : Up(l)' <=> Up(l)
  BY <1>1 DEF Up
<1>3. \A e, kind, l : (Told(e, kind, l)' <=> Told(e, kind, l)) /\ (Left(e, l)' <=> Left(e, l))
  BY <1>1 DEF Told, Left
<1>4. Peers'
  BY <1>1 DEF IInv, Peers, RxAt
<1>5. Owned'
  BY <1>1 DEF IInv, Owned
<1>6. Ordered'
  BY <1>1, <1>2, <1>3 DEF IInv, Ordered, RxAt
<1>7. Tracked'
  BY <1>1, <1>2, <1>3 DEF IInv, Tracked
<1>8. \A e \in Devices : \A l : InHand(e, l)' => InHand(e, l)
  BY <1>1 DEF InHand, RxAt, Serving
<1>9. OneToken'
  BY <1>1, <1>8 DEF IInv, OneToken
<1>10. ChanIsCentral'
  BY <1>1 DEF ChanIsCentral, RxAt
<1>11. QED BY <1>4, <1>5, <1>6, <1>7, <1>9, <1>10

\* d changes; the others are as awake as before.
LEMMA AwakeStep ==
    ASSUME Awake, fails' = 0 => fails = 0, NEW d,
           \A e \in Devices \ {d} :
              /\ overlap'[e] = overlap[e] /\ scan'[e] = scan[e] /\ at'[e] = at[e]
              /\ init'[e] = init[e] /\ default_conn'[e] = default_conn[e]
              /\ \A i \in 1 .. Len(rxq[e]) : rxq[e][i].kind = "connected" =>
                    \E j \in 1 .. Len(rxq'[e]) : rxq'[e][j].kind = "connected",
           d \in Devices /\ fails' = 0 => overlap'[d] \/ scan'[d] \/ Busy(d)' \/ Expects(d)'
    PROVE  Awake'
<1>1. SUFFICES ASSUME NEW e \in Devices, fails' = 0
               PROVE  overlap'[e] \/ scan'[e] \/ Busy(e)' \/ Expects(e)'
  BY DEF Awake
<1>2. CASE e = d
  BY <1>1, <1>2
<1>3. CASE e # d
  <2>1. overlap[e] \/ scan[e] \/ Busy(e) \/ Expects(e)
    BY <1>1 DEF Awake
  <2>2. Busy(e) => Busy(e)'
    BY <1>3 DEF Busy, RxAt
  <2>3. Expects(e) => Expects(e)'
    BY <1>3 DEF Expects
  <2>4. QED BY <1>3, <2>1, <2>2, <2>3
<1>4. QED BY <1>2, <1>3

\* The four steps of start_advertising and start_scanning leave the rest as it is.
LEMMA StartingQuiet ==
    ASSUME IInv, NEW d \in Devices, NEW t \in Threads,
           NEW to \in {"advset", "scan", "scanset", "idle"}, Goto(d, t, to),
           UNCHANGED <<default_conn, le_chan, links, rxq, wqq, overlap, init, job>>
    PROVE  Peers' /\ Owned' /\ Ordered' /\ Tracked' /\ OneToken' /\ ChanIsCentral'
<1>1. \A e \in Devices, u \in Threads : at'[e][u] = IF e = d /\ u = t THEN to ELSE at[e][u]
  <2>1. to \in Places
    BY DEF Places
  <2>2. QED BY <2>1, GotoFacts DEF IInv
<1>2. "rx" \in Threads
  BY DEF Threads
<1>3. \A e \in Devices : at'[e]["rx"] \in Finding \cup Serving \cup {"chan"} =>
          at'[e]["rx"] = RxAt(e)
  BY <1>1, <1>2 DEF RxAt, Finding, Serving
<1>4. /\ UNCHANGED <<default_conn, le_chan, links, rxq, wqq, overlap>>
      /\ init' = init /\ job' = job
  OBVIOUS
<1>5. \A e \in Devices : /\ init'[e] # e
                         /\ at'[e]["rx"] \in Finding => job'[e].peer \in Devices \ {e}
  BY <1>3, <1>4 DEF IInv, Peers
<1>6. \A e \in Devices :
          /\ at'[e]["rx"] \in Serving => RxAt(e) \in Serving /\ job'[e] = job[e]
          /\ at'[e]["rx"] = "chan" =>
                /\ job'[e] = job[e]
                /\ RxAt(e) \in Serving \cup {"chan"}
                /\ job[e].link # 0 /\ links[job[e].link].central = e
  BY <1>3, <1>4 DEF IInv, ChanIsCentral
<1>7. QED BY <1>4, <1>5, <1>6, QuietStep

LEMMA StartAdvertisingStep ==
    ASSUME IInv, NEW d \in Devices, NEW t \in Threads, StartAdvertising(d, t)
    PROVE  IInv'
<1>1. PICK to \in {"advset", "scan"} : Goto(d, t, to)
  BY DEF StartAdvertising
<1>2. /\ UNCHANGED <<default_conn, le_chan, links, rxq, wqq, overlap, init, job>>
      /\ UNCHANGED <<is_advertising, is_scanning, connecting, scan>>
      /\ adv' \in {adv, [adv EXCEPT ![d] = TRUE]}
      /\ fails' = fails \/ (fails < MaxFails /\ fails' = fails + 1)
  BY DEF StartAdvertising, flags, MayFail
<1>3. to \in Places
  BY <1>1 DEF Places
<1>4. /\ at' \in [Devices -> [Threads -> Places]]
      /\ \A e \in Devices, u \in Threads : at'[e][u] = IF e = d /\ u = t THEN to ELSE at[e][u]
  BY <1>1, <1>3, GotoFacts DEF IInv
<1>5. TypeOK'
  <2>1. adv' \in [Devices -> BOOLEAN]
    BY <1>2 DEF IInv, TypeOK
  <2>2. fails' \in 0 .. MaxFails
    BY <1>2, ConstantFacts DEF IInv, TypeOK
  <2>3. QED BY <1>2, <1>4, <2>1, <2>2 DEF IInv, TypeOK
<1>6. Peers' /\ Owned' /\ Ordered' /\ Tracked' /\ OneToken' /\ ChanIsCentral'
  BY <1>1, <1>2, StartingQuiet
<1>7. ScanTrue'
  BY <1>1, <1>2, <1>4 DEF IInv, ScanTrue
<1>8. Awake'
  <2>1. fails' = 0 => fails = 0
    BY <1>2, ConstantFacts DEF IInv, TypeOK
  <2>2. Busy(d)'
    BY <1>1, <1>4 DEF Busy
  <2>3. \A e \in Devices \ {d} : at'[e] = at[e]
    BY <1>1 DEF Goto, IInv, TypeOK
  <2>4. QED BY <1>2, <2>1, <2>2, <2>3, AwakeStep DEF IInv
<1>9. QED BY <1>5, <1>6, <1>7, <1>8 DEF IInv

LEMMA AdvertisingStartedStep ==
    ASSUME IInv, NEW d \in Devices, NEW t \in Threads, AdvertisingStarted(d, t)
    PROVE  IInv'
<1>1. Goto(d, t, "scan")
  BY DEF AdvertisingStarted
<1>2. /\ UNCHANGED <<default_conn, le_chan, links, rxq, wqq, overlap, init, job>>
      /\ UNCHANGED <<is_scanning, connecting, scan, adv, fails>>
      /\ is_advertising' = [is_advertising EXCEPT ![d] = TRUE]
  BY DEF AdvertisingStarted, stack, history
<1>3. "scan" \in Places
  BY DEF Places
<1>4. /\ at' \in [Devices -> [Threads -> Places]]
      /\ \A e \in Devices, u \in Threads :
            at'[e][u] = IF e = d /\ u = t THEN "scan" ELSE at[e][u]
  BY <1>1, <1>3, GotoFacts DEF IInv
<1>5. TypeOK'
  BY <1>2, <1>4 DEF IInv, TypeOK
<1>6. Peers' /\ Owned' /\ Ordered' /\ Tracked' /\ OneToken' /\ ChanIsCentral'
  BY <1>1, <1>2, StartingQuiet
<1>7. ScanTrue'
  BY <1>2, <1>4 DEF IInv, ScanTrue
<1>8. Awake'
  <2>1. Busy(d)'
    BY <1>4 DEF Busy
  <2>2. \A e \in Devices \ {d} : at'[e] = at[e]
    BY <1>1 DEF Goto, IInv, TypeOK
  <2>3. QED BY <1>2, <2>1, <2>2, AwakeStep DEF IInv
<1>9. QED BY <1>5, <1>6, <1>7, <1>8 DEF IInv

\* A device that goes on to scan does so already, or starts, or has failed.
LEMMA StartScanningStep ==
    ASSUME IInv, NEW d \in Devices, NEW t \in Threads, StartScanning(d, t)
    PROVE  IInv'
<1>1. PICK to \in {"scanset", "idle"} :
          /\ Goto(d, t, to)
          /\ \/ to = "idle" /\ scan' = scan /\ (scan[d] \/ fails' # 0)
             \/ /\ to = "scanset" /\ scan' = [scan EXCEPT ![d] = TRUE]
                /\ ~is_scanning[d] /\ ~scan[d]
  <2>1. CASE (is_scanning[d] \/ scan[d]) /\ Goto(d, t, "idle") /\ UNCHANGED <<scan, fails>>
    <3>1. scan[d]
      BY <2>1, Zenon DEF IInv, ScanTrue
    <3>2. QED BY <2>1, <3>1
  <2>2. CASE scan' = [scan EXCEPT ![d] = TRUE] /\ Goto(d, t, "scanset") /\ ~is_scanning[d] /\ ~scan[d]
    BY <2>2
  <2>3. CASE MayFail /\ Goto(d, t, "idle") /\ UNCHANGED scan
    <3>1. fails' # 0
      BY <2>3, ConstantFacts DEF MayFail, IInv, TypeOK
    <3>2. QED BY <2>3, <3>1
  <2>4. QED BY <2>1, <2>2, <2>3 DEF StartScanning
<1>2. /\ UNCHANGED <<default_conn, le_chan, links, rxq, wqq, overlap, init, job>>
      /\ UNCHANGED <<is_advertising, is_scanning, connecting, adv>>
      /\ fails' = fails \/ (fails < MaxFails /\ fails' = fails + 1)
  BY DEF StartScanning, flags, MayFail
<1>3. to \in Places
  BY <1>1 DEF Places
<1>4. /\ at' \in [Devices -> [Threads -> Places]]
      /\ \A e \in Devices, u \in Threads : at'[e][u] = IF e = d /\ u = t THEN to ELSE at[e][u]
  BY <1>1, <1>3, GotoFacts DEF IInv
<1>5. scan' \in [Devices -> BOOLEAN] /\ \A e \in Devices \ {d} : scan'[e] = scan[e]
  BY <1>1 DEF IInv, TypeOK
<1>6. TypeOK'
  <2>1. fails' \in 0 .. MaxFails
    BY <1>2, ConstantFacts DEF IInv, TypeOK
  <2>2. QED BY <1>2, <1>4, <1>5, <2>1 DEF IInv, TypeOK
<1>7. Peers' /\ Owned' /\ Ordered' /\ Tracked' /\ OneToken' /\ ChanIsCentral'
  BY <1>1, <1>2, StartingQuiet
<1>8. ScanTrue'
  <2>1. CASE to = "idle" /\ scan' = scan
    BY <1>2, <1>4, <2>1 DEF IInv, ScanTrue
  <2>2. CASE to = "scanset" /\ scan' = [scan EXCEPT ![d] = TRUE] /\ ~is_scanning[d] /\ ~scan[d]
    <3>1. scan'[d] /\ is_scanning' = is_scanning
      BY <1>2, <2>2 DEF IInv, TypeOK
    <3>2. \A u \in Threads : at[d][u] # "scanset"
      BY <2>2 DEF IInv, ScanTrue
    <3>3. \A u \in Threads : at'[d][u] = "scanset" => u = t
      BY <1>4, <3>2
    <3>4. ASSUME NEW e \in Devices \ {d}
          PROVE  /\ is_scanning'[e] => scan'[e]
                 /\ \A u \in Threads : at'[e][u] = "scanset" =>
                      /\ scan'[e] /\ ~is_scanning'[e]
                      /\ \A v \in Threads : at'[e][v] = "scanset" => u = v
      <4>1. is_scanning'[e] = is_scanning[e] /\ scan'[e] = scan[e]
        BY <1>5, <3>1
      <4>2. \A u \in Threads : at'[e][u] = at[e][u]
        BY <1>4
      <4>3. QED BY <4>1, <4>2 DEF IInv, ScanTrue
    <3>5. QED BY <2>2, <3>1, <3>3, <3>4 DEF ScanTrue
  <2>3. QED BY <1>1, <2>1, <2>2
<1>9. Awake'
  <2>1. fails' = 0 => fails = 0
    BY <1>2, ConstantFacts DEF IInv, TypeOK
  <2>2. fails' = 0 => scan'[d]
    BY <1>1 DEF IInv, TypeOK
  <2>3. \A e \in Devices \ {d} : at'[e] = at[e]
    BY <1>1 DEF Goto, IInv, TypeOK
  <2>4. QED BY <1>2, <1>5, <2>1, <2>2, <2>3, AwakeStep DEF IInv
<1>10. QED BY <1>6, <1>7, <1>8, <1>9 DEF IInv

LEMMA ScanningStartedStep ==
    ASSUME IInv, NEW d \in Devices, NEW t \in Threads, ScanningStarted(d, t)
    PROVE  IInv'
<1>1. Goto(d, t, "idle") /\ at[d][t] = "scanset"
  BY DEF ScanningStarted, At
<1>2. /\ UNCHANGED <<default_conn, le_chan, links, rxq, wqq, overlap, init, job>>
      /\ UNCHANGED <<is_advertising, connecting, scan, adv, fails>>
      /\ is_scanning' = [is_scanning EXCEPT ![d] = TRUE]
  BY DEF ScanningStarted, stack, history
<1>3. "idle" \in Places
  BY DEF Places
<1>4. /\ at' \in [Devices -> [Threads -> Places]]
      /\ \A e \in Devices, u \in Threads :
            at'[e][u] = IF e = d /\ u = t THEN "idle" ELSE at[e][u]
  BY <1>1, <1>3, GotoFacts DEF IInv
<1>5. TypeOK'
  BY <1>2, <1>4 DEF IInv, TypeOK
<1>6. Peers' /\ Owned' /\ Ordered' /\ Tracked' /\ OneToken' /\ ChanIsCentral'
  BY <1>1, <1>2, StartingQuiet
<1>7. scan[d] /\ \A u \in Threads : at[d][u] = "scanset" => u = t
  BY <1>1 DEF IInv, ScanTrue
<1>8. ScanTrue'
  <2>1. is_scanning'[d] /\ \A e \in Devices \ {d} : is_scanning'[e] = is_scanning[e]
    BY <1>2 DEF IInv, TypeOK
  <2>2. \A u \in Threads : at'[d][u] # "scanset"
    BY <1>4, <1>7
  <2>3. QED BY <1>2, <1>4, <1>7, <2>1, <2>2 DEF IInv, ScanTrue
<1>9. Awake'
  <2>1. \A e \in Devices \ {d} : at'[e] = at[e]
    BY <1>1 DEF Goto, IInv, TypeOK
  <2>2. QED BY <1>2, <1>7, <2>1, AwakeStep DEF IInv
<1>10. QED BY <1>5, <1>6, <1>8, <1>9 DEF IInv

\* Where d's receive thread goes, everything else of at stays.
LEMMA RxGoto ==
    ASSUME TypeOK, NEW d \in Devices, NEW to \in Places, Goto(d, "rx", to)
    PROVE  /\ at' \in [Devices -> [Threads -> Places]]
           /\ at'[d]["rx"] = to
           /\ \A u \in Threads : u # "rx" => at'[d][u] = at[d][u]
           /\ \A e \in Devices \ {d} : at'[e] = at[e]
<1>1. "rx" \in Threads
  BY DEF Threads
<1>2. QED BY <1>1, GotoFacts DEF Goto, TypeOK

LEMMA StopAdvertisingStep ==
    ASSUME IInv, NEW d \in Devices, NEW from, NEW to, StopAdvertising(d, from, to),
           \/ from = "found_adv" /\ to = "create"
           \/ from = "conn_adv" /\ to = "conn_scan"
    PROVE  IInv'
<1>1. RxAt(d) = from /\ Goto(d, "rx", to)
  BY DEF StopAdvertising, At, RxAt
<1>2. /\ UNCHANGED <<default_conn, le_chan, links, rxq, wqq, overlap, init, job>>
      /\ UNCHANGED <<is_scanning, connecting, scan, fails>>
      /\ is_advertising' = [is_advertising EXCEPT ![d] = FALSE]
      /\ adv' = [adv EXCEPT ![d] = @ /\ ~is_advertising[d]]
  BY DEF StopAdvertising, history
<1>3. to \in Places
  BY DEF Places
<1>4. /\ at' \in [Devices -> [Threads -> Places]]
      /\ at'[d]["rx"] = to
      /\ \A u \in Threads : u # "rx" => at'[d][u] = at[d][u]
      /\ \A e \in Devices \ {d} : at'[e] = at[e]
  BY <1>1, <1>3, RxGoto DEF IInv
<1>5. TypeOK'
  <2>1. adv' \in [Devices -> BOOLEAN]
    BY <1>2 DEF IInv, TypeOK
  <2>2. QED BY <1>2, <1>4, <2>1 DEF IInv, TypeOK
<1>6. Peers' /\ Owned' /\ Ordered' /\ Tracked' /\ OneToken' /\ ChanIsCentral'
  <2>1. \A e \in Devices :
            /\ at'[e]["rx"] \in Finding => RxAt(e) \in Finding
            /\ at'[e]["rx"] \in Serving => RxAt(e) \in Serving
            /\ at'[e]["rx"] = "chan" => RxAt(e) = "chan"
    BY <1>1, <1>4 DEF RxAt, Finding, Serving
  <2>2. \A e \in Devices : /\ init'[e] # e
                           /\ at'[e]["rx"] \in Finding => job'[e].peer \in Devices \ {e}
    BY <1>2, <2>1 DEF IInv, Peers
  <2>3. \A e \in Devices : at'[e]["rx"] = "chan" =>
            job[e].link # 0 /\ links[job[e].link].central = e
    BY <2>1 DEF IInv, ChanIsCentral
  <2>4. QED BY <1>2, <2>1, <2>2, <2>3, QuietStep
<1>7. ScanTrue'
  <2>1. \A e \in Devices, u \in Threads : at'[e][u] = "scanset" => at[e][u] = "scanset"
    BY <1>4
  <2>2. QED BY <1>2, <2>1 DEF IInv, ScanTrue
<1>8. Awake'
  <2>1. Busy(d)'
    BY <1>4 DEF Busy, RxAt
  <2>2. QED BY <1>2, <1>4, <2>1, AwakeStep DEF IInv
<1>9. QED BY <1>5, <1>6, <1>7, <1>8 DEF IInv

\* Scanning is stopped only when the flag is set. After connected_cb the thread goes to
\* its end, on to the channel, or back to advertising.
LEMMA StopScanningStep ==
    ASSUME IInv, NEW d \in Devices, NEW from, NEW to, StopScanning(d, from, to),
           \/ from = "found_scan" /\ to = "found_adv"
           \/ from = "conn_scan" /\ to = AfterConnected(d)
    PROVE  IInv'
<1>1. RxAt(d) = from /\ Goto(d, "rx", to)
  BY DEF StopScanning, At, RxAt
<1>2. /\ UNCHANGED <<default_conn, le_chan, links, rxq, wqq, overlap, init, job>>
      /\ UNCHANGED <<is_advertising, connecting, adv, fails>>
      /\ is_scanning' = [is_scanning EXCEPT ![d] = FALSE]
      /\ scan' = [scan EXCEPT ![d] = @ /\ ~is_scanning[d]]
  BY DEF StopScanning, history
<1>3. \/ from = "found_scan" /\ to = "found_adv"
      \/ from = "conn_scan" /\ job[d].link = 0 /\ to = "adv"
      \/ /\ from = "conn_scan" /\ job[d].link # 0
         /\ to = "chan" /\ links[job[d].link].central = d
      \/ from = "conn_scan" /\ job[d].link # 0 /\ to = "idle"
  BY DEF AfterConnected
<1>4. to \in Places
  BY <1>3 DEF Places
<1>5. /\ at' \in [Devices -> [Threads -> Places]]
      /\ at'[d]["rx"] = to
      /\ \A u \in Threads : u # "rx" => at'[d][u] = at[d][u]
      /\ \A e \in Devices \ {d} : at'[e] = at[e]
  BY <1>1, <1>4, RxGoto DEF IInv
<1>6. /\ scan' \in [Devices -> BOOLEAN] /\ is_scanning' \in [Devices -> BOOLEAN]
      /\ ~is_scanning'[d] /\ (scan[d] /\ ~is_scanning[d] => scan'[d])
      /\ \A e \in Devices \ {d} : scan'[e] = scan[e] /\ is_scanning'[e] = is_scanning[e]
  BY <1>2 DEF IInv, TypeOK
<1>7. TypeOK'
  BY <1>2, <1>5, <1>6 DEF IInv, TypeOK
<1>8. Peers' /\ Owned' /\ Ordered' /\ Tracked' /\ OneToken' /\ ChanIsCentral'
  <2>1. \A e \in Devices :
            /\ at'[e]["rx"] \in Finding => RxAt(e) \in Finding
            /\ at'[e]["rx"] \in Serving => RxAt(e) \in Serving
            /\ at'[e]["rx"] = "chan" =>
                 \/ RxAt(e) = "chan"
                 \/ RxAt(e) \in Serving /\ job[e].link # 0 /\ links[job[e].link].central = e
    BY <1>1, <1>3, <1>5 DEF RxAt, Finding, Serving
  <2>2. \A e \in Devices : /\ init'[e] # e
                           /\ at'[e]["rx"] \in Finding => job'[e].peer \in Devices \ {e}
    BY <1>2, <2>1 DEF IInv, Peers
  <2>3. \A e \in Devices : at'[e]["rx"] = "chan" =>
            /\ RxAt(e) \in Serving \cup {"chan"}
            /\ job[e].link # 0 /\ links[job[e].link].central = e
    BY <2>1 DEF IInv, ChanIsCentral
  <2>4. QED BY <1>2, <2>1, <2>2, <2>3, QuietStep
<1>9. ScanTrue'
  <2>1. \A e \in Devices, u \in Threads : at'[e][u] = "scanset" => at[e][u] = "scanset"
    BY <1>3, <1>5
  <2>2. QED BY <1>6, <2>1 DEF IInv, ScanTrue
<1>10. Awake'
  <2>1. overlap'[d] \/ Busy(d)' \/ Expects(d)'
    <3>1. CASE to \in {"found_adv", "adv"}
      <4>1. at'[d]["rx"] \in {"found_adv", "adv"} /\ "rx" \in Threads
        BY <1>5, <3>1 DEF Threads
      <4>2. QED BY <4>1 DEF Busy, RxAt
    <3>2. CASE from = "conn_scan" /\ job[d].link # 0
      <4>1. overlap[d] \/ default_conn[d] = job[d].link
        BY <1>1, <3>2 DEF IInv, Ordered, Serving
      <4>2. overlap'[d] \/ default_conn'[d] # 0
        BY <1>2, <3>2, <4>1
      <4>3. QED BY <4>2 DEF Expects
    <3>3. QED BY <1>3, <3>1, <3>2
  <2>2. QED BY <1>2, <1>5, <1>6, <2>1, AwakeStep DEF IInv
<1>11. QED BY <1>7, <1>8, <1>9, <1>10 DEF IInv

LEMMA ScanCbStep ==
    ASSUME IInv, NEW d \in Devices, NEW p \in Devices, ScanCb(d, p)
    PROVE  IInv'
<1>1. Goto(d, "rx", "found_scan") /\ scan[d] /\ p # d
  BY DEF ScanCb
<1>2. /\ UNCHANGED <<default_conn, le_chan, links, rxq, wqq, overlap, init>>
      /\ UNCHANGED <<is_advertising, is_scanning, connecting, adv, scan, fails>>
      /\ job' = [job EXCEPT ![d] = [link |-> 0, peer |-> p]]
  BY DEF ScanCb, flags, stack, history
<1>3. "found_scan" \in Places
  BY DEF Places
<1>4. /\ at' \in [Devices -> [Threads -> Places]]
      /\ at'[d]["rx"] = "found_scan"
      /\ \A u \in Threads : u # "rx" => at'[d][u] = at[d][u]
      /\ \A e \in Devices \ {d} : at'[e] = at[e]
  BY <1>1, <1>3, RxGoto DEF IInv
<1>5. /\ job' \in [Devices -> [link : LinkIds, peer : Devices \cup {NoDevice}]]
      /\ job'[d].link = 0 /\ job'[d].peer = p
      /\ \A e \in Devices \ {d} : job'[e] = job[e]
  <2>1. [link |-> 0, peer |-> p] \in [link : LinkIds, peer : Devices \cup {NoDevice}]
    BY ConstantFacts DEF LinkIds
  <2>2. QED BY <1>2, <2>1 DEF IInv, TypeOK
<1>6. TypeOK'
  BY <1>2, <1>4, <1>5 DEF IInv, TypeOK
<1>7. Peers' /\ Owned' /\ Ordered' /\ Tracked' /\ OneToken' /\ ChanIsCentral'
  <2>1. \A e \in Devices :
            /\ at'[e]["rx"] \in Serving => RxAt(e) \in Serving /\ job'[e] = job[e]
            /\ at'[e]["rx"] = "chan" => RxAt(e) = "chan" /\ job'[e] = job[e]
            /\ job'[e].link # 0 => job'[e].link = job[e].link
    BY <1>4, <1>5 DEF RxAt, Serving
  <2>2. \A e \in Devices : /\ init'[e] # e
                           /\ at'[e]["rx"] \in Finding => job'[e].peer \in Devices \ {e}
    BY <1>1, <1>2, <1>4, <1>5 DEF IInv, Peers, RxAt
  <2>3. \A e \in Devices : at'[e]["rx"] = "chan" =>
            job[e].link # 0 /\ links[job[e].link].central = e
    BY <2>1 DEF IInv, ChanIsCentral
  <2>4. QED BY <1>2, <2>1, <2>2, <2>3, QuietStep
<1>8. ScanTrue'
  <2>1. \A e \in Devices, u \in Threads : at'[e][u] = "scanset" => at[e][u] = "scanset"
    BY <1>4
  <2>2. QED BY <1>2, <2>1 DEF IInv, ScanTrue
<1>9. Awake'
  BY <1>1, <1>2, <1>4, AwakeStep DEF IInv
<1>10. QED BY <1>6, <1>7, <1>8, <1>9 DEF IInv

LEMMA LeCreateStep ==
    ASSUME IInv, NEW d \in Devices, LeCreate(d)
    PROVE  IInv'
<1>1. RxAt(d) = "create"
  BY DEF LeCreate, At, RxAt
<1>2. /\ UNCHANGED <<default_conn, le_chan, links, rxq, wqq, overlap>>
      /\ UNCHANGED <<is_advertising, is_scanning, adv, scan, fails>>
      /\ job' = [job EXCEPT ![d] = NoJob]
  BY DEF LeCreate, history
<1>3. job[d].peer \in Devices \ {d}
  BY <1>1 DEF IInv, Peers, Finding
<1>4. PICK to \in {"idle", "adv"} :
          /\ Goto(d, "rx", to)
          /\ init' = IF to = "idle" THEN [init EXCEPT ![d] = job[d].peer] ELSE init
          /\ \/ connecting' = [connecting EXCEPT ![d] = TRUE]
             \/ connecting' = [connecting EXCEPT ![d] = FALSE]
  BY DEF LeCreate
<1>5. to \in Places
  BY <1>4 DEF Places
<1>6. /\ at' \in [Devices -> [Threads -> Places]]
      /\ at'[d]["rx"] = to
      /\ \A u \in Threads : u # "rx" => at'[d][u] = at[d][u]
      /\ \A e \in Devices \ {d} : at'[e] = at[e]
  BY <1>4, <1>5, RxGoto DEF IInv
<1>7. /\ job' \in [Devices -> [link : LinkIds, peer : Devices \cup {NoDevice}]]
      /\ job'[d].link = 0
      /\ \A e \in Devices \ {d} : job'[e] = job[e]
  <2>1. NoJob \in [link : LinkIds, peer : Devices \cup {NoDevice}] /\ NoJob.link = 0
    BY ConstantFacts DEF LinkIds, NoJob
  <2>2. QED BY <1>2, <2>1 DEF IInv, TypeOK
<1>8. /\ init' \in [Devices -> Devices \cup {NoDevice}]
      /\ to = "idle" => init'[d] = job[d].peer
      /\ to # "idle" => init'[d] = init[d]
      /\ \A e \in Devices \ {d} : init'[e] = init[e]
  BY <1>3, <1>4 DEF IInv, TypeOK
<1>9. connecting' \in [Devices -> BOOLEAN]
  BY <1>4 DEF IInv, TypeOK
<1>10. TypeOK'
  BY <1>2, <1>6, <1>7, <1>8, <1>9 DEF IInv, TypeOK
<1>11. Peers' /\ Owned' /\ Ordered' /\ Tracked' /\ OneToken' /\ ChanIsCentral'
  <2>1. \A e \in Devices :
            /\ at'[e]["rx"] \in Finding => RxAt(e) \in Finding /\ job'[e] = job[e]
            /\ at'[e]["rx"] \in Serving => RxAt(e) \in Serving /\ job'[e] = job[e]
            /\ at'[e]["rx"] = "chan" => RxAt(e) = "chan" /\ job'[e] = job[e]
            /\ job'[e].link # 0 => job'[e].link = job[e].link
    BY <1>6, <1>7 DEF RxAt, Finding, Serving
  <2>2. \A e \in Devices : /\ init'[e] # e
                           /\ at'[e]["rx"] \in Finding => job'[e].peer \in Devices \ {e}
    BY <1>3, <1>8, <2>1 DEF IInv, Peers
  <2>3. \A e \in Devices : at'[e]["rx"] = "chan" =>
            job[e].link # 0 /\ links[job[e].link].central = e
    BY <2>1 DEF IInv, ChanIsCentral
  <2>4. QED BY <1>2, <2>1, <2>2, <2>3, QuietStep
<1>12. ScanTrue'
  <2>1. \A e \in Devices, u \in Threads : at'[e][u] = "scanset" => at[e][u] = "scanset"
    BY <1>6
  <2>2. QED BY <1>2, <2>1 DEF IInv, ScanTrue
<1>13. Awake'
  <2>1. Busy(d)' \/ Expects(d)'
    <3>1. CASE to = "adv"
      <4>1. at'[d]["rx"] = "adv" /\ "rx" \in Threads
        BY <1>6, <3>1 DEF Threads
      <4>2. QED BY <4>1 DEF Busy
    <3>2. CASE to = "idle"
      BY <1>3, <1>8, <3>2, ConstantFacts DEF Expects
    <3>3. QED BY <3>1, <3>2
  <2>2. QED BY <1>2, <1>6, <1>8, <2>1, AwakeStep DEF IInv
<1>14. QED BY <1>10, <1>11, <1>12, <1>13 DEF IInv

-----------------------------------------------------------------------------
(* Steps over the channel.                                                 *)

Channel == {"accept", "open", "ping", "pong"}

LEMMA LinkFacts ==
    ASSUME TypeOK, Peers
    PROVE  /\ 0 \notin DOMAIN links
           /\ \A l \in DOMAIN links :
                 /\ l # 0 /\ l \in LinkIds
                 /\ links[l].central \in Devices /\ links[l].peripheral \in Devices
                 /\ links[l].up \in BOOLEAN
<1>1. links \in Seq([central : Devices, peripheral : Devices, up : BOOLEAN])
  BY DEF TypeOK
<1>2. DOMAIN links = 1 .. Len(links) /\ Len(links) \in Nat
  BY <1>1, LenProperties
<1>3. \A l \in 1 .. Len(links) :
          links[l] \in [central : Devices, peripheral : Devices, up : BOOLEAN]
  BY <1>1, LenProperties
<1>4. \A l \in 1 .. Len(links) : l # 0 /\ l \in LinkIds
  BY <1>2, ConstantFacts DEF Peers, LinkIds
<1>5. QED BY <1>2, <1>3, <1>4

\* The other end of a connection.
LEMMA PeerFacts ==
    ASSUME TypeOK, Peers, NEW d \in Devices, NEW l, Belongs(links, d, l)
    PROVE  /\ Peer(d, l) \in Devices /\ Peer(d, l) # d /\ Belongs(links, Peer(d, l), l)
           /\ links[l].central = d => Peer(d, l) = links[l].peripheral
           /\ links[l].peripheral = d => Peer(d, l) = links[l].central
BY LinkFacts DEF Peers, Belongs, Peer

LEMMA TakenTold ==
    ASSUME TypeOK, NEW d \in Devices, NEW P, NEW x, Queues(First(d), P, x),
           NEW e \in Devices, NEW kind, NEW l, Told(e, kind, l),
           ~(e = d /\ rxq[d][1].kind = kind /\ rxq[d][1].link = l)
    PROVE  Told(e, kind, l)'
<1>1. \A a \in (1 .. Len(rxq[e])) \cap First(d)[e] :
          ~(rxq[e][a].kind = kind /\ rxq[e][a].link = l)
  BY DEF First
<1>2. QED BY <1>1, ToldStep

\* A token at the head is the only one: without it there is none.
LEMMA TakenToken ==
    ASSUME TypeOK, OneToken, NEW d \in Devices, 1 \in 1 .. Len(rxq[d]), NEW l \in DOMAIN links,
           Token(links, d, rxq[d][1], l)
    PROVE  /\ \A e \in Devices : ~InHand(e, l)
           /\ \A e \in Devices : \A a \in (1 .. Len(rxq[e])) \ First(d)[e] :
                 ~Token(links, e, rxq[e][a], l)
<1>1. ASSUME NEW e \in Devices, NEW a \in (1 .. Len(rxq[e])) \ First(d)[e],
             Token(links, e, rxq[e][a], l)
      PROVE  FALSE
  <2>1. d = e /\ 1 = a
    BY <1>1 DEF OneToken
  <2>2. QED BY <2>1 DEF First
<1>2. QED BY <1>1 DEF OneToken

\* Messages of the channel are taken and sent; the receive thread may come from
\* bt_l2cap_chan_connect.
LEMMA ChannelStep ==
    ASSUME IInv,
           UNCHANGED <<default_conn, links, wqq, overlap, init, scan, is_scanning, fails>>,
           NEW dd, NEW P, NEW x, Typed, Queues(dd, P, x),
           \A e \in Devices : \A a \in (1 .. Len(rxq[e])) \cap dd[e] : rxq[e][a].kind \in Channel,
           \A e \in Devices : e \in P => x.kind \in Channel /\ Valid(links, e, x),
           \A e \in Devices :
              \/ le_chan'[e] = le_chan[e] \/ le_chan'[e] = 0
              \/ Belongs(links, e, le_chan'[e]) /\ Up(le_chan'[e]),
           \A e \in Devices :
              \/ at'[e] = at[e] /\ job'[e] = job[e]
              \/ /\ RxAt(e) = "chan" /\ at'[e]["rx"] = "idle" /\ job'[e].link = 0
                 /\ \A u \in Threads : u # "rx" => at'[e][u] = at[e][u]
    PROVE  Peers' /\ Owned' /\ Ordered' /\ Tracked' /\ ScanTrue' /\ Awake' /\ ChanIsCentral'
<1>1. /\ default_conn' = default_conn /\ links' = links /\ wqq' = wqq /\ overlap' = overlap
      /\ init' = init /\ scan' = scan /\ is_scanning' = is_scanning /\ fails' = fails
  OBVIOUS
<1>2. \A l : Up(l)' <=> Up(l)
  BY <1>1 DEF Up
<1>3. \A e, l : Left(e, l)' <=> Left(e, l)
  BY <1>1 DEF Left
<1>4. \A e \in Devices : \A kind, l : kind \notin Channel => (Told(e, kind, l)' <=> Told(e, kind, l))
  <2>1. SUFFICES ASSUME NEW e \in Devices, NEW kind, NEW l, kind \notin Channel
                 PROVE  Told(e, kind, l)' <=> Told(e, kind, l)
    OBVIOUS
  <2>2. \A a \in (1 .. Len(rxq[e])) \cap dd[e] : ~(rxq[e][a].kind = kind /\ rxq[e][a].link = l)
    BY <2>1
  <2>3. Told(e, kind, l) => Told(e, kind, l)'
    BY <2>2, ToldStep DEF IInv
  <2>4. Told(e, kind, l)' =>
            \E a \in (1 .. Len(rxq[e])) \ dd[e] : rxq[e][a].kind = kind /\ rxq[e][a].link = l
    BY <2>1, ToldStep DEF IInv
  <2>5. QED BY <2>3, <2>4 DEF Told
<1>5. \A e \in Devices : RxAt(e)' \in Finding \cup Serving \cup {"chan"} =>
          at'[e] = at[e] /\ job'[e] = job[e]
  BY DEF RxAt, Finding, Serving
<1>6. Peers'
  BY <1>1, <1>5 DEF IInv, Peers, RxAt
<1>7. Owned'
  <2>1. \A e \in Devices : \A i \in 1 .. Len(rxq'[e]) : Valid(links, e, rxq'[e][i])
    <3>1. \A e \in Devices : \A a \in (1 .. Len(rxq[e])) \ dd[e] : Valid(links, e, rxq[e][a])
      BY DEF IInv, Owned
    <3>2. QED BY <3>1, ValidStep DEF IInv
  <2>2. \A e \in Devices : job'[e].link # 0 => Belongs(links, e, job'[e].link)
    BY DEF IInv, Owned
  <2>3. \A e \in Devices : le_chan'[e] # 0 => Belongs(links, e, le_chan'[e])
    BY DEF IInv, Owned
  <2>4. QED BY <1>1, <2>1, <2>2, <2>3 DEF IInv, Owned
<1>8. Ordered'
  <2>1. \A e \in Devices : e \in P /\ x.kind = "connected" => ~Told(e, "disconnected", x.link)
    BY DEF Channel
  <2>2. \A e \in Devices, i, j \in Nat :
            /\ i \in 1 .. Len(rxq'[e]) /\ j \in 1 .. Len(rxq'[e])
            /\ rxq'[e][i].kind = "disconnected" /\ rxq'[e][j].kind = "connected"
            /\ rxq'[e][j].link = rxq'[e][i].link
            => j < i
    BY <2>1, OrderStep DEF IInv
  <2>3. \A e \in Devices : \A l \in DOMAIN links : Told(e, "connected", l)' =>
            ~Left(e, l)' /\ (Up(l)' \/ Told(e, "disconnected", l)')
    BY <1>2, <1>3, <1>4 DEF IInv, Ordered, Channel
  <2>4. \A e \in Devices : RxAt(e)' \in Serving /\ job'[e].link # 0 =>
            ~Left(e, job[e].link)' /\ (overlap'[e] \/ default_conn'[e] = job'[e].link)
    <3>1. ASSUME NEW e \in Devices, RxAt(e)' \in Serving, job'[e].link # 0
          PROVE  ~Left(e, job[e].link)' /\ (overlap'[e] \/ default_conn'[e] = job'[e].link)
      <4>1. job'[e] = job[e] /\ RxAt(e) \in Serving
        BY <1>5, <3>1 DEF RxAt
      <4>2. ~Left(e, job[e].link) /\ (overlap[e] \/ default_conn[e] = job[e].link)
        BY <3>1, <4>1 DEF IInv, Ordered
      <4>3. QED BY <1>1, <4>1, <4>2 DEF Left
    <3>2. QED BY <3>1
  <2>5. QED BY <1>1, <2>2, <2>3, <2>4 DEF Ordered
<1>9. Tracked'
  BY <1>1, <1>2, <1>3, <1>4 DEF IInv, Tracked, Channel
<1>10. \A e \in Devices, u \in Threads : u # "rx" => at'[e][u] = at[e][u]
  OBVIOUS
<1>11. \A e \in Devices, u \in Threads : at'[e][u] = at[e][u] \/ (at[e][u] = "chan" /\ at'[e][u] = "idle")
  BY DEF RxAt
<1>12. ScanTrue'
  <2>1. \A e \in Devices, u \in Threads : at'[e][u] = "scanset" => at[e][u] = "scanset"
    BY <1>11
  <2>2. QED BY <1>1, <2>1 DEF IInv, ScanTrue
<1>13. Awake'
  <2>1. \A e \in Devices : Busy(e) => Busy(e)'
    BY <1>11 DEF Busy, RxAt, Threads
  <2>2. \A e \in Devices : Expects(e) => Expects(e)'
    <3>1. ASSUME NEW e \in Devices, NEW i \in 1 .. Len(rxq[e]), rxq[e][i].kind = "connected"
          PROVE  \E j \in 1 .. Len(rxq'[e]) : rxq'[e][j].kind = "connected"
      <4>1. Told(e, "connected", rxq[e][i].link)
        BY <3>1 DEF Told
      <4>2. PICK l : l = rxq[e][i].link
        OBVIOUS
      <4>3. Told(e, "connected", l)'
        BY <1>4, <4>1, <4>2 DEF Channel
      <4>4. QED BY <4>3 DEF Told
    <3>2. QED BY <1>1, <3>1 DEF Expects
  <2>3. QED BY <1>1, <2>1, <2>2 DEF IInv, Awake
<1>14. ChanIsCentral'
  BY <1>1, <1>5 DEF IInv, ChanIsCentral, RxAt
<1>15. QED BY <1>6, <1>7, <1>8, <1>9, <1>12, <1>13, <1>14

\* The channel is opened over a connection that is still up, or not at all.
LEMMA ChanConnectStep ==
    ASSUME IInv, NEW d \in Devices, ChanConnect(d)
    PROVE  IInv'
<1>0. PICK l, p : l = job[d].link /\ p = Peer(d, l)
  OBVIOUS
<1> DEFINE x == [kind |-> "accept", link |-> l]
<1>1. /\ RxAt(d) = "chan" /\ Goto(d, "rx", "idle")
      /\ UNCHANGED <<default_conn, links, wqq, overlap, init, scan, is_scanning, fails>>
      /\ UNCHANGED <<is_advertising, connecting, adv>>
      /\ job' = [job EXCEPT ![d] = NoJob]
      /\ \/ /\ Up(l) /\ le_chan' = [le_chan EXCEPT ![d] = l]
            /\ rxq' = [rxq EXCEPT ![p] = Append(@, x)]
         \/ ~Up(l) /\ le_chan' = [le_chan EXCEPT ![d] = 0] /\ rxq' = rxq
  BY <1>0 DEF ChanConnect, flags, stack, history, At, RxAt
<1>2. l # 0 /\ links[l].central = d /\ Belongs(links, d, l) /\ l \in DOMAIN links /\ l \in LinkIds
  BY <1>0, <1>1, LinkFacts DEF IInv, ChanIsCentral, Owned, Belongs
<1>3. p \in Devices /\ p # d /\ Belongs(links, p, l) /\ p = links[l].peripheral
  BY <1>0, <1>2, PeerFacts DEF IInv
<1>4. x \in Messages /\ x.kind = "accept" /\ x.link = l
  BY <1>2, MessageType DEF Kinds
<1>5. /\ at' \in [Devices -> [Threads -> Places]]
      /\ at'[d]["rx"] = "idle"
      /\ \A u \in Threads : u # "rx" => at'[d][u] = at[d][u]
      /\ \A e \in Devices \ {d} : at'[e] = at[e]
  <2>1. "idle" \in Places
    BY DEF Places
  <2>2. QED BY <1>1, <2>1, RxGoto DEF IInv
<1>6. /\ job' \in [Devices -> [link : LinkIds, peer : Devices \cup {NoDevice}]]
      /\ job'[d].link = 0
      /\ \A e \in Devices \ {d} : job'[e] = job[e]
  <2>1. NoJob \in [link : LinkIds, peer : Devices \cup {NoDevice}] /\ NoJob.link = 0
    BY ConstantFacts DEF LinkIds, NoJob
  <2>2. QED BY <1>1, <2>1 DEF IInv, TypeOK
<1>7. /\ le_chan' \in [Devices -> LinkIds]
      /\ \A e \in Devices \ {d} : le_chan'[e] = le_chan[e]
      /\ le_chan'[d] = 0 \/ (le_chan'[d] = l /\ Up(l))
  <2>1. 0 \in LinkIds
    BY ConstantFacts DEF LinkIds
  <2>2. \/ Up(l) /\ le_chan' = [le_chan EXCEPT ![d] = l]
        \/ le_chan' = [le_chan EXCEPT ![d] = 0]
    BY <1>1
  <2>3. le_chan \in [Devices -> LinkIds]
    BY DEF IInv, TypeOK
  <2>4. QED BY <1>2, <2>1, <2>2, <2>3
<1> HIDE DEF x
<1>8. PICK P \in {{}, {p}} : Typed /\ Queues(None, P, x) /\ (P # {} => Up(l))
  <2>1. CASE Up(l)
    BY <1>1, <1>3, <1>4, <2>1, QueuesSent DEF IInv
  <2>2. CASE ~Up(l)
    BY <1>1, <2>2, QueuesSame DEF IInv
  <2>3. QED BY <2>1, <2>2
<1>9. P # {} => Up(l)
  BY <1>8
<1>10. TypeOK'
  BY <1>1, <1>5, <1>6, <1>7, <1>8 DEF IInv, TypeOK, Typed, Messages
<1>11. Peers' /\ Owned' /\ Ordered' /\ Tracked' /\ ScanTrue' /\ Awake' /\ ChanIsCentral'
  <2>1. \A e \in Devices : \A a \in (1 .. Len(rxq[e])) \cap None[e] : rxq[e][a].kind \in Channel
    BY DEF None
  <2>2. \A e \in Devices : e \in P => x.kind \in Channel /\ Valid(links, e, x)
    BY <1>2, <1>3, <1>4, <1>8, <1>9 DEF Channel, Valid, Up
  <2>3. \A e \in Devices : \/ le_chan'[e] = le_chan[e] \/ le_chan'[e] = 0
                           \/ Belongs(links, e, le_chan'[e]) /\ Up(le_chan'[e])
    BY <1>2, <1>7
  <2>4. \A e \in Devices :
            \/ at'[e] = at[e] /\ job'[e] = job[e]
            \/ /\ RxAt(e) = "chan" /\ at'[e]["rx"] = "idle" /\ job'[e].link = 0
               /\ \A u \in Threads : u # "rx" => at'[e][u] = at[e][u]
    BY <1>1, <1>5, <1>6
  <2>5. QED BY <1>1, <1>8, <2>1, <2>2, <2>3, <2>4, ChannelStep
<1>12. OneToken'
  <2>1. \A e \in Devices : \A m : InHand(e, m)' => e # d /\ InHand(e, m)
    BY <1>1, <1>5, <1>6 DEF InHand, RxAt, Serving
  <2>2. InHand(d, l)
    BY <1>0, <1>1, <1>2 DEF InHand
  <2>3. \A e \in Devices : \A a \in 1 .. Len(rxq[e]) : ~Token(links, e, rxq[e][a], l)
    BY <1>2, <2>2 DEF IInv, OneToken
  <2>4. \A e \in Devices : ~InHand(e, l)'
    <3>1. \A e \in Devices : InHand(e, l) => e = d
      BY <1>2 DEF InHand
    <3>2. QED BY <2>1, <3>1
  <2>5. Others(l, P, x)
    BY <1>1, <1>4, <2>1 DEF Token, Others
  <2>6. Anew(l, None, P, x)
    BY <1>1, <1>8, <2>3, <2>4 DEF Anew
  <2>7. QED BY <1>8, <2>5, <2>6, TokenStep DEF IInv
<1>13. QED BY <1>10, <1>11, <1>12 DEF IInv

\* The event at the head is valid.
LEMMA HeadValid ==
    ASSUME IInv, NEW d \in Devices, NEW kind, NEW l, Event(d, kind, l)
    PROVE  /\ 1 \in 1 .. Len(rxq[d]) /\ rxq[d] # <<>> /\ RxAt(d) = "idle"
           /\ rxq[d][1].kind = kind /\ rxq[d][1].link = l /\ kind \in Kinds /\ l \in LinkIds
           /\ l # 0 => l \in DOMAIN links /\ Belongs(links, d, l)
           /\ kind # "connected" => l # 0
           /\ kind \in Channel => links[l].up /\ Up(l)
           /\ kind = "accept" => links[l].peripheral = d
<1>1. /\ rxq[d] # <<>> /\ at[d]["rx"] = "idle"
      /\ rxq[d][1] = [kind |-> kind, link |-> l] /\ 1 \in 1 .. Len(rxq[d])
      /\ kind \in Kinds /\ l \in LinkIds
  BY EventFacts DEF IInv
<1>2. Valid(links, d, rxq[d][1])
  BY <1>1 DEF IInv, Owned
<1>3. rxq[d][1].kind = kind /\ rxq[d][1].link = l
  BY <1>1
<1>4. QED BY <1>1, <1>2, <1>3 DEF Valid, Belongs, Channel, Up, RxAt

\* A token is passed on to the other end, or an event is dropped.
LEMMA PassStep ==
    ASSUME IInv, NEW d \in Devices, NEW l, NEW kind \in Channel, Event(d, kind, l),
           NEW msg \in {"ping", "pong"},
           UNCHANGED <<flags, le_chan, stack, wqq, at, job, history>>,
           \/ rxq' = [rxq EXCEPT ![d] = Tail(@)]
           \/ /\ Token(links, d, rxq[d][1], l)
              /\ rxq' = [rxq EXCEPT ![d] = Tail(@),
                                    ![Peer(d, l)] = Append(@, [kind |-> msg, link |-> l])]
    PROVE  IInv'
<1> DEFINE x == [kind |-> msg, link |-> l]
<1>0. PICK p : p = Peer(d, l)
  OBVIOUS
<1>1. /\ UNCHANGED <<default_conn, links, wqq, overlap, init, scan, is_scanning, fails>>
      /\ UNCHANGED <<is_advertising, connecting, adv, le_chan, at, job>>
  BY DEF flags, stack, history
<1>2. /\ 1 \in 1 .. Len(rxq[d]) /\ rxq[d] # <<>>
      /\ rxq[d][1].kind = kind /\ rxq[d][1].link = l /\ l \in LinkIds
      /\ l # 0 /\ l \in DOMAIN links /\ Belongs(links, d, l) /\ links[l].up
  <2>1. kind # "connected"
    BY DEF Channel
  <2>2. QED BY <2>1, HeadValid
<1>3. p \in Devices /\ p # d /\ Belongs(links, p, l)
  BY <1>0, <1>2, PeerFacts DEF IInv
<1>4. x \in Messages /\ x.kind = msg /\ x.link = l
  BY <1>2, MessageType DEF Kinds
<1> HIDE DEF x
<1>5. PICK P \in {{}, {p}} : /\ Typed /\ Queues(First(d), P, x)
                             /\ P # {} => Token(links, d, rxq[d][1], l)
  <2>1. CASE rxq' = [rxq EXCEPT ![d] = Tail(@)]
    BY <1>2, <2>1, QueuesTaken DEF IInv
  <2>2. CASE /\ Token(links, d, rxq[d][1], l)
             /\ rxq' = [rxq EXCEPT ![d] = Tail(@),
                                   ![Peer(d, l)] = Append(@, [kind |-> msg, link |-> l])]
    <3>1. rxq' = [rxq EXCEPT ![d] = Tail(@), ![p] = Append(@, x)]
      BY <1>0, <2>2 DEF x
    <3>2. TypeOK /\ rxq[d] # <<>>
      BY <1>2 DEF IInv
    <3>3. Typed /\ Queues(First(d), {p}, x)
      BY <1>3, <1>4, <3>1, <3>2, QueuesPassed
    <3>4. QED BY <2>2, <3>3
  <2>3. QED BY <2>1, <2>2
<1>6. TypeOK'
  BY <1>1, <1>5 DEF IInv, TypeOK, Typed, Messages
<1>7. Peers' /\ Owned' /\ Ordered' /\ Tracked' /\ ScanTrue' /\ Awake' /\ ChanIsCentral'
  <2>1. \A e \in Devices : \A a \in (1 .. Len(rxq[e])) \cap First(d)[e] : rxq[e][a].kind \in Channel
    BY <1>2 DEF First
  <2>2. \A e \in Devices : e \in P => x.kind \in Channel /\ Valid(links, e, x)
    BY <1>2, <1>3, <1>4 DEF Channel, Valid
  <2>3. QED BY <1>1, <1>5, <2>1, <2>2, ChannelStep
<1>8. OneToken'
  <2>1. \A e \in Devices : \A m : InHand(e, m)' <=> InHand(e, m)
    BY <1>1 DEF InHand, RxAt
  <2>2. CASE P = {}
    <3>1. \A m : Others(m, P, x)
      BY <1>1, <2>1, <2>2 DEF Others
    <3>2. QED BY <1>5, <3>1, TokensKept DEF IInv
  <2>3. CASE P # {}
    <3>1. /\ \A e \in Devices : ~InHand(e, l)
          /\ \A e \in Devices : \A a \in (1 .. Len(rxq[e])) \ First(d)[e] :
                ~Token(links, e, rxq[e][a], l)
      BY <1>2, <1>5, <2>3, TakenToken DEF IInv
    <3>2. Others(l, P, x)
      BY <1>1, <1>4, <2>1 DEF Token, Others
    <3>3. Anew(l, First(d), P, x)
      BY <1>1, <1>5, <2>1, <3>1 DEF Anew
    <3>4. QED BY <1>5, <3>2, <3>3, TokenStep DEF IInv
  <2>4. QED BY <2>2, <2>3
<1>9. QED BY <1>6, <1>7, <1>8 DEF IInv

\* The device that made the connection begins, and only it.
LEMMA ChanConnectedStep ==
    ASSUME IInv, NEW d \in Devices, NEW l, ChanConnected(d, l)
    PROVE  IInv'
<1>1. /\ Event(d, "open", l) /\ "open" \in Channel
      /\ UNCHANGED <<flags, le_chan, stack, wqq, at, job, history>>
  BY DEF ChanConnected, Channel
<1>2. \/ rxq' = [rxq EXCEPT ![d] = Tail(@)]
      \/ /\ links[l].central = d
         /\ rxq' = [rxq EXCEPT ![d] = Tail(@),
                               ![Peer(d, l)] = Append(@, [kind |-> "ping", link |-> l])]
  BY DEF ChanConnected, Send
<1>3. rxq[d][1].kind = "open" /\ rxq[d][1].link = l
  BY <1>1, HeadValid
<1>4. links[l].central = d => Token(links, d, rxq[d][1], l)
  BY <1>3 DEF Token
<1>5. QED BY <1>1, <1>2, <1>4, PassStep

\* The ball is answered, or lost.
LEMMA ChanRecvStep ==
    ASSUME IInv, NEW d \in Devices, NEW l, ChanRecv(d, l)
    PROVE  IInv'
<1>1. UNCHANGED <<flags, le_chan, stack, wqq, at, job, history>>
  BY DEF ChanRecv
<1>2. PICK kind \in {"ping", "pong"}, msg \in {"ping", "pong"} :
          Event(d, kind, l) /\ Send(d, l, msg)
  BY DEF ChanRecv
<1>3. \/ rxq' = [rxq EXCEPT ![d] = Tail(@)]
      \/ rxq' = [rxq EXCEPT ![d] = Tail(@),
                            ![Peer(d, l)] = Append(@, [kind |-> msg, link |-> l])]
  BY <1>2 DEF Send
<1>4. kind \in Channel
  BY DEF Channel
<1>5. rxq[d][1].kind = kind /\ rxq[d][1].link = l
  BY <1>2, HeadValid
<1>6. Token(links, d, rxq[d][1], l)
  BY <1>5 DEF Token
<1>7. QED BY <1>1, <1>2, <1>3, <1>4, <1>6, PassStep

\* The channel is open: the end that begins has the token now.
LEMMA AcceptConnStep ==
    ASSUME IInv, NEW d \in Devices, NEW l, AcceptConn(d, l)
    PROVE  IInv'
<1> DEFINE x == [kind |-> "open", link |-> l]
<1>0. PICK p : p = Peer(d, l)
  OBVIOUS
<1>1. /\ UNCHANGED <<default_conn, links, wqq, overlap, init, scan, is_scanning, fails>>
      /\ UNCHANGED <<is_advertising, connecting, adv, at, job>>
      /\ Event(d, "accept", l) /\ le_chan' = [le_chan EXCEPT ![d] = l]
      /\ rxq' = [rxq EXCEPT ![d] = Tail(@) \o <<x>>, ![p] = Append(@, x)]
  BY <1>0 DEF AcceptConn, flags, stack, history
<1>2. /\ 1 \in 1 .. Len(rxq[d]) /\ rxq[d] # <<>>
      /\ rxq[d][1].kind = "accept" /\ rxq[d][1].link = l /\ l \in LinkIds
      /\ l # 0 /\ l \in DOMAIN links /\ Belongs(links, d, l) /\ links[l].up /\ Up(l)
      /\ links[l].peripheral = d
  <2>1. "accept" \in Channel
    BY DEF Channel
  <2>2. QED BY <1>1, <2>1, HeadValid
<1>3. p \in Devices /\ p # d /\ Belongs(links, p, l) /\ p = links[l].central
  BY <1>0, <1>2, PeerFacts DEF IInv
<1>4. x \in Messages /\ x.kind = "open" /\ x.link = l
  BY <1>2, MessageType DEF Kinds
<1> HIDE DEF x
<1>5. Typed /\ Queues(First(d), {d, p}, x)
  BY <1>1, <1>2, <1>3, <1>4, QueuesOpened DEF IInv
<1>6. /\ le_chan' \in [Devices -> LinkIds] /\ le_chan'[d] = l
      /\ \A e \in Devices \ {d} : le_chan'[e] = le_chan[e]
  BY <1>1, <1>2 DEF IInv, TypeOK
<1>7. TypeOK'
  BY <1>1, <1>5, <1>6 DEF IInv, TypeOK, Typed, Messages
<1>8. Peers' /\ Owned' /\ Ordered' /\ Tracked' /\ ScanTrue' /\ Awake' /\ ChanIsCentral'
  <2>1. \A e \in Devices : \A a \in (1 .. Len(rxq[e])) \cap First(d)[e] : rxq[e][a].kind \in Channel
    BY <1>2 DEF First, Channel
  <2>2. \A e \in Devices : e \in {d, p} => x.kind \in Channel /\ Valid(links, e, x)
    BY <1>2, <1>3, <1>4 DEF Channel, Valid
  <2>3. \A e \in Devices : \/ le_chan'[e] = le_chan[e] \/ le_chan'[e] = 0
                           \/ Belongs(links, e, le_chan'[e]) /\ Up(le_chan'[e])
    BY <1>2, <1>6
  <2>4. QED BY <1>1, <1>5, <2>1, <2>2, <2>3, ChannelStep
<1>9. OneToken'
  <2>1. \A e \in Devices : \A m : InHand(e, m)' <=> InHand(e, m)
    BY <1>1 DEF InHand, RxAt
  <2>2. /\ \A e \in Devices : ~InHand(e, l)
        /\ \A e \in Devices : \A a \in (1 .. Len(rxq[e])) \ First(d)[e] :
              ~Token(links, e, rxq[e][a], l)
    <3>1. Token(links, d, rxq[d][1], l)
      BY <1>2 DEF Token
    <3>2. QED BY <1>2, <3>1, TakenToken DEF IInv
  <2>3. Others(l, {d, p}, x)
    BY <1>1, <1>4, <2>1 DEF Token, Others
  <2>4. ~Token(links', d, x, l)
    BY <1>1, <1>3, <1>4 DEF Token
  <2>5. Anew(l, First(d), {d, p}, x)
    BY <1>1, <2>1, <2>2, <2>4 DEF Anew
  <2>6. QED BY <1>5, <2>3, <2>5, TokenStep DEF IInv
<1>10. QED BY <1>7, <1>8, <1>9 DEF IInv

-----------------------------------------------------------------------------
(* Steps of connections that begin and end.                                *)

\* connected_cb: the connection is taken into default_conn, or overlap says that it
\* was not; the token of its central goes from the queue into the thread's hand.
LEMMA ConnectedCbStep ==
    ASSUME IInv, NEW d \in Devices, NEW l, ConnectedCb(d, l)
    PROVE  IInv'
<1>1. /\ UNCHANGED <<links, wqq, init, scan, is_scanning, fails, le_chan, is_advertising, adv>>
      /\ Event(d, "connected", l) /\ Goto(d, "rx", "conn_adv")
      /\ rxq' = [rxq EXCEPT ![d] = Tail(@)]
      /\ connecting' = [connecting EXCEPT ![d] = FALSE]
      /\ default_conn' = [default_conn EXCEPT ![d] = IF @ = 0 THEN l ELSE @]
      /\ overlap' = [overlap EXCEPT ![d] = @ \/ (l # 0 /\ default_conn[d] # 0)]
      /\ job' = [job EXCEPT ![d] = [link |-> l, peer |-> NoDevice]]
  BY DEF ConnectedCb, stack
<1>2. /\ 1 \in 1 .. Len(rxq[d]) /\ rxq[d] # <<>> /\ RxAt(d) = "idle"
      /\ rxq[d][1].kind = "connected" /\ rxq[d][1].link = l /\ l \in LinkIds
      /\ l # 0 => l \in DOMAIN links /\ Belongs(links, d, l)
  BY <1>1, HeadValid
<1>3. PICK x \in Messages : TRUE
  BY <1>2, MessageType DEF Kinds
<1>4. PICK P : (\A e \in Devices : e \notin P) /\ Typed /\ Queues(First(d), P, x)
  <2>1. Typed /\ Queues(First(d), {}, x)
    BY <1>1, <1>2, QueuesTaken DEF IInv
  <2>2. \A e \in Devices : e \notin {}
    OBVIOUS
  <2>3. QED BY <2>1, <2>2
<1>5. /\ at' \in [Devices -> [Threads -> Places]]
      /\ at'[d]["rx"] = "conn_adv"
      /\ \A u \in Threads : u # "rx" => at'[d][u] = at[d][u]
      /\ \A e \in Devices \ {d} : at'[e] = at[e]
  <2>1. "conn_adv" \in Places
    BY DEF Places
  <2>2. QED BY <1>1, <2>1, RxGoto DEF IInv
<1>6. /\ job' \in [Devices -> [link : LinkIds, peer : Devices \cup {NoDevice}]]
      /\ job'[d].link = l /\ \A e \in Devices \ {d} : job'[e] = job[e]
  <2>1. [link |-> l, peer |-> NoDevice] \in [link : LinkIds, peer : Devices \cup {NoDevice}]
    BY <1>2
  <2>2. QED BY <1>1, <2>1 DEF IInv, TypeOK
<1>7. /\ default_conn' \in [Devices -> LinkIds]
      /\ default_conn[d] = 0 => default_conn'[d] = l
      /\ default_conn[d] # 0 => default_conn'[d] = default_conn[d]
      /\ \A e \in Devices \ {d} : default_conn'[e] = default_conn[e]
  BY <1>1, <1>2 DEF IInv, TypeOK
<1>8. /\ overlap' \in [Devices -> BOOLEAN]
      /\ overlap'[d] <=> overlap[d] \/ (l # 0 /\ default_conn[d] # 0)
      /\ \A e \in Devices \ {d} : overlap'[e] = overlap[e]
  BY <1>1 DEF IInv, TypeOK
<1>9. connecting' \in [Devices -> BOOLEAN]
  BY <1>1 DEF IInv, TypeOK
<1>10. TypeOK'
  BY <1>1, <1>4, <1>5, <1>6, <1>7, <1>8, <1>9 DEF IInv, TypeOK, Typed, Messages
<1>11. Peers'
  BY <1>1, <1>5, <1>6 DEF IInv, Peers, RxAt, Finding
<1>12. Owned'
  <2>1. \A e \in Devices : \A i \in 1 .. Len(rxq'[e]) : Valid(links, e, rxq'[e][i])
    <3>1. \A e \in Devices : \A a \in (1 .. Len(rxq[e])) \ First(d)[e] :
              Valid(links, e, rxq[e][a])
      BY DEF IInv, Owned
    <3>2. QED BY <1>4, <3>1, ValidStep DEF IInv
  <2>2. \A e \in Devices : job'[e].link # 0 => Belongs(links, e, job'[e].link)
    BY <1>2, <1>6 DEF IInv, Owned
  <2>3. \A e \in Devices : default_conn'[e] # 0 => Belongs(links, e, default_conn'[e])
    BY <1>2, <1>7 DEF IInv, Owned
  <2>4. QED BY <1>1, <2>1, <2>2, <2>3 DEF IInv, Owned
<1>13. \A m : Up(m)' <=> Up(m)
  BY <1>1 DEF Up
<1>14. \A e, m : Left(e, m)' <=> Left(e, m)
  BY <1>1 DEF Left
<1>15. \A e \in Devices : \A m :
          /\ Told(e, "disconnected", m) => Told(e, "disconnected", m)'
          /\ Told(e, "connected", m)' => Told(e, "connected", m)
  <2>1. SUFFICES ASSUME NEW e \in Devices, NEW m
                 PROVE  /\ Told(e, "disconnected", m) => Told(e, "disconnected", m)'
                        /\ Told(e, "connected", m)' => Told(e, "connected", m)
    OBVIOUS
  <2>2. Told(e, "disconnected", m) => Told(e, "disconnected", m)'
    BY <1>2, <1>4, TakenTold DEF IInv
  <2>3. Told(e, "connected", m)' => Told(e, "connected", m)
    <3>1. Told(e, "connected", m)' =>
              \E a \in (1 .. Len(rxq[e])) \ First(d)[e] :
                 rxq[e][a].kind = "connected" /\ rxq[e][a].link = m
      BY <1>4, ToldStep DEF IInv
    <3>2. QED BY <3>1 DEF Told
  <2>4. QED BY <2>2, <2>3
<1>16. Told(d, "connected", l)
  BY <1>2 DEF Told
<1>17. Ordered'
  <2>1. \A e \in Devices, i, j \in Nat :
            /\ i \in 1 .. Len(rxq'[e]) /\ j \in 1 .. Len(rxq'[e])
            /\ rxq'[e][i].kind = "disconnected" /\ rxq'[e][j].kind = "connected"
            /\ rxq'[e][j].link = rxq'[e][i].link
            => j < i
    BY <1>4, OrderStep DEF IInv
  <2>2. \A e \in Devices : \A m \in DOMAIN links : Told(e, "connected", m)' =>
            ~Left(e, m)' /\ (Up(m)' \/ Told(e, "disconnected", m)')
    BY <1>13, <1>14, <1>15 DEF IInv, Ordered
  <2>3. \A e \in Devices : RxAt(e)' \in Serving /\ job'[e].link # 0 =>
            ~Left(e, job[e].link)' /\ (overlap'[e] \/ default_conn'[e] = job'[e].link)
    <3>1. ASSUME NEW e \in Devices \ {d}, RxAt(e)' \in Serving, job'[e].link # 0
          PROVE  ~Left(e, job[e].link)' /\ (overlap'[e] \/ default_conn'[e] = job'[e].link)
      <4>1. job'[e] = job[e] /\ RxAt(e) \in Serving
        BY <1>5, <1>6, <3>1 DEF RxAt
      <4>2. ~Left(e, job[e].link) /\ (overlap[e] \/ default_conn[e] = job[e].link)
        BY <3>1, <4>1 DEF IInv, Ordered
      <4>3. QED BY <1>1, <1>7, <1>8, <4>1, <4>2 DEF Left
    <3>2. ASSUME job'[d].link # 0
          PROVE  ~Left(d, job[d].link)' /\ (overlap'[d] \/ default_conn'[d] = job'[d].link)
      <4>1. l # 0 /\ l \in DOMAIN links
        BY <1>2, <1>6, <3>2
      <4>2. ~Left(d, l)
        BY <1>16, <4>1 DEF IInv, Ordered
      <4>3. ~Left(d, job[d].link)'
        BY <1>1, <1>6, <4>2 DEF Left
      <4>4. overlap'[d] \/ default_conn'[d] = l
        BY <1>7, <1>8, <4>1
      <4>5. QED BY <1>6, <4>3, <4>4
    <3>3. QED BY <3>1, <3>2
  <2>4. links' = links
    BY <1>1
  <2>5. QED BY <2>1, <2>2, <2>3, <2>4 DEF Ordered
<1>18. Tracked'
  <2>1. \A e \in Devices : default_conn[e] # 0 =>
            \/ Up(default_conn[e])' \/ Told(e, "disconnected", default_conn[e])
            \/ Left(e, default_conn[e])
    BY <1>1 DEF IInv, Tracked, Up
  <2>2. ASSUME NEW e \in Devices, NEW m, m = default_conn'[e], m # 0
        PROVE  Up(m)' \/ Told(e, "disconnected", m)' \/ Left(e, m)'
    <3>1. CASE m = default_conn[e]
      BY <1>13, <1>14, <1>15, <2>2, <3>1 DEF IInv, Tracked
    <3>2. CASE e = d /\ m = l
      <4>1. Up(l) \/ Told(d, "disconnected", l)
        BY <1>2, <1>16, <2>2, <3>2 DEF IInv, Ordered
      <4>2. QED BY <1>13, <1>15, <3>2, <4>1
    <3>3. QED BY <1>7, <2>2, <3>1, <3>2
  <2>3. ASSUME NEW e \in Devices, NEW m, m = le_chan'[e], m # 0
        PROVE  Up(m)' \/ Told(e, "disconnected", m)'
    BY <1>1, <1>13, <1>15, <2>3 DEF IInv, Tracked
  <2>4. QED BY <2>2, <2>3 DEF Tracked
<1>19. ScanTrue'
  <2>1. \A e \in Devices, u \in Threads : at'[e][u] = "scanset" => at[e][u] = "scanset"
    BY <1>5
  <2>2. QED BY <1>1, <2>1 DEF IInv, ScanTrue
<1>20. Awake'
  <2>1. Busy(d)'
    BY <1>5 DEF Busy, RxAt
  <2>2. \A e \in Devices \ {d} : \A i \in 1 .. Len(rxq[e]) : rxq[e][i].kind = "connected" =>
            \E j \in 1 .. Len(rxq'[e]) : rxq'[e][j].kind = "connected"
    <3>1. \A e \in Devices \ {d} : rxq'[e] = rxq[e]
      BY <1>1 DEF IInv, TypeOK
    <3>2. QED BY <3>1
  <2>3. QED BY <1>1, <1>5, <1>7, <1>8, <2>1, <2>2, AwakeStep DEF IInv
<1>21. OneToken'
  <2>1. \A e \in Devices : \A m : InHand(e, m)' => InHand(e, m) \/ (e = d /\ m = l /\ links[l].central = d)
    BY <1>1, <1>5, <1>6 DEF InHand, RxAt
  <2>2. CASE l \in DOMAIN links /\ links[l].central = d
    <3>1. \A e \in Devices : \A a \in (1 .. Len(rxq[e])) \ First(d)[e] :
              ~Token(links, e, rxq[e][a], l)
      <4>1. Token(links, d, rxq[d][1], l)
        BY <1>2, <2>2 DEF Token
      <4>2. QED BY <1>2, <2>2, <4>1, TakenToken DEF IInv
    <3>2. Others(l, P, x)
      BY <1>1, <1>4, <2>1 DEF Others
    <3>3. Anew(l, First(d), P, x)
      BY <1>1, <1>4, <3>1 DEF Anew
    <3>4. QED BY <1>4, <3>2, <3>3, TokenStep DEF IInv
  <2>3. CASE ~(l \in DOMAIN links /\ links[l].central = d)
    <3>1. \A m : Others(m, P, x)
      BY <1>1, <1>4, <2>1, <2>3 DEF Others
    <3>2. QED BY <1>4, <3>1, TokensKept DEF IInv
  <2>4. QED BY <2>2, <2>3
<1>22. ChanIsCentral'
  BY <1>1, <1>5, <1>6 DEF IInv, ChanIsCentral, RxAt
<1>23. QED BY <1>10, <1>11, <1>12, <1>17, <1>18, <1>19, <1>20, <1>21, <1>22 DEF IInv

\* What else is in the queue for disconnected_cb.
LEMMA LeftFacts ==
    ASSUME TypeOK, NEW d \in Devices
    PROVE  /\ \A l \in LinkIds : wqq' = [wqq EXCEPT ![d] = Append(@, l)] =>
                 /\ wqq' \in [Devices -> Seq(LinkIds)]
                 /\ \A e \in Devices : \A m : Left(e, m)' <=> Left(e, m) \/ (e = d /\ m = l)
           /\ wqq[d] # <<>> /\ wqq' = [wqq EXCEPT ![d] = Tail(@)] =>
                 /\ wqq' \in [Devices -> Seq(LinkIds)]
                 /\ Left(d, Head(wqq[d]))
                 /\ \A e \in Devices : \A m : Left(e, m)' => Left(e, m)
                 /\ \A e \in Devices : \A m : Left(e, m) => Left(e, m)' \/ (e = d /\ m = Head(wqq[d]))
<1>1. wqq[d] \in Seq(LinkIds) /\ Len(wqq[d]) \in Nat /\ wqq \in [Devices -> Seq(LinkIds)]
  BY QueueFacts DEF TypeOK
<1>2. ASSUME NEW l \in LinkIds, wqq' = [wqq EXCEPT ![d] = Append(@, l)]
      PROVE  /\ wqq' \in [Devices -> Seq(LinkIds)]
             /\ \A e \in Devices : \A m : Left(e, m)' <=> Left(e, m) \/ (e = d /\ m = l)
  <2> DEFINE u == Append(wqq[d], l)
  <2>1. /\ u \in Seq(LinkIds) /\ Len(u) = Len(wqq[d]) + 1 /\ u[Len(wqq[d]) + 1] = l
        /\ \A i \in 1 .. Len(wqq[d]) : u[i] = wqq[d][i]
    BY <1>1, AppendProperties
  <2>2. wqq'[d] = u /\ \A e \in Devices \ {d} : wqq'[e] = wqq[e]
    BY <1>1, <1>2
  <2>3. wqq' \in [Devices -> Seq(LinkIds)]
    BY <1>1, <1>2, <2>1
  <2> HIDE DEF u
  <2>4. /\ \A i \in 1 .. Len(u) : i \in 1 .. Len(wqq[d]) \/ i = Len(wqq[d]) + 1
        /\ \A i \in 1 .. Len(wqq[d]) : i \in 1 .. Len(u)
        /\ Len(wqq[d]) + 1 \in 1 .. Len(u)
    BY <1>1, <2>1
  <2>5. ASSUME NEW m PROVE Left(d, m)' <=> Left(d, m) \/ m = l
    BY <2>1, <2>2, <2>4 DEF Left
  <2>6. ASSUME NEW e \in Devices \ {d}, NEW m PROVE Left(e, m)' <=> Left(e, m)
    BY <2>2 DEF Left
  <2>7. QED BY <2>3, <2>5, <2>6
<1>3. ASSUME wqq[d] # <<>>, wqq' = [wqq EXCEPT ![d] = Tail(@)]
      PROVE  /\ wqq' \in [Devices -> Seq(LinkIds)]
             /\ Left(d, Head(wqq[d]))
             /\ \A e \in Devices : \A m : Left(e, m)' => Left(e, m)
             /\ \A e \in Devices : \A m : Left(e, m) => Left(e, m)' \/ (e = d /\ m = Head(wqq[d]))
  <2> DEFINE u == Tail(wqq[d])
  <2>1. /\ u \in Seq(LinkIds) /\ Len(u) = Len(wqq[d]) - 1 /\ Len(wqq[d]) > 0
        /\ \A i \in 1 .. Len(u) : u[i] = wqq[d][i + 1]
        /\ Head(wqq[d]) = wqq[d][1]
    BY <1>1, <1>3, HeadTailProperties, EmptySeq, LenProperties
  <2>2. wqq'[d] = u /\ \A e \in Devices \ {d} : wqq'[e] = wqq[e]
    BY <1>1, <1>3
  <2>3. wqq' \in [Devices -> Seq(LinkIds)]
    BY <1>1, <1>3, <2>1
  <2> HIDE DEF u
  <2>4. /\ \A i \in 1 .. Len(u) : i + 1 \in 1 .. Len(wqq[d])
        /\ \A i \in 1 .. Len(wqq[d]) : i = 1 \/ (i - 1 \in 1 .. Len(u) /\ u[i - 1] = wqq[d][i])
        /\ 1 \in 1 .. Len(wqq[d])
    BY <1>1, <2>1
  <2>5. ASSUME NEW m
        PROVE  (Left(d, m)' => Left(d, m)) /\ (Left(d, m) => Left(d, m)' \/ m = Head(wqq[d]))
    <3>1. ASSUME Left(d, m)' PROVE Left(d, m)
      <4>1. PICK i \in 1 .. Len(u) : u[i] = m
        BY <2>2, <3>1 DEF Left
      <4>2. i + 1 \in 1 .. Len(wqq[d]) /\ wqq[d][i + 1] = m
        BY <2>1, <2>4, <4>1
      <4>3. QED BY <4>2 DEF Left
    <3>2. ASSUME Left(d, m), m # Head(wqq[d]) PROVE Left(d, m)'
      <4>1. PICK i \in 1 .. Len(wqq[d]) : wqq[d][i] = m
        BY <3>2 DEF Left
      <4>2. i - 1 \in 1 .. Len(u) /\ u[i - 1] = m
        BY <2>1, <2>4, <3>2, <4>1
      <4>3. QED BY <2>2, <4>2 DEF Left
    <3>3. QED BY <3>1, <3>2
  <2>6. ASSUME NEW e \in Devices \ {d}, NEW m PROVE Left(e, m)' <=> Left(e, m)
    BY <2>2 DEF Left
  <2>7. Left(d, Head(wqq[d]))
    BY <2>1, <2>4 DEF Left
  <2>8. QED BY <2>3, <2>5, <2>6, <2>7
<1>4. QED BY <1>2, <1>3

\* The queue of what is left of disconnected_cb holds connections of the device.
LEMMA LeftOwned ==
    ASSUME TypeOK, \A e \in Devices : \A m : Left(e, m)' => Belongs(links, e, m)
    PROVE  \A e \in Devices : \A i \in 1 .. Len(wqq'[e]) : Belongs(links, e, wqq'[e][i])
<1>1. SUFFICES ASSUME NEW e \in Devices, NEW i \in 1 .. Len(wqq'[e])
               PROVE  Belongs(links, e, wqq'[e][i])
  OBVIOUS
<1>2. PICK m : m = wqq'[e][i]
  OBVIOUS
<1>3. Left(e, m)'
  BY <1>2 DEF Left
<1>4. QED BY <1>2, <1>3

\* The end of a connection reaches the work queue; the channel is let go.
LEMMA DisconnectingStep ==
    ASSUME IInv, NEW d \in Devices, NEW l, Disconnecting(d, l)
    PROVE  IInv'
<1>1. /\ UNCHANGED <<default_conn, links, overlap, init, scan, is_scanning, fails>>
      /\ UNCHANGED <<is_advertising, connecting, adv, at, job>>
      /\ Event(d, "disconnected", l)
      /\ rxq' = [rxq EXCEPT ![d] = Tail(@)]
      /\ le_chan' = [le_chan EXCEPT ![d] = IF @ = l THEN 0 ELSE @]
      /\ wqq' = [wqq EXCEPT ![d] = Append(@, l)]
  BY DEF Disconnecting, flags, stack, history
<1>2. /\ 1 \in 1 .. Len(rxq[d]) /\ rxq[d] # <<>> /\ RxAt(d) = "idle"
      /\ rxq[d][1].kind = "disconnected" /\ rxq[d][1].link = l /\ l \in LinkIds
      /\ l # 0 /\ l \in DOMAIN links /\ Belongs(links, d, l)
  BY <1>1, HeadValid
<1>3. PICK x \in Messages : TRUE
  BY <1>2, MessageType DEF Kinds
<1>4. PICK P : (\A e \in Devices : e \notin P) /\ Typed /\ Queues(First(d), P, x)
  <2>1. Typed /\ Queues(First(d), {}, x)
    BY <1>1, <1>2, QueuesTaken DEF IInv
  <2>2. \A e \in Devices : e \notin {}
    OBVIOUS
  <2>3. QED BY <2>1, <2>2
<1>5. /\ le_chan' \in [Devices -> LinkIds]
      /\ le_chan'[d] = IF le_chan[d] = l THEN 0 ELSE le_chan[d]
      /\ \A e \in Devices \ {d} : le_chan'[e] = le_chan[e]
  <2>1. 0 \in LinkIds
    BY ConstantFacts DEF LinkIds
  <2>2. le_chan \in [Devices -> LinkIds]
    BY DEF IInv, TypeOK
  <2>3. QED BY <1>1, <2>1, <2>2
<1>6. /\ wqq' \in [Devices -> Seq(LinkIds)]
      /\ \A e \in Devices : \A m : Left(e, m)' <=> Left(e, m) \/ (e = d /\ m = l)
  BY <1>1, <1>2, LeftFacts DEF IInv
<1>7. TypeOK'
  BY <1>1, <1>4, <1>5, <1>6 DEF IInv, TypeOK, Typed, Messages
<1>8. Peers'
  BY <1>1 DEF IInv, Peers, RxAt
<1>9. Owned'
  <2>1. \A e \in Devices : \A i \in 1 .. Len(rxq'[e]) : Valid(links, e, rxq'[e][i])
    <3>1. \A e \in Devices : \A a \in (1 .. Len(rxq[e])) \ First(d)[e] :
              Valid(links, e, rxq[e][a])
      BY DEF IInv, Owned
    <3>2. QED BY <1>4, <3>1, ValidStep DEF IInv
  <2>2. \A e \in Devices : \A m : Left(e, m) => Belongs(links, e, m)
    BY DEF IInv, Owned, Left
  <2>3. \A e \in Devices : \A i \in 1 .. Len(wqq'[e]) : Belongs(links, e, wqq'[e][i])
    BY <1>2, <1>6, <2>2, LeftOwned DEF IInv
  <2>4. \A e \in Devices : le_chan'[e] # 0 => Belongs(links, e, le_chan'[e])
    BY <1>5 DEF IInv, Owned
  <2>5. QED BY <1>1, <2>1, <2>3, <2>4 DEF IInv, Owned
<1>10. \A m : Up(m)' <=> Up(m)
  BY <1>1 DEF Up
<1>11. \A e \in Devices : \A m :
          /\ Told(e, "disconnected", m) => Told(e, "disconnected", m)' \/ (e = d /\ m = l)
          /\ Told(e, "connected", m) => Told(e, "connected", m)'
          /\ Told(e, "connected", m)' => Told(e, "connected", m) /\ ~(e = d /\ m = l)
  <2>1. SUFFICES ASSUME NEW e \in Devices, NEW m
                 PROVE  /\ Told(e, "disconnected", m) =>
                              Told(e, "disconnected", m)' \/ (e = d /\ m = l)
                        /\ Told(e, "connected", m) => Told(e, "connected", m)'
                        /\ Told(e, "connected", m)' =>
                              Told(e, "connected", m) /\ ~(e = d /\ m = l)
    OBVIOUS
  <2>2. Told(e, "disconnected", m) => Told(e, "disconnected", m)' \/ (e = d /\ m = l)
    BY <1>2, <1>4, TakenTold DEF IInv
  <2>3. Told(e, "connected", m) => Told(e, "connected", m)'
    BY <1>2, <1>4, TakenTold DEF IInv
  <2>4. ASSUME Told(e, "connected", m)' PROVE Told(e, "connected", m) /\ ~(e = d /\ m = l)
    <3>1. PICK a \in (1 .. Len(rxq[e])) \ First(d)[e] :
              rxq[e][a].kind = "connected" /\ rxq[e][a].link = m
      BY <1>4, <2>4, ToldStep DEF IInv
    <3>2. e = d /\ m = l => a < 1
      BY <1>2, <3>1 DEF IInv, Ordered
    <3>3. Len(rxq[e]) \in Nat
      BY QueueFacts DEF IInv
    <3>4. QED BY <3>1, <3>2, <3>3 DEF Told
  <2>5. QED BY <2>2, <2>3, <2>4
<1>12. Ordered'
  <2>1. \A e \in Devices, i, j \in Nat :
            /\ i \in 1 .. Len(rxq'[e]) /\ j \in 1 .. Len(rxq'[e])
            /\ rxq'[e][i].kind = "disconnected" /\ rxq'[e][j].kind = "connected"
            /\ rxq'[e][j].link = rxq'[e][i].link
            => j < i
    BY <1>4, OrderStep DEF IInv
  <2>2. \A e \in Devices : \A m \in DOMAIN links : Told(e, "connected", m)' =>
            ~Left(e, m)' /\ (Up(m)' \/ Told(e, "disconnected", m)')
    BY <1>6, <1>10, <1>11 DEF IInv, Ordered
  <2>3. \A e \in Devices : RxAt(e)' \in Serving /\ job'[e].link # 0 =>
            ~Left(e, job[e].link)' /\ (overlap'[e] \/ default_conn'[e] = job'[e].link)
    <3>1. ASSUME NEW e \in Devices, RxAt(e)' \in Serving, job'[e].link # 0
          PROVE  ~Left(e, job[e].link)' /\ (overlap'[e] \/ default_conn'[e] = job'[e].link)
      <4>1. RxAt(e) \in Serving /\ job' = job
        BY <1>1, <3>1 DEF RxAt
      <4>2. ~Left(e, job[e].link) /\ (overlap[e] \/ default_conn[e] = job[e].link)
        BY <3>1, <4>1 DEF IInv, Ordered
      <4>3. e # d
        BY <1>2, <4>1 DEF Serving
      <4>4. wqq'[e] = wqq[e]
        BY <1>1, <4>3 DEF IInv, TypeOK
      <4>5. QED BY <1>1, <4>1, <4>2, <4>4 DEF Left
    <3>2. QED BY <3>1
  <2>4. links' = links
    BY <1>1
  <2>5. QED BY <2>1, <2>2, <2>3, <2>4 DEF Ordered
<1>13. Tracked'
  <2>1. ASSUME NEW e \in Devices, NEW m, m = default_conn'[e], m # 0
        PROVE  Up(m)' \/ Told(e, "disconnected", m)' \/ Left(e, m)'
    BY <1>1, <1>6, <1>10, <1>11, <2>1 DEF IInv, Tracked
  <2>2. ASSUME NEW e \in Devices, NEW m, m = le_chan'[e], m # 0
        PROVE  Up(m)' \/ Told(e, "disconnected", m)'
    <3>1. m = le_chan[e] /\ ~(e = d /\ m = l)
      BY <1>5, <2>2
    <3>2. QED BY <1>10, <1>11, <2>2, <3>1 DEF IInv, Tracked
  <2>3. QED BY <2>1, <2>2 DEF Tracked
<1>14. ScanTrue'
  BY <1>1 DEF IInv, ScanTrue
<1>15. Awake'
  <2>1. ASSUME NEW e \in Devices, NEW i \in 1 .. Len(rxq[e]), rxq[e][i].kind = "connected"
        PROVE  \E j \in 1 .. Len(rxq'[e]) : rxq'[e][j].kind = "connected"
    <3>1. PICK m : m = rxq[e][i].link
      OBVIOUS
    <3>2. Told(e, "connected", m)'
      BY <1>11, <2>1, <3>1 DEF Told
    <3>3. QED BY <3>2 DEF Told
  <2>2. QED BY <1>1, <2>1, ConstantFacts, AwakeStep DEF IInv
<1>16. OneToken'
  <2>1. \A e \in Devices : \A m : InHand(e, m)' <=> InHand(e, m)
    BY <1>1 DEF InHand, RxAt
  <2>2. \A m : Others(m, P, x)
    BY <1>1, <1>4, <2>1 DEF Others
  <2>3. QED BY <1>4, <2>2, TokensKept DEF IInv
<1>17. ChanIsCentral'
  BY <1>1 DEF IInv, ChanIsCentral, RxAt
<1>18. QED BY <1>7, <1>8, <1>9, <1>12, <1>13, <1>14, <1>15, <1>16, <1>17 DEF IInv

\* disconnected_cb clears default_conn if it is this connection, and starts again.
LEMMA DisconnectedCbStep ==
    ASSUME IInv, NEW d \in Devices, DisconnectedCb(d)
    PROVE  IInv'
<1>0. PICK l : l = Head(wqq[d])
  OBVIOUS
<1>1. /\ UNCHANGED <<links, rxq, overlap, init, scan, is_scanning, fails>>
      /\ UNCHANGED <<is_advertising, adv, le_chan, job>>
      /\ at[d]["wq"] = "idle" /\ wqq[d] # <<>> /\ wqq' = [wqq EXCEPT ![d] = Tail(@)]
      /\ \/ /\ default_conn[d] = l /\ default_conn' = [default_conn EXCEPT ![d] = 0]
            /\ connecting' = [connecting EXCEPT ![d] = FALSE] /\ Goto(d, "wq", "adv")
         \/ default_conn[d] # l /\ UNCHANGED <<default_conn, connecting, at>>
  BY <1>0 DEF DisconnectedCb, stack, history, At
<1>2. /\ wqq' \in [Devices -> Seq(LinkIds)]
      /\ Left(d, l)
      /\ \A e \in Devices : \A m : Left(e, m)' => Left(e, m)
      /\ \A e \in Devices : \A m : Left(e, m) => Left(e, m)' \/ (e = d /\ m = l)
  BY <1>0, <1>1, LeftFacts DEF IInv
<1>3. /\ at' \in [Devices -> [Threads -> Places]]
      /\ \A e \in Devices, u \in Threads :
            at'[e][u] = at[e][u] \/ (e = d /\ u = "wq" /\ at'[e][u] = "adv")
      /\ default_conn[d] = l => at'[d]["wq"] = "adv"
      /\ \A e \in Devices \ {d} : at'[e] = at[e]
  <2>1. CASE default_conn[d] = l
    <3>1. Goto(d, "wq", "adv") /\ "adv" \in Places /\ "wq" \in Threads
      BY <1>1, <2>1 DEF Places, Threads
    <3>2. /\ at' \in [Devices -> [Threads -> Places]]
          /\ \A e \in Devices, u \in Threads :
                at'[e][u] = IF e = d /\ u = "wq" THEN "adv" ELSE at[e][u]
      BY <3>1, GotoFacts DEF IInv
    <3>3. \A e \in Devices \ {d} : at'[e] = at[e]
      BY <3>1 DEF Goto, IInv, TypeOK
    <3>4. QED BY <3>1, <3>2, <3>3
  <2>2. CASE default_conn[d] # l
    BY <1>1, <2>2 DEF IInv, TypeOK
  <2>3. QED BY <2>1, <2>2
<1>4. /\ default_conn' \in [Devices -> LinkIds] /\ connecting' \in [Devices -> BOOLEAN]
      /\ default_conn[d] = l => default_conn'[d] = 0
      /\ default_conn[d] # l => default_conn'[d] = default_conn[d]
      /\ \A e \in Devices \ {d} : default_conn'[e] = default_conn[e]
  <2>1. 0 \in LinkIds
    BY ConstantFacts DEF LinkIds
  <2>2. default_conn \in [Devices -> LinkIds] /\ connecting \in [Devices -> BOOLEAN]
    BY DEF IInv, TypeOK
  <2>3. QED BY <1>1, <2>1, <2>2
<1>5. TypeOK'
  BY <1>1, <1>2, <1>3, <1>4 DEF IInv, TypeOK
<1>6. \A e \in Devices : RxAt(e)' = RxAt(e)
  BY <1>3 DEF RxAt, Threads
<1>7. Peers'
  BY <1>1, <1>6 DEF IInv, Peers
<1>8. Owned'
  <2>1. \A e \in Devices : \A m : Left(e, m) => Belongs(links, e, m)
    BY DEF IInv, Owned, Left
  <2>2. \A e \in Devices : \A i \in 1 .. Len(wqq'[e]) : Belongs(links, e, wqq'[e][i])
    BY <1>2, <2>1, LeftOwned DEF IInv
  <2>3. \A e \in Devices : default_conn'[e] # 0 => Belongs(links, e, default_conn'[e])
    BY <1>4 DEF IInv, Owned
  <2>4. QED BY <1>1, <2>2, <2>3 DEF IInv, Owned
<1>9. \A m : Up(m)' <=> Up(m)
  BY <1>1 DEF Up
<1>10. \A e, kind, m : Told(e, kind, m)' <=> Told(e, kind, m)
  BY <1>1 DEF Told
<1>11. Ordered'
  <2>1. \A e \in Devices : RxAt(e)' \in Serving /\ job'[e].link # 0 =>
            ~Left(e, job[e].link)' /\ (overlap'[e] \/ default_conn'[e] = job'[e].link)
    <3>1. ASSUME NEW e \in Devices, RxAt(e)' \in Serving, NEW m, m = job[e].link, m # 0
          PROVE  ~Left(e, m)' /\ (overlap[e] \/ default_conn'[e] = m)
      <4>1. ~Left(e, m) /\ (overlap[e] \/ default_conn[e] = m)
        BY <1>6, <3>1 DEF IInv, Ordered
      <4>2. e = d => m # l
        BY <1>2, <4>1
      <4>3. QED BY <1>2, <1>4, <4>1, <4>2
    <3>2. QED BY <1>1, <3>1
  <2>2. QED BY <1>1, <1>2, <1>9, <1>10, <2>1 DEF IInv, Ordered
<1>12. Tracked'
  <2>1. ASSUME NEW e \in Devices, NEW m, m = default_conn'[e], m # 0
        PROVE  Up(m)' \/ Told(e, "disconnected", m)' \/ Left(e, m)'
    <3>1. m = default_conn[e] /\ ~(e = d /\ m = l)
      BY <1>4, <2>1
    <3>2. QED BY <1>2, <1>9, <1>10, <2>1, <3>1 DEF IInv, Tracked
  <2>2. ASSUME NEW e \in Devices, NEW m, m = le_chan'[e], m # 0
        PROVE  Up(m)' \/ Told(e, "disconnected", m)'
    BY <1>1, <1>9, <1>10, <2>2 DEF IInv, Tracked
  <2>3. QED BY <2>1, <2>2 DEF Tracked
<1>13. ScanTrue'
  <2>1. \A e \in Devices, u \in Threads : at'[e][u] = "scanset" => at[e][u] = "scanset"
    BY <1>3
  <2>2. QED BY <1>1, <2>1 DEF IInv, ScanTrue
<1>14. Awake'
  <2>1. ASSUME NEW e \in Devices, fails = 0
        PROVE  overlap[e] \/ scan[e] \/ Busy(e)' \/ Expects(e)'
    <3>1. CASE e = d /\ default_conn[d] = l
      <4>1. Busy(d)'
        BY <1>3, <3>1 DEF Busy, Threads
      <4>2. QED BY <3>1, <4>1
    <3>2. CASE ~(e = d /\ default_conn[d] = l)
      <4>1. default_conn'[e] = default_conn[e]
        BY <1>4, <3>2
      <4>2. Expects(e) => Expects(e)'
        BY <1>1, <4>1 DEF Expects
      <4>3. Busy(e) => Busy(e)'
        BY <1>3, <1>6 DEF Busy
      <4>4. QED BY <2>1, <4>2, <4>3 DEF IInv, Awake
    <3>3. QED BY <3>1, <3>2
  <2>2. QED BY <1>1, <2>1 DEF Awake
<1>15. OneToken'
  <2>1. \A e \in Devices : \A m : InHand(e, m)' <=> InHand(e, m)
    BY <1>1, <1>6 DEF InHand
  <2>2. QED BY <1>1, <2>1 DEF IInv, OneToken
<1>16. ChanIsCentral'
  BY <1>1, <1>6 DEF IInv, ChanIsCentral
<1>17. QED BY <1>5, <1>7, <1>8, <1>11, <1>12, <1>13, <1>14, <1>15, <1>16 DEF IInv

\* The attempt to connect is given up: connected_cb will be told so.
LEMMA ConnectTimeoutStep ==
    ASSUME IInv, NEW d \in Devices, ConnectTimeout(d)
    PROVE  IInv'
<1> DEFINE x == [kind |-> "connected", link |-> 0]
<1>1. /\ UNCHANGED <<default_conn, links, overlap, scan, is_scanning, fails, wqq>>
      /\ UNCHANGED <<is_advertising, connecting, adv, at, job, le_chan>>
      /\ init' = [init EXCEPT ![d] = NoDevice]
      /\ rxq' = [rxq EXCEPT ![d] = Append(@, x)]
  BY DEF ConnectTimeout, flags, history
<1>2. x \in Messages /\ x.kind = "connected" /\ x.link = 0
  <2>1. 0 \in LinkIds
    BY ConstantFacts DEF LinkIds
  <2>2. QED BY <2>1, MessageType DEF Kinds
<1> HIDE DEF x
<1>3. Typed /\ Queues(None, {d}, x)
  BY <1>1, <1>2, QueuesSent DEF IInv
<1>4. /\ init' \in [Devices -> Devices \cup {NoDevice}]
      /\ init'[d] = NoDevice /\ \A e \in Devices \ {d} : init'[e] = init[e]
  BY <1>1 DEF IInv, TypeOK
<1>5. TypeOK'
  BY <1>1, <1>3, <1>4 DEF IInv, TypeOK, Typed, Messages
<1>6. Peers'
  BY <1>1, <1>4, ConstantFacts DEF IInv, Peers, RxAt
<1>7. 0 \notin DOMAIN links
  BY LinkFacts DEF IInv
<1>8. Owned'
  <2>1. \A e \in Devices : \A a \in (1 .. Len(rxq[e])) \ None[e] : Valid(links, e, rxq[e][a])
    BY DEF IInv, Owned
  <2>2. \A e \in Devices : e \in {d} => Valid(links, e, x)
    BY <1>2 DEF Valid
  <2>3. \A e \in Devices : \A i \in 1 .. Len(rxq'[e]) : Valid(links, e, rxq'[e][i])
    BY <1>3, <2>1, <2>2, ValidStep DEF IInv
  <2>4. QED BY <1>1, <2>3 DEF IInv, Owned
<1>9. \A m : Up(m)' <=> Up(m)
  BY <1>1 DEF Up
<1>10. \A e, m : Left(e, m)' <=> Left(e, m)
  BY <1>1 DEF Left
<1>11. \A e \in Devices : \A kind, m :
          /\ Told(e, kind, m) => Told(e, kind, m)'
          /\ m # 0 /\ Told(e, kind, m)' => Told(e, kind, m)
  <2>1. SUFFICES ASSUME NEW e \in Devices, NEW kind, NEW m
                 PROVE  /\ Told(e, kind, m) => Told(e, kind, m)'
                        /\ m # 0 /\ Told(e, kind, m)' => Told(e, kind, m)
    OBVIOUS
  <2>2. \A a \in (1 .. Len(rxq[e])) \cap None[e] :
            ~(rxq[e][a].kind = kind /\ rxq[e][a].link = m)
    BY DEF None
  <2>3. Told(e, kind, m) => Told(e, kind, m)'
    BY <1>3, <2>2, ToldStep DEF IInv
  <2>4. m # 0 /\ Told(e, kind, m)' =>
            \E a \in (1 .. Len(rxq[e])) \ None[e] : rxq[e][a].kind = kind /\ rxq[e][a].link = m
    BY <1>2, <1>3, ToldStep DEF IInv
  <2>5. QED BY <2>3, <2>4 DEF Told
<1>12. Ordered'
  <2>1. ~Told(d, "disconnected", 0)
    BY DEF IInv, Owned, Told, Valid
  <2>2. \A e \in Devices, i, j \in Nat :
            /\ i \in 1 .. Len(rxq'[e]) /\ j \in 1 .. Len(rxq'[e])
            /\ rxq'[e][i].kind = "disconnected" /\ rxq'[e][j].kind = "connected"
            /\ rxq'[e][j].link = rxq'[e][i].link
            => j < i
    <3>1. \A e \in Devices : e \in {d} /\ x.kind = "connected" => ~Told(e, "disconnected", x.link)
      BY <1>2, <2>1
    <3>2. QED BY <1>3, <3>1, OrderStep DEF IInv
  <2>3. \A e \in Devices : \A m \in DOMAIN links : Told(e, "connected", m)' =>
            ~Left(e, m)' /\ (Up(m)' \/ Told(e, "disconnected", m)')
    BY <1>7, <1>9, <1>10, <1>11 DEF IInv, Ordered
  <2>4. \A e \in Devices : RxAt(e)' \in Serving /\ job'[e].link # 0 =>
            ~Left(e, job[e].link)' /\ (overlap'[e] \/ default_conn'[e] = job'[e].link)
    BY <1>1 DEF IInv, Ordered, RxAt, Left
  <2>5. links' = links
    BY <1>1
  <2>6. QED BY <2>2, <2>3, <2>4, <2>5 DEF Ordered
<1>13. Tracked'
  BY <1>1, <1>9, <1>10, <1>11 DEF IInv, Tracked
<1>14. ScanTrue'
  BY <1>1 DEF IInv, ScanTrue
<1>15. Awake'
  <2>1. Expects(d)'
    <3>1. Told(d, "connected", 0)'
      BY <1>2, <1>3, ToldStep DEF IInv
    <3>2. QED BY <3>1 DEF Told, Expects
  <2>2. \A e \in Devices \ {d} : rxq'[e] = rxq[e]
    BY <1>1 DEF IInv, TypeOK
  <2>3. \A e \in Devices \ {d} : \A i \in 1 .. Len(rxq[e]) : rxq[e][i].kind = "connected" =>
            \E j \in 1 .. Len(rxq'[e]) : rxq'[e][j].kind = "connected"
    BY <2>2
  <2>4. QED BY <1>1, <1>4, <2>1, <2>3, AwakeStep DEF IInv
<1>16. OneToken'
  <2>1. \A e \in Devices : \A m : InHand(e, m)' <=> InHand(e, m)
    BY <1>1 DEF InHand, RxAt
  <2>2. \A m : Others(m, {d}, x)
    BY <1>1, <1>2, <1>7, <2>1 DEF Others, Token
  <2>3. QED BY <1>3, <2>2, TokensKept DEF IInv
<1>17. ChanIsCentral'
  BY <1>1 DEF IInv, ChanIsCentral, RxAt
<1>18. QED BY <1>5, <1>6, <1>8, <1>12, <1>13, <1>14, <1>15, <1>16, <1>17 DEF IInv

\* A connection comes up: it has no event yet, and each end is told once.
LEMMA LinkUpStep ==
    ASSUME IInv, NEW d \in Devices, NEW p \in Devices, LinkUp(d, p)
    PROVE  IInv'
<1> DEFINE ln == [central |-> d, peripheral |-> p, up |-> TRUE]
<1>0. PICK n : n = Len(links) + 1
  OBVIOUS
<1> DEFINE x == [kind |-> "connected", link |-> n]
<1>1. /\ UNCHANGED <<default_conn, overlap, scan, is_scanning, fails, wqq>>
      /\ UNCHANGED <<is_advertising, connecting, at, job, le_chan>>
      /\ init[d] = p /\ Len(links) < MaxLinks
      /\ init' = [init EXCEPT ![d] = NoDevice]
      /\ adv' = [adv EXCEPT ![p] = FALSE]
      /\ links' = Append(links, ln)
  BY DEF LinkUp, flags, history
<1>2. p # d
  BY <1>1 DEF IInv, Peers
<1>3. /\ links' \in Seq([central : Devices, peripheral : Devices, up : BOOLEAN])
      /\ Len(links') = n /\ n # 0 /\ n \in LinkIds /\ n \notin DOMAIN links
      /\ DOMAIN links' = DOMAIN links \cup {n}
      /\ \A l \in DOMAIN links : links'[l] = links[l]
      /\ links'[n] = ln
  <2>1. /\ links \in Seq([central : Devices, peripheral : Devices, up : BOOLEAN])
        /\ ln \in [central : Devices, peripheral : Devices, up : BOOLEAN]
    BY DEF IInv, TypeOK
  <2> HIDE DEF ln
  <2>2. /\ links' \in Seq([central : Devices, peripheral : Devices, up : BOOLEAN])
        /\ Len(links') = Len(links) + 1 /\ links'[Len(links) + 1] = ln
        /\ \A l \in 1 .. Len(links) : links'[l] = links[l]
    BY <1>1, <2>1, AppendProperties
  <2>3. /\ DOMAIN links = 1 .. Len(links) /\ Len(links) \in Nat
        /\ DOMAIN links' = 1 .. Len(links')
    BY <2>1, <2>2, LenProperties
  <2>4. 1 .. n = (1 .. Len(links)) \cup {n} /\ n # 0 /\ n \notin 1 .. Len(links) /\ n \in LinkIds
    BY <1>0, <1>1, <2>3, ConstantFacts DEF LinkIds
  <2>5. QED BY <1>0, <2>2, <2>3, <2>4
<1>4. /\ \A e, l : Belongs(links, e, l) => Belongs(links', e, l) /\ l # n
      /\ Belongs(links', d, n) /\ Belongs(links', p, n)
      /\ links'[n].central = d /\ links'[n].up
  BY <1>3 DEF Belongs
<1>5. x \in Messages /\ x.kind = "connected" /\ x.link = n
  BY <1>3, MessageType DEF Kinds
<1>6. Typed /\ Queues(None, {d, p}, x)
  <2>1. rxq' = [e \in Devices |-> IF e \in {d, p} THEN Append(rxq[e], x) ELSE rxq[e]]
    BY <1>3 DEF LinkUp
  <2>2. {d, p} \in SUBSET Devices
    OBVIOUS
  <2> HIDE DEF x
  <2>3. QED BY <1>5, <2>1, <2>2, QueuesBoth DEF IInv
<1> HIDE DEF ln, x
<1>7. /\ init' \in [Devices -> Devices \cup {NoDevice}]
      /\ init'[d] = NoDevice /\ \A e \in Devices \ {d} : init'[e] = init[e]
      /\ adv' \in [Devices -> BOOLEAN]
  BY <1>1 DEF IInv, TypeOK
<1>8. TypeOK'
  BY <1>1, <1>3, <1>6, <1>7 DEF IInv, TypeOK, Typed, Messages
<1>9. Peers'
  <2>1. Len(links') <= MaxLinks
    BY <1>3, ConstantFacts DEF LinkIds
  <2>2. \A l \in DOMAIN links' : links'[l].central # links'[l].peripheral
    BY <1>2, <1>3 DEF IInv, Peers, ln
  <2>3. QED BY <1>1, <1>7, <2>1, <2>2, ConstantFacts DEF IInv, Peers, RxAt
<1>10. \A e \in Devices : \A a \in 1 .. Len(rxq[e]) :
          Valid(links, e, rxq[e][a]) /\ Valid(links', e, rxq[e][a]) /\ rxq[e][a].link # n
  <2>1. SUFFICES ASSUME NEW e \in Devices, NEW a \in 1 .. Len(rxq[e])
                 PROVE  Valid(links, e, rxq[e][a]) /\ Valid(links', e, rxq[e][a])
                        /\ rxq[e][a].link # n
    OBVIOUS
  <2>2. PICK y : y = rxq[e][a]
    OBVIOUS
  <2>3. Valid(links, e, y)
    BY <2>2 DEF IInv, Owned
  <2>4. y.link # 0 => y.link \in DOMAIN links
    BY <2>3 DEF Valid, Belongs
  <2>5. Valid(links', e, y) /\ y.link # n
    BY <1>3, <1>4, <2>3, <2>4 DEF Valid, Channel
  <2>6. QED BY <2>2, <2>3, <2>5
<1>11. \A e \in Devices : \A m : Left(e, m) => Belongs(links, e, m)
  BY DEF IInv, Owned, Left
<1>12. \A e, m : Left(e, m)' <=> Left(e, m)
  BY <1>1 DEF Left
<1>13. Owned'
  <2>1. \A e \in Devices : \A i \in 1 .. Len(rxq'[e]) : Valid(links', e, rxq'[e][i])
    <3>1. \A e \in Devices : \A a \in (1 .. Len(rxq[e])) \ None[e] : Valid(links', e, rxq[e][a])
      BY <1>10
    <3>2. \A e \in Devices : e \in {d, p} => Valid(links', e, x)
      BY <1>4, <1>5 DEF Valid
    <3>3. QED BY <1>6, <3>1, <3>2, ValidStep DEF IInv
  <2>2. \A e \in Devices :
            /\ \A i \in 1 .. Len(wqq[e]) : Belongs(links', e, wqq[e][i])
            /\ job[e].link # 0 => Belongs(links', e, job[e].link)
            /\ default_conn[e] # 0 => Belongs(links', e, default_conn[e])
            /\ le_chan[e] # 0 => Belongs(links', e, le_chan[e])
    BY <1>4 DEF IInv, Owned
  <2>3. QED BY <1>1, <2>1, <2>2 DEF Owned
<1>14. \A m : Up(m)' <=> m # 0 /\ links'[m].up
  BY DEF Up
<1>15. /\ \A m \in DOMAIN links : Up(m)' <=> Up(m)
       /\ Up(n)'
  BY <1>3, <1>4, <1>14 DEF Up
<1>16. \A e \in Devices : \A kind, m :
          /\ Told(e, kind, m) => Told(e, kind, m)' /\ m # n
          /\ m # n /\ Told(e, kind, m)' => Told(e, kind, m)
  <2>1. SUFFICES ASSUME NEW e \in Devices, NEW kind, NEW m
                 PROVE  /\ Told(e, kind, m) => Told(e, kind, m)' /\ m # n
                        /\ m # n /\ Told(e, kind, m)' => Told(e, kind, m)
    OBVIOUS
  <2>2. \A a \in (1 .. Len(rxq[e])) \cap None[e] :
            ~(rxq[e][a].kind = kind /\ rxq[e][a].link = m)
    BY DEF None
  <2>3. Told(e, kind, m) => Told(e, kind, m)'
    BY <1>6, <2>2, ToldStep DEF IInv
  <2>4. m # n /\ Told(e, kind, m)' =>
            \E a \in (1 .. Len(rxq[e])) \ None[e] : rxq[e][a].kind = kind /\ rxq[e][a].link = m
    BY <1>5, <1>6, ToldStep DEF IInv
  <2>5. Told(e, kind, m) => m # n
    BY <1>10 DEF Told
  <2>6. QED BY <2>3, <2>4, <2>5 DEF Told
<1>17. Ordered'
  <2>1. \A e \in Devices, i, j \in Nat :
            /\ i \in 1 .. Len(rxq'[e]) /\ j \in 1 .. Len(rxq'[e])
            /\ rxq'[e][i].kind = "disconnected" /\ rxq'[e][j].kind = "connected"
            /\ rxq'[e][j].link = rxq'[e][i].link
            => j < i
    <3>1. \A e \in Devices : e \in {d, p} /\ x.kind = "connected" =>
              ~Told(e, "disconnected", x.link)
      BY <1>5, <1>16
    <3>2. QED BY <1>6, <3>1, OrderStep DEF IInv
  <2>2. \A e \in Devices : \A m \in DOMAIN links' : Told(e, "connected", m)' =>
            ~Left(e, m)' /\ (Up(m)' \/ Told(e, "disconnected", m)')
    <3>1. ASSUME NEW e \in Devices, NEW m \in DOMAIN links, Told(e, "connected", m)'
          PROVE  ~Left(e, m)' /\ (Up(m)' \/ Told(e, "disconnected", m)')
      BY <1>3, <1>12, <1>15, <1>16, <3>1 DEF IInv, Ordered
    <3>2. ASSUME NEW e \in Devices
          PROVE  ~Left(e, n)' /\ Up(n)'
      BY <1>4, <1>11, <1>12, <1>15
    <3>3. QED BY <1>3, <3>1, <3>2
  <2>3. \A e \in Devices : RxAt(e)' \in Serving /\ job'[e].link # 0 =>
            ~Left(e, job[e].link)' /\ (overlap'[e] \/ default_conn'[e] = job'[e].link)
    BY <1>1 DEF IInv, Ordered, RxAt, Left
  <2>4. QED BY <2>1, <2>2, <2>3 DEF Ordered
<1>18. Tracked'
  <2>1. ASSUME NEW e \in Devices, NEW m, m = default_conn'[e], m # 0
        PROVE  Up(m)' \/ Told(e, "disconnected", m)' \/ Left(e, m)'
    <3>1. m = default_conn[e] /\ m \in DOMAIN links
      BY <1>1, <2>1 DEF IInv, Owned, Belongs
    <3>2. QED BY <1>12, <1>15, <1>16, <2>1, <3>1 DEF IInv, Tracked
  <2>2. ASSUME NEW e \in Devices, NEW m, m = le_chan'[e], m # 0
        PROVE  Up(m)' \/ Told(e, "disconnected", m)'
    <3>1. m = le_chan[e] /\ m \in DOMAIN links
      BY <1>1, <2>2 DEF IInv, Owned, Belongs
    <3>2. QED BY <1>15, <1>16, <2>2, <3>1 DEF IInv, Tracked
  <2>3. QED BY <2>1, <2>2 DEF Tracked
<1>19. ScanTrue'
  BY <1>1 DEF IInv, ScanTrue
<1>20. Awake'
  <2>1. Expects(d)'
    <3>1. Told(d, "connected", n)'
      BY <1>5, <1>6, ToldStep DEF IInv
    <3>2. QED BY <3>1 DEF Told, Expects
  <2>2. ASSUME NEW e \in Devices, NEW i \in 1 .. Len(rxq[e]), rxq[e][i].kind = "connected"
        PROVE  \E j \in 1 .. Len(rxq'[e]) : rxq'[e][j].kind = "connected"
    <3>1. PICK m : m = rxq[e][i].link
      OBVIOUS
    <3>2. Told(e, "connected", m)
      BY <2>2, <3>1 DEF Told
    <3>3. Told(e, "connected", m)'
      BY <1>16, <3>2
    <3>4. QED BY <3>3 DEF Told
  <2>3. QED BY <1>1, <1>7, <2>1, <2>2, AwakeStep DEF IInv
<1>21. OneToken'
  <2>1. \A e \in Devices, m \in DOMAIN links : InHand(e, m)' <=> InHand(e, m)
    BY <1>1, <1>3 DEF InHand, RxAt
  <2>2. \A e \in Devices : ~InHand(e, n)'
    <3>1. \A e \in Devices : job[e].link # n
      BY <1>3, <1>4 DEF IInv, Owned
    <3>2. QED BY <1>1, <3>1 DEF InHand
  <2>3. Others(n, {d, p}, x)
    <3>1. ASSUME NEW m \in DOMAIN links', m # n
          PROVE  m \in DOMAIN links /\ links'[m].central = links[m].central
      BY <1>3, <3>1
    <3>2. \A e, m : m # n => ~Token(links', e, x, m)
      BY <1>5 DEF Token
    <3>3. QED BY <2>1, <3>1, <3>2 DEF Others
  <2>4. Anew(n, None, {d, p}, x)
    <3>1. \A e \in Devices : \A a \in (1 .. Len(rxq[e])) \ None[e] :
              ~Token(links', e, rxq[e][a], n)
      BY <1>10 DEF Token
    <3>2. \A e \in Devices : Token(links', e, x, n) => e = d
      BY <1>4, <1>5 DEF Token
    <3>3. QED BY <2>2, <3>1, <3>2 DEF Anew
  <2>5. QED BY <1>6, <2>3, <2>4, TokenStep DEF IInv
<1>22. ChanIsCentral'
  <2>1. \A e \in Devices : job[e].link # 0 => job[e].link \in DOMAIN links
    BY DEF IInv, Owned, Belongs
  <2>2. QED BY <1>1, <1>3, <2>1 DEF IInv, ChanIsCentral, RxAt
<1>23. QED BY <1>8, <1>9, <1>13, <1>17, <1>18, <1>19, <1>20, <1>21, <1>22 DEF IInv

\* A connection ends: what is under way on it is lost, and each end is told behind
\* everything else.
LEMMA LinkDownStep ==
    ASSUME IInv, NEW l \in 1 .. Len(links), LinkDown(l)
    PROVE  IInv'
<1> DEFINE x == [kind |-> "disconnected", link |-> l]
<1>0. PICK P : P = {links[l].central, links[l].peripheral}
  OBVIOUS
<1>1. /\ UNCHANGED <<default_conn, overlap, scan, is_scanning, fails, wqq, init, adv>>
      /\ UNCHANGED <<is_advertising, connecting, at, job, le_chan>>
      /\ Up(l) /\ links' = [links EXCEPT ![l].up = FALSE]
      /\ rxq' = [e \in Devices |-> IF e \in P THEN Append(Remaining(rxq[e], l), x) ELSE rxq[e]]
  BY <1>0 DEF LinkDown, flags, history
<1>2. /\ links \in Seq([central : Devices, peripheral : Devices, up : BOOLEAN])
      /\ DOMAIN links = 1 .. Len(links) /\ Len(links) \in Nat
  <2>1. links \in Seq([central : Devices, peripheral : Devices, up : BOOLEAN])
    BY DEF IInv, TypeOK
  <2>2. QED BY <2>1, LenProperties
<1>3. /\ l \in DOMAIN links /\ l # 0 /\ l \in LinkIds
      /\ links[l].central \in Devices /\ links[l].peripheral \in Devices
      /\ \A e : Belongs(links, e, l) <=> e \in P
      /\ P \in SUBSET Devices
  BY <1>0, <1>2, LinkFacts DEF IInv, Belongs
<1>4. /\ links' \in Seq([central : Devices, peripheral : Devices, up : BOOLEAN])
      /\ DOMAIN links' = DOMAIN links /\ Len(links') = Len(links)
      /\ \A m \in DOMAIN links : /\ links'[m].central = links[m].central
                                 /\ links'[m].peripheral = links[m].peripheral
      /\ \A m \in DOMAIN links : m # l => links'[m] = links[m]
      /\ ~links'[l].up
  <2> DEFINE y == [links[l] EXCEPT !.up = FALSE]
  <2>1. \A m \in 1 .. Len(links) :
            links[m] \in [central : Devices, peripheral : Devices, up : BOOLEAN]
    BY <1>2, LenProperties
  <2>2. /\ y \in [central : Devices, peripheral : Devices, up : BOOLEAN]
        /\ y.central = links[l].central /\ y.peripheral = links[l].peripheral /\ ~y.up
    BY <2>1
  <2>3. links' = [links EXCEPT ![l] = y]
    BY <1>1
  <2> HIDE DEF y
  <2>4. /\ DOMAIN links' = DOMAIN links /\ links'[l] = y
        /\ \A m \in DOMAIN links : m # l => links'[m] = links[m]
    BY <1>3, <2>3
  <2>5. /\ links' \in Seq([central : Devices, peripheral : Devices, up : BOOLEAN])
        /\ Len(links') = Len(links)
    BY <1>2, <2>2, <2>3, ExceptSeq
  <2>6. QED BY <2>2, <2>4, <2>5
<1>5. x \in Messages /\ x.kind = "disconnected" /\ x.link = l
  BY <1>3, MessageType DEF Kinds
<1> HIDE DEF x
<1>6. Typed /\ Queues(GoneFrom(P, l), P, x)
  BY <1>1, <1>3, <1>5, QueuesLost DEF IInv
<1>7. TypeOK'
  BY <1>1, <1>4, <1>6 DEF IInv, TypeOK, Typed, Messages
<1>8. Peers'
  BY <1>1, <1>4 DEF IInv, Peers, RxAt
<1>9. \A e, m : Belongs(links', e, m) <=> Belongs(links, e, m)
  BY <1>4 DEF Belongs
\* What is dropped at an end is about l, and not its beginning; what stays is not a message.
<1>10. \A e \in Devices : \A a \in 1 .. Len(rxq[e]) :
          /\ a \in GoneFrom(P, l)[e] => rxq[e][a].link = l /\ rxq[e][a].kind # "connected"
          /\ a \notin GoneFrom(P, l)[e] => rxq[e][a].link # l \/ rxq[e][a].kind = "connected"
  <2>1. SUFFICES ASSUME NEW e \in Devices, NEW a \in 1 .. Len(rxq[e])
                 PROVE  /\ a \in GoneFrom(P, l)[e] =>
                              rxq[e][a].link = l /\ rxq[e][a].kind # "connected"
                        /\ a \notin GoneFrom(P, l)[e] =>
                              rxq[e][a].link # l \/ rxq[e][a].kind = "connected"
    OBVIOUS
  <2>2. CASE e \in P
    <3>1. GoneFrom(P, l)[e] = Goes(rxq[e], l)
      BY <2>2 DEF GoneFrom
    <3>2. QED BY <3>1 DEF Goes, Stays
  <2>3. CASE e \notin P
    <3>1. GoneFrom(P, l)[e] = {}
      BY <2>3 DEF GoneFrom
    <3>2. rxq[e][a].link # l
      BY <1>3, <2>3 DEF IInv, Owned, Valid
    <3>3. QED BY <3>1, <3>2
  <2>4. QED BY <2>2, <2>3
<1>11. Owned'
  <2>1. \A e \in Devices : \A i \in 1 .. Len(rxq'[e]) : Valid(links', e, rxq'[e][i])
    <3>1. ASSUME NEW e \in Devices, NEW a \in (1 .. Len(rxq[e])) \ GoneFrom(P, l)[e]
          PROVE  Valid(links', e, rxq[e][a])
      <4>1. PICK y : y = rxq[e][a]
        OBVIOUS
      <4>2. Valid(links, e, y) /\ (y.link # l \/ y.kind = "connected")
        BY <1>10, <4>1 DEF IInv, Owned
      <4>3. y.link # 0 => y.link \in DOMAIN links
        BY <4>2 DEF Valid, Belongs
      <4>4. Valid(links', e, y)
        BY <1>4, <1>9, <4>2, <4>3 DEF Valid
      <4>5. QED BY <4>1, <4>4
    <3>2. \A e \in Devices : e \in P => Valid(links', e, x)
      BY <1>3, <1>5, <1>9 DEF Valid
    <3>3. QED BY <1>6, <3>1, <3>2, ValidStep DEF IInv
  <2>2. \A e \in Devices :
            /\ \A i \in 1 .. Len(wqq[e]) : Belongs(links', e, wqq[e][i])
            /\ job[e].link # 0 => Belongs(links', e, job[e].link)
            /\ default_conn[e] # 0 => Belongs(links', e, default_conn[e])
            /\ le_chan[e] # 0 => Belongs(links', e, le_chan[e])
    BY <1>9 DEF IInv, Owned
  <2>3. QED BY <1>1, <2>1, <2>2 DEF Owned
<1>12. \A m \in DOMAIN links : m # l => (Up(m)' <=> Up(m))
  BY <1>4 DEF Up
<1>13. \A e, m : Left(e, m)' <=> Left(e, m)
  BY <1>1 DEF Left
<1>14. \A e \in Devices : e \in P => Told(e, "disconnected", l)'
  BY <1>5, <1>6, ToldStep DEF IInv
<1>15. \A e \in Devices : \A m :
          /\ Told(e, "connected", m) => Told(e, "connected", m)'
          /\ Told(e, "connected", m)' => Told(e, "connected", m)
          /\ m # l /\ Told(e, "disconnected", m) => Told(e, "disconnected", m)'
  <2>1. SUFFICES ASSUME NEW e \in Devices, NEW m
                 PROVE  /\ Told(e, "connected", m) => Told(e, "connected", m)'
                        /\ Told(e, "connected", m)' => Told(e, "connected", m)
                        /\ m # l /\ Told(e, "disconnected", m) => Told(e, "disconnected", m)'
    OBVIOUS
  <2>2. Told(e, "connected", m) => Told(e, "connected", m)'
    <3>1. \A a \in (1 .. Len(rxq[e])) \cap GoneFrom(P, l)[e] :
              ~(rxq[e][a].kind = "connected" /\ rxq[e][a].link = m)
      BY <1>10
    <3>2. QED BY <1>6, <3>1, ToldStep DEF IInv
  <2>3. Told(e, "connected", m)' => Told(e, "connected", m)
    <3>1. Told(e, "connected", m)' =>
              \E a \in (1 .. Len(rxq[e])) \ GoneFrom(P, l)[e] :
                 rxq[e][a].kind = "connected" /\ rxq[e][a].link = m
      BY <1>5, <1>6, ToldStep DEF IInv
    <3>2. QED BY <3>1 DEF Told
  <2>4. m # l /\ Told(e, "disconnected", m) => Told(e, "disconnected", m)'
    <3>1. m # l => \A a \in (1 .. Len(rxq[e])) \cap GoneFrom(P, l)[e] :
              ~(rxq[e][a].kind = "disconnected" /\ rxq[e][a].link = m)
      BY <1>10
    <3>2. QED BY <1>6, <3>1, ToldStep DEF IInv
  <2>5. QED BY <2>2, <2>3, <2>4
<1>16. Ordered'
  <2>1. \A e \in Devices, i, j \in Nat :
            /\ i \in 1 .. Len(rxq'[e]) /\ j \in 1 .. Len(rxq'[e])
            /\ rxq'[e][i].kind = "disconnected" /\ rxq'[e][j].kind = "connected"
            /\ rxq'[e][j].link = rxq'[e][i].link
            => j < i
    <3>1. \A e \in Devices : e \in P /\ x.kind = "connected" => ~Told(e, "disconnected", x.link)
      BY <1>5
    <3>2. QED BY <1>6, <3>1, OrderStep DEF IInv
  <2>2. \A e \in Devices : \A m \in DOMAIN links : Told(e, "connected", m)' =>
            ~Left(e, m)' /\ (Up(m)' \/ Told(e, "disconnected", m)')
    <3>1. SUFFICES ASSUME NEW e \in Devices, NEW m \in DOMAIN links, Told(e, "connected", m)'
                   PROVE  ~Left(e, m)' /\ (Up(m)' \/ Told(e, "disconnected", m)')
      OBVIOUS
    <3>2. /\ Told(e, "connected", m) /\ ~Left(e, m)'
          /\ Up(m) \/ Told(e, "disconnected", m)
      BY <1>13, <1>15, <3>1 DEF IInv, Ordered
    <3>3. CASE m = l
      <4>1. Belongs(links, e, l)
        BY <1>3, <3>2, <3>3 DEF Told, IInv, Owned, Valid
      <4>2. QED BY <1>3, <1>14, <3>2, <3>3, <4>1
    <3>4. CASE m # l
      BY <1>12, <1>15, <3>2, <3>4
    <3>5. QED BY <3>3, <3>4
  <2>3. \A e \in Devices : RxAt(e)' \in Serving /\ job'[e].link # 0 =>
            ~Left(e, job[e].link)' /\ (overlap'[e] \/ default_conn'[e] = job'[e].link)
    BY <1>1 DEF IInv, Ordered, RxAt, Left
  <2>4. DOMAIN links' = DOMAIN links
    BY <1>4
  <2>5. QED BY <2>1, <2>2, <2>3, <2>4 DEF Ordered
<1>17. Tracked'
  <2>1. ASSUME NEW e \in Devices, NEW m, m = default_conn'[e], m # 0
        PROVE  Up(m)' \/ Told(e, "disconnected", m)' \/ Left(e, m)'
    <3>1. m = default_conn[e] /\ m \in DOMAIN links /\ Belongs(links, e, m)
      BY <1>1, <2>1 DEF IInv, Owned, Belongs
    <3>2. CASE m = l
      BY <1>3, <1>14, <3>1, <3>2
    <3>3. CASE m # l
      BY <1>12, <1>13, <1>15, <2>1, <3>1, <3>3 DEF IInv, Tracked
    <3>4. QED BY <3>2, <3>3
  <2>2. ASSUME NEW e \in Devices, NEW m, m = le_chan'[e], m # 0
        PROVE  Up(m)' \/ Told(e, "disconnected", m)'
    <3>1. m = le_chan[e] /\ m \in DOMAIN links /\ Belongs(links, e, m)
      BY <1>1, <2>2 DEF IInv, Owned, Belongs
    <3>2. CASE m = l
      BY <1>3, <1>14, <3>1, <3>2
    <3>3. CASE m # l
      BY <1>12, <1>15, <2>2, <3>1, <3>3 DEF IInv, Tracked
    <3>4. QED BY <3>2, <3>3
  <2>3. QED BY <2>1, <2>2 DEF Tracked
<1>18. ScanTrue'
  BY <1>1 DEF IInv, ScanTrue
<1>19. Awake'
  <2>1. ASSUME NEW e \in Devices, NEW i \in 1 .. Len(rxq[e]), rxq[e][i].kind = "connected"
        PROVE  \E j \in 1 .. Len(rxq'[e]) : rxq'[e][j].kind = "connected"
    <3>1. PICK m : m = rxq[e][i].link
      OBVIOUS
    <3>2. Told(e, "connected", m)
      BY <2>1, <3>1 DEF Told
    <3>3. Told(e, "connected", m)'
      BY <1>15, <3>2
    <3>4. QED BY <3>3 DEF Told
  <2>2. QED BY <1>1, <2>1, ConstantFacts, AwakeStep DEF IInv
<1>20. OneToken'
  <2>1. \A e \in Devices, m \in DOMAIN links : InHand(e, m)' <=> InHand(e, m)
    BY <1>1, <1>4 DEF InHand, RxAt
  <2>2. \A m : Others(m, P, x)
    <3>1. \A e, m : ~Token(links', e, x, m)
      BY <1>5 DEF Token
    <3>2. QED BY <1>4, <2>1, <3>1 DEF Others
  <2>3. QED BY <1>6, <2>2, TokensKept DEF IInv
<1>21. ChanIsCentral'
  <2>1. \A e \in Devices : job[e].link # 0 => job[e].link \in DOMAIN links
    BY DEF IInv, Owned, Belongs
  <2>2. QED BY <1>1, <1>4, <2>1 DEF IInv, ChanIsCentral, RxAt
<1>22. QED BY <1>7, <1>8, <1>11, <1>16, <1>17, <1>18, <1>19, <1>20, <1>21 DEF IInv

-----------------------------------------------------------------------------
(* The theorems.                                                           *)

LEMMA StartingStep ==
    ASSUME IInv, NEW d \in Devices, NEW t \in Threads, Starting(d, t)
    PROVE  IInv'
BY StartAdvertisingStep, AdvertisingStartedStep, StartScanningStep, ScanningStartedStep
   DEF Starting

LEMMA ReceiveStep ==
    ASSUME IInv, NEW d \in Devices, Receive(d)
    PROVE  IInv'
<1>1. "rx" \in Threads
  BY DEF Threads
<1>2. CASE Starting(d, "rx")
  BY <1>1, <1>2, StartingStep
<1>3. CASE StopScanning(d, "found_scan", "found_adv")
  BY <1>3, StopScanningStep
<1>4. CASE StopAdvertising(d, "found_adv", "create")
  BY <1>4, StopAdvertisingStep
<1>5. CASE LeCreate(d)
  BY <1>5, LeCreateStep
<1>6. CASE StopAdvertising(d, "conn_adv", "conn_scan")
  BY <1>6, StopAdvertisingStep
<1>7. CASE StopScanning(d, "conn_scan", AfterConnected(d))
  <2>1. PICK to : to = AfterConnected(d)
    OBVIOUS
  <2>2. StopScanning(d, "conn_scan", to)
    BY <1>7, <2>1
  <2>3. QED BY <2>1, <2>2, StopScanningStep
<1>8. CASE ChanConnect(d)
  BY <1>8, ChanConnectStep
<1>9. CASE \E l \in 0 .. MaxLinks :
              \/ ConnectedCb(d, l) \/ AcceptConn(d, l) \/ ChanConnected(d, l) \/ ChanRecv(d, l)
              \/ Disconnecting(d, l)
  <2>1. PICK l \in 0 .. MaxLinks :
            \/ ConnectedCb(d, l) \/ AcceptConn(d, l) \/ ChanConnected(d, l) \/ ChanRecv(d, l)
            \/ Disconnecting(d, l)
    BY <1>9
  <2>2. QED BY <2>1, ConnectedCbStep, AcceptConnStep, ChanConnectedStep, ChanRecvStep,
               DisconnectingStep
<1>10. QED BY <1>2, <1>3, <1>4, <1>5, <1>6, <1>7, <1>8, <1>9 DEF Receive

LEMMA NextInvariant == IInv /\ [Next]_vars => IInv'
<1> SUFFICES ASSUME IInv, [Next]_vars PROVE IInv'
  OBVIOUS
<1>1. CASE UNCHANGED vars
  <2>1. UNCHANGED <<is_advertising, is_scanning, connecting, default_conn, le_chan, adv, scan,
                    init, links, rxq, wqq, at, job, fails, overlap>>
    BY <1>1 DEF vars, flags, stack, history
  <2>2. TypeOK'
    BY <2>1 DEF IInv, TypeOK
  <2>3. Peers' /\ ChanIsCentral'
    BY <2>1 DEF IInv, Peers, ChanIsCentral, RxAt
  <2>4. Owned'
    BY <2>1 DEF IInv, Owned
  <2>5. ScanTrue'
    BY <2>1 DEF IInv, ScanTrue
  <2>6. Ordered' /\ Tracked'
    BY <2>1 DEF IInv, Ordered, Tracked, Told, Left, Up, RxAt
  <2>7. Awake'
    BY <2>1 DEF IInv, Awake, Busy, Expects, RxAt
  <2>8. OneToken'
    BY <2>1 DEF IInv, OneToken, InHand, RxAt
  <2>9. QED BY <2>2, <2>3, <2>4, <2>5, <2>6, <2>7, <2>8 DEF IInv
<1>2. CASE \E d \in Devices :
              \/ Starting(d, "main") \/ Starting(d, "wq") \/ Receive(d) \/ DisconnectedCb(d)
              \/ ConnectTimeout(d)
              \/ \E p \in Devices : ScanCb(d, p) \/ LinkUp(d, p)
  <2>1. PICK d \in Devices :
            \/ Starting(d, "main") \/ Starting(d, "wq") \/ Receive(d) \/ DisconnectedCb(d)
            \/ ConnectTimeout(d)
            \/ \E p \in Devices : ScanCb(d, p) \/ LinkUp(d, p)
    BY <1>2
  <2>2. "main" \in Threads /\ "wq" \in Threads
    BY DEF Threads
  <2>3. CASE Starting(d, "main") \/ Starting(d, "wq")
    BY <2>2, <2>3, StartingStep
  <2>4. CASE Receive(d)
    BY <2>4, ReceiveStep
  <2>5. CASE DisconnectedCb(d) \/ ConnectTimeout(d)
    BY <2>5, DisconnectedCbStep, ConnectTimeoutStep
  <2>6. CASE \E p \in Devices : ScanCb(d, p) \/ LinkUp(d, p)
    BY <2>6, ScanCbStep, LinkUpStep
  <2>7. QED BY <2>1, <2>3, <2>4, <2>5, <2>6
<1>3. CASE \E l \in 1 .. Len(links) : LinkDown(l)
  BY <1>3, LinkDownStep
<1>4. QED BY <1>1, <1>2, <1>3 DEF Next

\* The inductive invariant: who each connection's events belong to and in which order
\* they come, that each reference will be cleared, and why a device is not deaf.
THEOREM Invariance == Spec => []IInv
BY InitInvariant, NextInvariant, PTL DEF Spec

\* A device whose threads have nothing left to do and that has no connection can be
\* found or finds others, unless a start failed or connected_cb came upon a connection
\* that disconnected_cb had not cleared.
THEOREM NotDeafHolds == Spec => []NotDeaf
<1>1. IInv => NotDeaf
  <2>1. SUFFICES ASSUME IInv, NEW d \in Devices, Settled(d), ~Connected(d), fails = 0, ~overlap[d]
                 PROVE  adv[d] \/ scan[d]
    BY DEF NotDeaf
  <2>2. /\ \A t \in Threads : at[d][t] = "idle"
        /\ rxq[d] = <<>> /\ wqq[d] = <<>> /\ init[d] = NoDevice
    BY <2>1 DEF Settled, At
  <2>3. /\ Len(rxq[d]) = 0 /\ Len(wqq[d]) = 0 /\ "rx" \in Threads
    BY <2>2 DEF Threads
  <2>4. \A n \in Nat : n = 0 => 1 .. n = {}
    OBVIOUS
  <2>5. 1 .. Len(rxq[d]) = {} /\ 1 .. Len(wqq[d]) = {}
    BY <2>3, <2>4
  <2>6. default_conn[d] = 0
    <3>1. SUFFICES ASSUME default_conn[d] # 0 PROVE FALSE
      OBVIOUS
    <3>2. Up(default_conn[d]) /\ Belongs(links, d, default_conn[d])
      BY <2>1, <2>5, <3>1 DEF IInv, Tracked, Told, Left, Owned
    <3>3. Connected(d)
      BY <3>2 DEF Connected, Belongs
    <3>4. QED BY <2>1, <3>3
  <2>7. ~Busy(d)
    BY <2>2, <2>3 DEF Busy, RxAt
  <2>8. ~Expects(d)
    BY <2>2, <2>5, <2>6 DEF Expects
  <2>9. QED BY <2>1, <2>7, <2>8 DEF IInv, Awake
<1>2. QED BY <1>1, Invariance, PTL

\* The state has its type, and neither default_conn nor the channel is left to a
\* connection that has ended, in whatever order the callbacks run.
THEOREM ConnTrackedHolds == Spec => []ConnTracked
<1>1. IInv => ConnTracked
  <2>1. SUFFICES ASSUME IInv, NEW d \in Devices, Settled(d)
                 PROVE  /\ default_conn[d] # 0 => Up(default_conn[d])
                        /\ le_chan[d] # 0 => Up(le_chan[d])
    BY DEF ConnTracked, IInv
  <2>2. rxq[d] = <<>> /\ wqq[d] = <<>>
    BY <2>1 DEF Settled
  <2>3. Len(rxq[d]) = 0 /\ Len(wqq[d]) = 0
    BY <2>2
  <2>4. \A n \in Nat : n = 0 => 1 .. n = {}
    OBVIOUS
  <2>5. 1 .. Len(rxq[d]) = {} /\ 1 .. Len(wqq[d]) = {}
    BY <2>3, <2>4
  <2>6. QED BY <2>1, <2>5 DEF IInv, Tracked, Told, Left
<1>2. QED BY <1>1, Invariance, PTL

\* At no time are two balls of one connection under way: both ends run the same program,
\* and the role in the connection decides who begins.
THEOREM OneBallHolds == Spec => []OneBall
<1>1. IInv => OneBall
  <2>1. SUFFICES ASSUME IInv, NEW l \in DOMAIN links, NEW d \in Devices, NEW e \in Devices,
                        NEW i \in DOMAIN rxq[d], NEW j \in DOMAIN rxq[e],
                        Ball(rxq[d][i], l), Ball(rxq[e][j], l)
                 PROVE  d = e /\ i = j
    BY DEF OneBall
  <2>2. i \in 1 .. Len(rxq[d]) /\ j \in 1 .. Len(rxq[e])
    BY <2>1, QueueFacts DEF IInv
  <2>3. Token(links, d, rxq[d][i], l) /\ Token(links, e, rxq[e][j], l)
    BY <2>1 DEF Ball, Token
  <2>4. QED BY <2>1, <2>2, <2>3 DEF IInv, OneToken
<1>2. QED BY <1>1, Invariance, PTL
=============================================================================
