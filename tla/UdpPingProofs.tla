--------------------------- MODULE UdpPingProofs ---------------------------
(***************************************************************************)
(* Proofs about UdpPing, for any timeouts and delays and any length of the *)
(* runs.                                                                   *)
(***************************************************************************)
EXTENDS UdpPing, SequenceTheorems, TLAPS

LEMMA ConstantFacts ==
    /\ Second \in Nat \ {0} /\ ReplyTimeout \in Nat \ {0} /\ Backoff \in Nat \ {0}
    /\ SendDelay \in Nat /\ MaxTime \in Nat /\ MaxSent \in Nat /\ MaxDelay \in Nat
BY UdpAssumption

-----------------------------------------------------------------------------
(* The inductive invariant.                                                *)

Waiting == {"wait", "poll", "recv"}

\* What the client still has to wait, and what it is cut into.
Waits ==
    /\ client \in {"poll", "sleep"} => slice <= remaining
    /\ client \in {"wait", "poll"} => remaining <= ReplyTimeout
    /\ client = "wait" => now + remaining <= sentAt + ReplyTimeout + late
    /\ client = "poll" =>
          /\ deadline + remaining - slice <= sentAt + ReplyTimeout + late
          /\ now + remaining - slice <= sentAt + ReplyTimeout + late
    /\ client = "recv" => now <= sentAt + ReplyTimeout + late
    /\ late <= delayed

\* Each datagram is counted once, on its way, in the server or as a reply.
Counted ==
    /\ rx_count + Len(inbox) + Len(requests) <= sent
    /\ client = "recv" => answers # <<>>
    /\ server = "recv" => inbox # <<>>
    /\ timeouts <= sent /\ (client \in Waiting => timeouts < sent)

Ascends(s) == \A i, j \in 1 .. Len(s) : i < j => s[i] < s[j]
Before(s, t) == \A i \in 1 .. Len(s), j \in 1 .. Len(t) : s[i] < t[j]
Above(n, s) == \A i \in 1 .. Len(s) : n < s[i]
Below(s, n) == \A i \in 1 .. Len(s) : s[i] < n
AtMost(s, n) == \A i \in 1 .. Len(s) : s[i] <= n

\* Nothing overtakes anything on its way to the server and back, and nothing that is
\* on its way has been taken before.
InOrder ==
    /\ Ascends(requests) /\ Ascends(inbox) /\ Ascends(replies) /\ Ascends(answers)
    /\ Before(answers, replies) /\ Before(answers, inbox) /\ Before(answers, requests)
    /\ Before(replies, inbox) /\ Before(replies, requests) /\ Before(inbox, requests)
    /\ Above(taken, answers) /\ Above(taken, replies)
    /\ Above(taken, inbox) /\ Above(taken, requests)
    /\ AtMost(answers, sent) /\ AtMost(replies, sent)
    /\ AtMost(inbox, sent) /\ AtMost(requests, sent)

\* Every wait that is over has ended with a timeout or with a reply of its own.
Lag == taken + timeouts + (IF client \in Waiting \cup {"stopped"} THEN 1 ELSE 0) >= sent

IInv == TypeOK /\ Waits /\ Counted /\ InOrder /\ Lag
-----------------------------------------------------------------------------
(* Reports.                                                                *)

LEMMA DivFacts ==
    ASSUME NEW a \in Nat, NEW s \in Nat \ {0}
    PROVE  /\ a \div s \in Nat
           /\ (a \div s) * s <= a
           /\ (a \div s) * s \in Nat
OBVIOUS

\* A report never gets ahead of the time, and leaves no more than was counted.
LEMMA ReportFacts ==
    ASSUME NEW n \in Nat, now \in Nat, NEW log \in 0 .. now, NEW count \in 0 .. n
    PROVE  /\ NextLog(log) \in 0 .. now
           /\ Kept(count, log) \in 0 .. n
           /\ Kept(count, log) <= count
<1>1. now - log \in Nat
  OBVIOUS
<1>2. /\ Due(log) \in Nat /\ Due(log) * Second <= now - log /\ Due(log) * Second \in Nat
  BY <1>1, ConstantFacts, DivFacts DEF Due
<1>3. NextLog(log) \in 0 .. now
  BY <1>2 DEF NextLog
<1>4. QED BY <1>3 DEF Kept
-----------------------------------------------------------------------------
(* Datagrams on their way.                                                 *)

LEMMA TailFacts ==
    ASSUME NEW s \in Numbers, s # <<>>
    PROVE  /\ Tail(s) \in Numbers /\ Len(Tail(s)) = Len(s) - 1 /\ Len(s) \in Nat \ {0}
           /\ Head(s) \in 1 .. MaxSent /\ Head(s) = s[1]
           /\ \A i \in 1 .. Len(Tail(s)) : Tail(s)[i] = s[i + 1] /\ i + 1 \in 1 .. Len(s)
<1>1. Len(s) \in Nat \ {0} /\ Head(s) = s[1]
  BY EmptySeq DEF Numbers
<1>2. /\ Tail(s) \in Seq(1 .. MaxSent) /\ Len(Tail(s)) = Len(s) - 1 /\ Head(s) \in 1 .. MaxSent
      /\ \A i \in 1 .. Len(Tail(s)) : Tail(s)[i] = s[i + 1]
  BY HeadTailProperties DEF Numbers
<1>3. \A i \in 1 .. Len(Tail(s)) : i + 1 \in 1 .. Len(s)
  BY <1>1, <1>2
<1>4. QED BY <1>1, <1>2, <1>3 DEF Numbers

LEMMA AppendFacts ==
    ASSUME NEW s \in Numbers, NEW x \in 1 .. MaxSent
    PROVE  /\ Append(s, x) \in Numbers /\ Len(Append(s, x)) = Len(s) + 1 /\ Len(s) \in Nat
           /\ Append(s, x) # <<>>
           /\ \A i \in 1 .. Len(s) : Append(s, x)[i] = s[i]
           /\ Append(s, x)[Len(s) + 1] = x
BY AppendProperties, LenProperties DEF Numbers

\* The first one taken off a sequence.
LEMMA TailKeeps ==
    ASSUME NEW s \in Numbers, s # <<>>
    PROVE  /\ Ascends(s) => Ascends(Tail(s)) /\ Above(Head(s), Tail(s))
           /\ \A t \in Numbers : Before(s, t) => Before(Tail(s), t) /\ Above(Head(s), t)
           /\ \A t \in Numbers : Before(t, s) => Before(t, Tail(s)) /\ Below(t, Head(s))
           /\ \A n \in Nat : Above(n, s) => Above(n, Tail(s)) /\ n < Head(s)
           /\ \A n \in Nat : AtMost(s, n) => AtMost(Tail(s), n) /\ Head(s) <= n
<1> DEFINE u == Tail(s)
           h == Head(s)
<1>1. /\ Len(u) = Len(s) - 1 /\ Len(s) \in Nat \ {0} /\ h = s[1] /\ 1 \in 1 .. Len(s)
      /\ \A i \in 1 .. Len(u) : u[i] = s[i + 1] /\ i + 1 \in 1 .. Len(s)
  BY TailFacts
<1> HIDE DEF u, h
<1>2. ASSUME Ascends(s) PROVE Ascends(u) /\ Above(h, u)
  <2>1. ASSUME NEW i \in 1 .. Len(u), NEW j \in 1 .. Len(u), i < j PROVE u[i] < u[j]
    <3>1. i + 1 < j + 1
      BY <2>1, <1>1
    <3>2. QED BY <1>1, <1>2, <3>1 DEF Ascends
  <2>2. ASSUME NEW i \in 1 .. Len(u) PROVE h < u[i]
    <3>1. 1 < i + 1
      BY <1>1
    <3>2. QED BY <1>1, <1>2, <3>1 DEF Ascends
  <2>3. QED BY <2>1, <2>2 DEF Ascends, Above
<1>3. ASSUME NEW t \in Numbers, Before(s, t) PROVE Before(u, t) /\ Above(h, t)
  BY <1>1, <1>3 DEF Before, Above
<1>4. ASSUME NEW t \in Numbers, Before(t, s) PROVE Before(t, u) /\ Below(t, h)
  BY <1>1, <1>4 DEF Before, Below
<1>5. ASSUME NEW n \in Nat, Above(n, s) PROVE Above(n, u) /\ n < h
  BY <1>1, <1>5 DEF Above
<1>6. ASSUME NEW n \in Nat, AtMost(s, n) PROVE AtMost(u, n) /\ h <= n
  BY <1>1, <1>6 DEF AtMost
<1>7. QED BY <1>2, <1>3, <1>4, <1>5, <1>6 DEF u, h

\* One put at the end of a sequence.
LEMMA AppendKeeps ==
    ASSUME NEW s \in Numbers, NEW x \in 1 .. MaxSent
    PROVE  /\ Ascends(s) /\ Below(s, x) => Ascends(Append(s, x))
           /\ \A t \in Numbers : Before(s, t) /\ Above(x, t) => Before(Append(s, x), t)
           /\ \A t \in Numbers : Before(t, s) /\ Below(t, x) => Before(t, Append(s, x))
           /\ \A n \in Nat : Above(n, s) /\ n < x => Above(n, Append(s, x))
           /\ \A n \in Nat : AtMost(s, n) /\ x <= n => AtMost(Append(s, x), n)
<1> DEFINE u == Append(s, x)
<1>1. /\ Len(u) = Len(s) + 1 /\ Len(s) \in Nat /\ u[Len(s) + 1] = x
      /\ \A i \in 1 .. Len(s) : u[i] = s[i]
  BY AppendFacts
<1> HIDE DEF u
<1>2. \A i \in 1 .. Len(u) : (i \in 1 .. Len(s) /\ u[i] = s[i]) \/ (i = Len(s) + 1 /\ u[i] = x)
  BY <1>1
<1>3. ASSUME Ascends(s), Below(s, x) PROVE Ascends(u)
  <2>1. ASSUME NEW i \in 1 .. Len(u), NEW j \in 1 .. Len(u), i < j PROVE u[i] < u[j]
    <3>1. i \in 1 .. Len(s) /\ u[i] = s[i]
      BY <1>1, <2>1
    <3>2. CASE j \in 1 .. Len(s)
      BY <1>1, <1>3, <2>1, <3>1, <3>2 DEF Ascends
    <3>3. CASE u[j] = x
      BY <1>3, <3>1, <3>3 DEF Below
    <3>4. QED BY <1>2, <3>2, <3>3
  <2>2. QED BY <2>1 DEF Ascends
<1>4. ASSUME NEW t \in Numbers, Before(s, t), Above(x, t) PROVE Before(u, t)
  BY <1>2, <1>4 DEF Before, Above
<1>5. ASSUME NEW t \in Numbers, Before(t, s), Below(t, x) PROVE Before(t, u)
  BY <1>2, <1>5 DEF Before, Below
<1>6. ASSUME NEW n \in Nat, Above(n, s), n < x PROVE Above(n, u)
  BY <1>2, <1>6 DEF Above
<1>7. ASSUME NEW n \in Nat, AtMost(s, n), x <= n PROVE AtMost(u, n)
  BY <1>2, <1>7 DEF AtMost
<1>8. QED BY <1>3, <1>4, <1>5, <1>6, <1>7 DEF u

\* A new number is above all that were used.
LEMMA NewNumber ==
    ASSUME NEW s \in Numbers, NEW n \in Nat, AtMost(s, n)
    PROVE  Below(s, n + 1) /\ AtMost(s, n + 1)
<1>1. \A i \in 1 .. Len(s) : s[i] \in 1 .. MaxSent
  BY ElementOfSeq DEF Numbers
<1>2. QED BY <1>1 DEF AtMost, Below

-----------------------------------------------------------------------------
(* Initially.                                                              *)

LEMMA InitIInv == Init => IInv
<1> SUFFICES ASSUME Init PROVE IInv
  OBVIOUS
<1> USE ConstantFacts DEF Init
<1>1. Len(requests) = 0 /\ Len(inbox) = 0 /\ Len(replies) = 0 /\ Len(answers) = 0
  BY EmptySeq
<1>2. {requests, inbox, replies, answers} \subseteq Numbers
  BY EmptySeq DEF Numbers
<1>3. TypeOK
  BY <1>2 DEF TypeOK
<1>4. Waits /\ Counted /\ Lag
  BY <1>1 DEF Waits, Counted, Lag, Waiting
<1>5. InOrder
  BY <1>1 DEF InOrder, Ascends, Before, Above, AtMost
<1>6. QED BY <1>3, <1>4, <1>5 DEF IInv

-----------------------------------------------------------------------------
(* Order of the datagrams.                                                 *)

LEMMA NextInOrder ==
    ASSUME TypeOK, Counted, InOrder, [Next]_vars
    PROVE  InOrder'
<1>1. /\ requests \in Numbers /\ inbox \in Numbers /\ replies \in Numbers /\ answers \in Numbers
      /\ sent \in Nat /\ taken \in Nat
  BY ConstantFacts DEF TypeOK
<1>2. CASE UNCHANGED <<net, taken, sent>>
  BY <1>2 DEF InOrder, net
<1>3. CASE Send /\ sent' = sent + 1
  <2>1. /\ requests' = Append(requests, sent + 1) /\ sent + 1 \in 1 .. MaxSent
        /\ UNCHANGED <<inbox, replies, answers, taken>>
    BY <1>1, <1>3, ConstantFacts DEF Send
  <2>2. /\ Below(requests, sent + 1) /\ Below(inbox, sent + 1) /\ Below(replies, sent + 1)
        /\ Below(answers, sent + 1) /\ AtMost(requests, sent + 1) /\ AtMost(inbox, sent + 1)
        /\ AtMost(replies, sent + 1) /\ AtMost(answers, sent + 1)
    BY <1>1, NewNumber DEF InOrder
  <2>3. taken < sent + 1 /\ sent + 1 <= sent + 1 /\ sent + 1 \in Nat
    BY <1>1 DEF TypeOK
  <2>4. /\ Ascends(requests') /\ Before(answers, requests') /\ Before(replies, requests')
        /\ Before(inbox, requests') /\ Above(taken, requests') /\ AtMost(requests', sent + 1)
    BY <1>1, <2>1, <2>2, <2>3, AppendKeeps DEF InOrder
  <2>5. QED BY <1>3, <2>1, <2>2, <2>4 DEF InOrder
<1>4. CASE Recv /\ answers' = Tail(answers) /\ taken' = Head(answers)
  <2>1. answers # <<>> /\ UNCHANGED <<requests, inbox, replies, sent>>
    BY <1>4 DEF Recv, Counted
  <2>2. /\ Ascends(answers') /\ Above(taken', answers') /\ AtMost(answers', sent)
        /\ Before(answers', replies) /\ Before(answers', inbox) /\ Before(answers', requests)
        /\ Above(taken', replies) /\ Above(taken', inbox) /\ Above(taken', requests)
    BY <1>1, <1>4, <2>1, TailKeeps DEF InOrder
  <2>3. QED BY <2>1, <2>2 DEF InOrder
<1>5. CASE ServerReplies
  <2>1. /\ inbox # <<>> /\ inbox' = Tail(inbox) /\ UNCHANGED <<requests, answers, taken, sent>>
        /\ replies' = replies \/ replies' = Append(replies, Head(inbox))
    BY <1>5 DEF ServerReplies, Counted, cvars
  <2>2. /\ Ascends(inbox') /\ Before(answers, inbox') /\ Before(replies, inbox')
        /\ Before(inbox', requests) /\ Above(taken, inbox') /\ AtMost(inbox', sent)
        /\ Below(answers, Head(inbox)) /\ Below(replies, Head(inbox))
        /\ Above(Head(inbox), requests) /\ Above(Head(inbox), inbox')
        /\ taken < Head(inbox) /\ Head(inbox) <= sent
    BY <1>1, <2>1, TailKeeps DEF InOrder
  <2>3. inbox' \in Numbers /\ Head(inbox) \in 1 .. MaxSent
    BY <1>1, <2>1, TailFacts
  <2>4. CASE replies' = replies
    BY <2>1, <2>2, <2>4 DEF InOrder
  <2>5. CASE replies' = Append(replies, Head(inbox))
    <3>1. /\ Ascends(replies') /\ Before(answers, replies') /\ Before(replies', inbox')
          /\ Before(replies', requests) /\ Above(taken, replies') /\ AtMost(replies', sent)
      BY <1>1, <2>2, <2>3, <2>5, AppendKeeps DEF InOrder
    <3>2. QED BY <2>1, <2>2, <3>1 DEF InOrder
  <2>6. QED BY <2>1, <2>4, <2>5
<1>6. CASE CarryRequest
  <2>1. /\ requests # <<>> /\ requests' = Tail(requests) /\ UNCHANGED <<replies, answers, taken, sent>>
        /\ inbox' = inbox \/ inbox' = Append(inbox, Head(requests))
    BY <1>6 DEF CarryRequest, cvars
  <2>2. /\ Ascends(requests') /\ Before(answers, requests') /\ Before(replies, requests')
        /\ Before(inbox, requests') /\ Above(taken, requests') /\ AtMost(requests', sent)
        /\ Below(answers, Head(requests)) /\ Below(replies, Head(requests))
        /\ Below(inbox, Head(requests)) /\ Above(Head(requests), requests')
        /\ taken < Head(requests) /\ Head(requests) <= sent
    BY <1>1, <2>1, TailKeeps DEF InOrder
  <2>3. requests' \in Numbers /\ Head(requests) \in 1 .. MaxSent
    BY <1>1, <2>1, TailFacts
  <2>4. CASE inbox' = inbox
    BY <2>1, <2>2, <2>4 DEF InOrder
  <2>5. CASE inbox' = Append(inbox, Head(requests))
    <3>1. /\ Ascends(inbox') /\ Before(answers, inbox') /\ Before(replies, inbox')
          /\ Before(inbox', requests') /\ Above(taken, inbox') /\ AtMost(inbox', sent)
      BY <1>1, <2>2, <2>3, <2>5, AppendKeeps DEF InOrder
    <3>2. QED BY <2>1, <2>2, <3>1 DEF InOrder
  <2>6. QED BY <2>1, <2>4, <2>5
<1>7. CASE CarryReply
  <2>1. /\ replies # <<>> /\ replies' = Tail(replies) /\ UNCHANGED <<requests, inbox, taken, sent>>
        /\ answers' = answers \/ answers' = Append(answers, Head(replies))
    BY <1>7 DEF CarryReply, cvars
  <2>2. /\ Ascends(replies') /\ Before(answers, replies') /\ Before(replies', inbox)
        /\ Before(replies', requests) /\ Above(taken, replies') /\ AtMost(replies', sent)
        /\ Below(answers, Head(replies)) /\ Above(Head(replies), inbox)
        /\ Above(Head(replies), requests) /\ Above(Head(replies), replies')
        /\ taken < Head(replies) /\ Head(replies) <= sent
    BY <1>1, <2>1, TailKeeps DEF InOrder
  <2>3. replies' \in Numbers /\ Head(replies) \in 1 .. MaxSent
    BY <1>1, <2>1, TailFacts
  <2>4. CASE answers' = answers
    BY <2>1, <2>2, <2>4 DEF InOrder
  <2>5. CASE answers' = Append(answers, Head(replies))
    <3>1. /\ Ascends(answers') /\ Before(answers', replies') /\ Before(answers', inbox)
          /\ Before(answers', requests) /\ Above(taken, answers') /\ AtMost(answers', sent)
      BY <1>1, <2>2, <2>3, <2>5, AppendKeeps DEF InOrder
    <3>2. QED BY <2>1, <2>2, <3>1 DEF InOrder
  <2>6. QED BY <2>1, <2>4, <2>5
<1>8. CASE Client
  <2>1. CASE Send
    BY <1>2, <1>3, <2>1 DEF Send, net
  <2>2. CASE Recv
    BY <1>2, <1>4, <2>2 DEF Recv, net
  <2>3. CASE BackoffEnds \/ Poll \/ PollReturns \/ PollFails \/ NoReply
             \/ Sleep \/ SleepEnds \/ DelayOver
    BY <1>2, <2>3 DEF BackoffEnds, Poll, Sleep, Block, PollReturns, PollFails, NoReply,
                      SleepEnds, DelayOver
  <2>4. QED BY <1>8, <2>1, <2>2, <2>3 DEF Client
<1>9. CASE ServerPoll \/ ServerPollFails \/ ServerPollReturns \/ Tick \/ UNCHANGED vars
  BY <1>2, <1>9 DEF ServerPoll, ServerPollFails, ServerPollReturns, Tick, vars, cvars
<1>10. QED BY <1>5, <1>6, <1>7, <1>8, <1>9 DEF Next, Server

-----------------------------------------------------------------------------
(* Types.                                                                  *)

LEMMA ClientReports ==
    ASSUME TypeOK, LogTxRate(tx_count)
    PROVE  tx_count' \in 0 .. sent /\ tx_log' \in 0 .. now
BY ReportFacts DEF TypeOK, LogTxRate

LEMMA BlockFacts ==
    ASSUME TypeOK, NEW from, NEW to, Block(from, to)
    PROVE  /\ UNCHANGED <<time, remaining, sent, sentAt, late, timeouts, taken, svars, net>>
           /\ client = from /\ remaining > 0
           /\ tx_count' \in 0 .. sent /\ tx_log' \in 0 .. now
           /\ \/ UNCHANGED <<client, deadline, slice>>
              \/ /\ client' = to /\ slice' \in 0 .. Second /\ slice' <= remaining
                 /\ deadline' = now + slice'
<1> USE ConstantFacts
<1>1. /\ UNCHANGED <<time, remaining, sent, sentAt, late, timeouts, taken, svars, net>>
      /\ client = from /\ remaining > 0
  BY DEF Block
<1>2. CASE UntilLog(tx_log) <= 0
  BY <1>1, <1>2, ClientReports DEF Block
<1>3. CASE ~(UntilLog(tx_log) <= 0)
  <2>1. /\ slice' = Smaller(remaining, UntilLog(tx_log)) /\ deadline' = now + slice'
        /\ client' = to /\ tx_count' = tx_count /\ tx_log' = tx_log
    BY <1>3 DEF Block
  <2>2. UntilLog(tx_log) \in 0 .. Second /\ remaining \in Nat
    BY <1>3 DEF UntilLog, TypeOK
  <2>3. slice' \in 0 .. Second /\ slice' <= remaining
    BY <2>1, <2>2 DEF Smaller
  <2>4. QED BY <1>1, <2>1, <2>3 DEF TypeOK
<1>4. QED BY <1>2, <1>3

LEMMA NextTyped ==
    ASSUME TypeOK, Waits, Counted, InOrder, [Next]_vars
    PROVE  TypeOK'
<1> USE ConstantFacts DEF TypeOK
<1>1. CASE Send
  <2>1. CASE sent' = sent + 1 /\ requests' = Append(requests, sent')
    <3>1. sent' \in 1 .. MaxSent /\ sent' \in Nat
      BY <1>1, <2>1 DEF Send
    <3>2. requests' \in Numbers
      BY <2>1, <3>1, AppendFacts
    <3>3. LogTxRate(tx_count + 1) /\ tx_count + 1 \in 0 .. sent'
      BY <1>1, <2>1 DEF Send
    <3>4. tx_count' \in 0 .. sent' /\ tx_log' \in 0 .. now
      BY <3>1, <3>3, ReportFacts DEF LogTxRate
    <3>5. UNCHANGED <<time, slice, timeouts, taken, svars, inbox, replies, answers>>
      BY <1>1 DEF Send
    <3>6. client' = "wait" /\ remaining' = ReplyTimeout /\ sentAt' = now /\ late' = 0 /\ deadline' = deadline
      BY <1>1, <2>1 DEF Send
    <3>7. {requests', inbox', replies', answers'} \subseteq Numbers
      BY <3>2, <3>5
    <3>8. QED BY <2>1, <3>1, <3>4, <3>5, <3>6, <3>7 DEF time, svars
  <2>2. CASE UNCHANGED <<sent, sentAt, late, remaining, requests>>
    <3>1. LogTxRate(tx_count) /\ client' = "backoff" /\ deadline' = now + Backoff
      BY <1>1, <2>2 DEF Send
    <3>2. UNCHANGED <<time, slice, timeouts, taken, svars, inbox, replies, answers>>
      BY <1>1 DEF Send
    <3>3. tx_count' \in 0 .. sent /\ tx_log' \in 0 .. now
      BY <3>1, ClientReports
    <3>4. QED BY <2>2, <3>1, <3>2, <3>3 DEF time, svars
  <2>3. QED BY <1>1, <2>1, <2>2 DEF Send
<1>2. CASE BackoffEnds \/ PollFails \/ DelayOver
  BY <1>2 DEF BackoffEnds, PollFails, DelayOver, time, svars, net
<1>3. CASE Poll \/ Sleep
  <2>1. /\ UNCHANGED <<time, remaining, sent, sentAt, late, timeouts, taken, svars, net>>
        /\ tx_count' \in 0 .. sent /\ tx_log' \in 0 .. now
        /\ \/ UNCHANGED <<client, deadline, slice>>
           \/ /\ client' \in {"poll", "sleep"} /\ slice' \in 0 .. Second
              /\ deadline' = now + slice'
    BY <1>3, BlockFacts DEF Poll, Sleep
  <2>2. QED BY <2>1 DEF time, svars, net
<1>4. CASE PollReturns \/ SleepEnds
  <2>1. /\ remaining' = remaining - slice /\ LogTxRate(tx_count)
        /\ client \in {"poll", "sleep"} /\ client' \in {"recv", "wait", "delay"}
        /\ UNCHANGED <<time, deadline, slice, sent, sentAt, late, timeouts, taken, svars, net>>
    BY <1>4 DEF PollReturns, SleepEnds
  <2>2. tx_count' \in 0 .. sent /\ tx_log' \in 0 .. now
    BY <2>1, ClientReports
  <2>3. remaining' \in 0 .. (ReplyTimeout + SendDelay)
    BY <2>1 DEF Waits
  <2>4. QED BY <2>1, <2>2, <2>3 DEF time, svars, net
<1>5. CASE Recv
  <2>1. answers \in Numbers /\ answers # <<>>
    BY <1>5 DEF Recv, Counted
  <2>2. Tail(answers) \in Numbers /\ 1 \in 1 .. Len(answers) /\ Head(answers) = answers[1]
        /\ Head(answers) \in 1 .. MaxSent
    BY <2>1, TailFacts
  <2>3. Head(answers) \in 0 .. sent
    BY <2>2 DEF InOrder, AtMost
  <2>4. taken' \in 0 .. sent /\ timeouts' \in 0 .. sent /\ answers' \in Numbers
    <3>1. timeouts + 1 \in 0 .. sent
      BY <1>5 DEF Recv, Counted, Waiting
    <3>2. CASE taken' = Head(answers) /\ answers' = Tail(answers) /\ timeouts' = timeouts
      BY <2>2, <2>3, <3>2
    <3>3. CASE timeouts' = timeouts + 1 /\ taken' = taken /\ answers' = answers
      BY <2>1, <3>1, <3>3
    <3>4. QED BY <1>5, <3>2, <3>3 DEF Recv
  <2>5. /\ client' = "delay" /\ remaining' = SendDelay
        /\ UNCHANGED <<time, deadline, slice, tx_count, tx_log, sent, sentAt, late, svars,
                       requests, inbox, replies>>
    BY <1>5 DEF Recv
  <2>6. {requests', inbox', replies', answers'} \subseteq Numbers
    BY <2>4, <2>5
  <2>7. QED BY <2>4, <2>5, <2>6 DEF time, svars
<1>6. CASE NoReply
  BY <1>6 DEF NoReply, time, svars, net, Counted, Waiting
<1>7. CASE ServerPoll
  <2>1. sdeadline' \in Nat
    BY <1>7 DEF ServerPoll, UntilLog
  <2>2. server' = "poll" /\ UNCHANGED <<time, cvars, late, rx_count, rx_log, net>>
    BY <1>7 DEF ServerPoll
  <2>3. QED BY <2>1, <2>2 DEF time, cvars, net
<1>8. CASE ServerPollFails
  BY <1>8 DEF ServerPollFails, time, cvars, net
<1>9. CASE ServerPollReturns
  <2>1. rx_count' \in 0 .. sent /\ rx_log' \in 0 .. now
    BY <1>9, ReportFacts DEF ServerPollReturns
  <2>2. server' \in {"recv", "loop"} /\ UNCHANGED <<time, cvars, late, sdeadline, net>>
    BY <1>9 DEF ServerPollReturns
  <2>3. QED BY <2>1, <2>2 DEF time, cvars, net
<1>10. CASE ServerReplies
  <2>1. inbox \in Numbers /\ replies \in Numbers /\ inbox # <<>>
    BY <1>10 DEF ServerReplies, Counted
  <2>2. /\ Tail(inbox) \in Numbers /\ Append(replies, Head(inbox)) \in Numbers
        /\ Len(inbox) \in Nat \ {0}
    BY <2>1, TailFacts, AppendFacts
  <2>3. /\ inbox' = Tail(inbox) /\ replies' \in {replies, Append(replies, Head(inbox))}
        /\ rx_count' = rx_count \/ rx_count' = rx_count + 1
        /\ server' = "loop" /\ UNCHANGED <<time, cvars, late, sdeadline, rx_log, requests, answers>>
    BY <1>10 DEF ServerReplies
  <2>4. Len(requests) \in Nat
    BY LenProperties DEF Numbers
  <2>5. rx_count' \in 0 .. sent
    BY <2>2, <2>3, <2>4 DEF Counted
  <2>6. {requests', inbox', replies', answers'} \subseteq Numbers
    BY <2>2, <2>3
  <2>7. QED BY <2>3, <2>5, <2>6 DEF time, cvars
<1>11. CASE CarryRequest
  <2>1. requests \in Numbers /\ inbox \in Numbers /\ requests # <<>>
    BY <1>11 DEF CarryRequest
  <2>2. Tail(requests) \in Numbers /\ Append(inbox, Head(requests)) \in Numbers
    BY <2>1, TailFacts, AppendFacts
  <2>3. /\ requests' = Tail(requests) /\ inbox' \in {inbox, Append(inbox, Head(requests))}
        /\ UNCHANGED <<time, cvars, late, svars, replies, answers>>
    BY <1>11 DEF CarryRequest
  <2>4. {requests', inbox', replies', answers'} \subseteq Numbers
    BY <2>2, <2>3
  <2>5. QED BY <2>3, <2>4 DEF time, cvars, svars
<1>12. CASE CarryReply
  <2>1. replies \in Numbers /\ answers \in Numbers /\ replies # <<>>
    BY <1>12 DEF CarryReply
  <2>2. Tail(replies) \in Numbers /\ Append(answers, Head(replies)) \in Numbers
    BY <2>1, TailFacts, AppendFacts
  <2>3. /\ replies' = Tail(replies) /\ answers' \in {answers, Append(answers, Head(replies))}
        /\ UNCHANGED <<time, cvars, late, svars, requests, inbox>>
    BY <1>12 DEF CarryReply
  <2>4. {requests', inbox', replies', answers'} \subseteq Numbers
    BY <2>2, <2>3
  <2>5. QED BY <2>3, <2>4 DEF time, cvars, svars
<1>13. CASE Tick
  <2>1. /\ now' = now + 1 /\ now' \in 0 .. MaxTime /\ delayed' \in 0 .. MaxDelay
        /\ UNCHANGED <<cvars, svars, net>>
    BY <1>13 DEF Tick
  <2>2. late' \in 0 .. MaxDelay
    BY <1>13, <2>1 DEF Tick, Waits
  <2>3. QED BY <2>1, <2>2 DEF cvars, svars, net
<1>14. CASE UNCHANGED vars
  BY <1>14 DEF vars, time, cvars, svars, net
<1>15. QED
  BY <1>1, <1>2, <1>3, <1>4, <1>5, <1>6, <1>7, <1>8, <1>9, <1>10, <1>11, <1>12, <1>13, <1>14
     DEF Next, Client, Server

-----------------------------------------------------------------------------
(* The length of a wait.                                                   *)

LEMMA NextWaits ==
    ASSUME TypeOK, Waits, [Next]_vars
    PROVE  Waits'
<1> USE ConstantFacts DEF TypeOK, Waits
<1>1. CASE Send
  BY <1>1 DEF Send, time
<1>2. CASE BackoffEnds \/ PollFails \/ DelayOver
  BY <1>2 DEF BackoffEnds, PollFails, DelayOver, time
<1>3. CASE Poll
  <2>1. /\ UNCHANGED <<time, remaining, sentAt, late>> /\ client = "wait"
        /\ \/ UNCHANGED <<client, deadline, slice>>
           \/ /\ client' = "poll" /\ slice' \in 0 .. Second /\ slice' <= remaining
              /\ deadline' = now + slice'
    BY <1>3, BlockFacts DEF Poll
  <2>2. QED BY <2>1 DEF time
<1>4. CASE Sleep
  <2>1. /\ UNCHANGED <<time, remaining, sentAt, late>> /\ client = "delay"
        /\ \/ UNCHANGED <<client, deadline, slice>>
           \/ /\ client' = "sleep" /\ slice' \in 0 .. Second /\ slice' <= remaining
              /\ deadline' = now + slice'
    BY <1>4, BlockFacts DEF Sleep
  <2>2. QED BY <2>1 DEF time
<1>5. CASE PollReturns
  BY <1>5 DEF PollReturns, time
<1>6. CASE SleepEnds
  BY <1>6 DEF SleepEnds, time
<1>7. CASE Recv \/ NoReply
  BY <1>7 DEF Recv, NoReply, time
<1>8. CASE Server \/ CarryRequest \/ CarryReply
  BY <1>8 DEF Server, ServerPoll, ServerPollFails, ServerPollReturns, ServerReplies,
              CarryRequest, CarryReply, time, cvars
<1>9. CASE Tick
  <2>1. /\ now' = now + 1 /\ UNCHANGED <<client, deadline, slice, remaining, sentAt>>
        /\ late' = (IF ClientReady THEN late + 1 ELSE late)
        /\ delayed' = (IF ClientReady \/ ServerReady THEN delayed + 1 ELSE delayed)
    BY <1>9 DEF Tick, cvars
  <2>2. now \in Nat /\ late \in Nat /\ delayed \in Nat /\ sentAt \in Nat
    OBVIOUS
  <2>3. late' <= delayed' /\ late' \in Nat /\ late' >= late
    BY <2>1, <2>2
  <2>4. CASE client \in {"wait", "recv"}
    <3>1. late' = late + 1
      BY <2>1, <2>4 DEF ClientReady
    <3>2. QED BY <2>1, <2>2, <2>3, <2>4, <3>1
  <2>5. CASE client = "poll"
    <3>1. CASE now < deadline
      BY <2>1, <2>2, <2>3, <2>5, <3>1
    <3>2. CASE now >= deadline
      <4>1. late' = late + 1
        BY <2>1, <2>5, <3>2 DEF ClientReady
      <4>2. QED BY <2>1, <2>2, <2>3, <2>5, <4>1
    <3>3. QED BY <3>1, <3>2
  <2>6. CASE client \notin {"wait", "recv", "poll"}
    BY <2>1, <2>3, <2>6
  <2>7. QED BY <2>4, <2>5, <2>6
<1>10. CASE UNCHANGED vars
  BY <1>10 DEF vars, time, cvars
<1>11. QED
  BY <1>1, <1>2, <1>3, <1>4, <1>5, <1>6, <1>7, <1>8, <1>9, <1>10 DEF Next, Client

-----------------------------------------------------------------------------
(* What is counted.                                                        *)

LEMMA NextCounted ==
    ASSUME TypeOK, Waits, Counted, [Next]_vars
    PROVE  Counted'
<1> USE ConstantFacts DEF Counted, Waiting
<1>0. /\ requests \in Numbers /\ inbox \in Numbers /\ replies \in Numbers /\ answers \in Numbers
      /\ Len(requests) \in Nat /\ Len(inbox) \in Nat
      /\ rx_count \in Nat /\ sent \in Nat /\ timeouts \in Nat
      /\ rx_log \in 0 .. now /\ now \in Nat
  BY LenProperties DEF TypeOK, Numbers
<1>1. CASE Send
  <2>1. CASE sent' = sent + 1 /\ requests' = Append(requests, sent')
    <3>1. sent' \in 1 .. MaxSent
      BY <1>0, <1>1, <2>1 DEF Send
    <3>2. Len(requests') = Len(requests) + 1
      BY <1>0, <2>1, <3>1, AppendFacts
    <3>3. UNCHANGED <<rx_count, server, inbox, answers, timeouts>> /\ client' # "recv"
      BY <1>1 DEF Send, svars
    <3>4. QED BY <1>0, <2>1, <3>2, <3>3
  <2>2. CASE UNCHANGED <<sent, requests>> /\ client' = "backoff"
    BY <1>1, <2>2 DEF Send, svars
  <2>3. QED BY <1>1, <2>1, <2>2 DEF Send
<1>2. CASE BackoffEnds \/ PollFails \/ DelayOver \/ PollReturns \/ SleepEnds
  <2>1. /\ UNCHANGED <<rx_count, server, inbox, requests, answers, sent, timeouts>>
        /\ client' = "recv" => answers # <<>>
        /\ client' \in Waiting => client \in Waiting
    BY <1>2 DEF BackoffEnds, PollFails, DelayOver, PollReturns, SleepEnds, svars, net
  <2>2. QED BY <2>1
<1>3. CASE Poll \/ Sleep
  <2>1. /\ UNCHANGED <<rx_count, server, inbox, requests, answers, sent, timeouts>>
        /\ client' # "recv"
        /\ client' \in Waiting => client \in Waiting
    BY <1>3, BlockFacts DEF Poll, Sleep, svars, net
  <2>2. QED BY <2>1
<1>4. CASE Recv \/ NoReply
  <2>1. /\ UNCHANGED <<rx_count, server, inbox, requests, sent>>
        /\ client' = "delay" /\ client \in Waiting
        /\ timeouts' = timeouts \/ timeouts' = timeouts + 1
    BY <1>4 DEF Recv, NoReply, svars, net
  <2>2. QED BY <1>0, <2>1
<1>5. CASE ServerPoll \/ ServerPollFails
  BY <1>5 DEF ServerPoll, ServerPollFails, cvars, net
<1>6. CASE ServerPollReturns
  <2>1. rx_count' <= rx_count /\ rx_count' \in Nat
    BY <1>0, <1>6, ReportFacts DEF ServerPollReturns
  <2>2. UNCHANGED <<client, timeouts, sent, inbox, requests, answers>>
        /\ (server' = "recv" => inbox # <<>>)
    BY <1>6 DEF ServerPollReturns, cvars, net
  <2>3. QED BY <1>0, <2>1, <2>2
<1>7. CASE ServerReplies
  <2>1. /\ inbox # <<>> /\ inbox' = Tail(inbox) /\ server' = "loop"
        /\ rx_count' = rx_count \/ rx_count' = rx_count + 1
        /\ UNCHANGED <<client, timeouts, sent, requests, answers>>
    BY <1>7 DEF ServerReplies, cvars
  <2>2. Len(inbox') = Len(inbox) - 1
    BY <1>0, <2>1, TailFacts
  <2>3. QED BY <1>0, <2>1, <2>2
<1>8. CASE CarryRequest
  <2>1. /\ requests # <<>> /\ requests' = Tail(requests)
        /\ inbox' = inbox \/ inbox' = Append(inbox, Head(requests))
        /\ UNCHANGED <<client, timeouts, sent, answers, rx_count, server>>
    BY <1>8 DEF CarryRequest, cvars, svars
  <2>2. Len(requests') = Len(requests) - 1 /\ Head(requests) \in 1 .. MaxSent
    BY <1>0, <2>1, TailFacts
  <2>3. inbox' = inbox \/ (Len(inbox') = Len(inbox) + 1 /\ inbox' # <<>>)
    BY <1>0, <2>1, <2>2, AppendFacts
  <2>4. QED BY <1>0, <2>1, <2>2, <2>3
<1>9. CASE CarryReply
  <2>1. /\ replies # <<>>
        /\ answers' = answers \/ answers' = Append(answers, Head(replies))
        /\ UNCHANGED <<client, timeouts, sent, requests, inbox, rx_count, server>>
    BY <1>9 DEF CarryReply, cvars, svars
  <2>2. UNCHANGED <<client, timeouts, sent, requests, inbox, rx_count, server>>
    BY <1>9 DEF CarryReply, cvars, svars
  <2>3. answers' = answers \/ answers' # <<>>
    BY <1>0, <1>9, TailFacts, AppendFacts DEF CarryReply
  <2>4. QED BY <2>2, <2>3
<1>10. CASE Tick \/ UNCHANGED vars
  BY <1>10 DEF Tick, vars, cvars, svars, net
<1>11. QED
  BY <1>1, <1>2, <1>3, <1>4, <1>5, <1>6, <1>7, <1>8, <1>9, <1>10 DEF Next, Client, Server

-----------------------------------------------------------------------------
(* Falling behind.                                                         *)

LEMMA NextLag ==
    ASSUME TypeOK, Counted, InOrder, Lag, [Next]_vars
    PROVE  Lag'
<1> USE DEF Waiting
<1>0. taken \in Nat /\ timeouts \in Nat /\ sent \in Nat
  BY ConstantFacts DEF TypeOK
<1>1. CASE UNCHANGED <<client, taken, timeouts, sent>>
  BY <1>1 DEF Lag
<1>2. CASE Send
  BY <1>0, <1>2 DEF Send, Lag
<1>3. CASE BackoffEnds \/ PollFails \/ DelayOver \/ PollReturns \/ SleepEnds
  BY <1>0, <1>3 DEF BackoffEnds, PollFails, DelayOver, PollReturns, SleepEnds, Lag
<1>4. CASE Poll \/ Sleep
  <2>1. UNCHANGED <<taken, timeouts, sent>>
    BY <1>4, BlockFacts DEF Poll, Sleep
  <2>2. client' \in Waiting \cup {"stopped"} <=> client \in Waiting \cup {"stopped"}
    BY <1>4, BlockFacts DEF Poll, Sleep
  <2>3. QED BY <1>0, <2>1, <2>2 DEF Lag
<1>5. CASE NoReply
  BY <1>0, <1>5 DEF NoReply, Lag
<1>6. CASE Recv
  <2>1. client = "recv" /\ client' = "delay" /\ sent' = sent /\ answers # <<>>
    BY <1>6 DEF Recv, Counted
  <2>2. Head(answers) \in Nat /\ taken < Head(answers)
    <3>1. Head(answers) = answers[1] /\ Head(answers) \in 1 .. MaxSent /\ 1 \in 1 .. Len(answers)
      BY <2>1, TailFacts DEF TypeOK
    <3>2. QED BY <3>1 DEF InOrder, Above
  <2>3. \/ taken' = Head(answers) /\ timeouts' = timeouts
        \/ taken' = taken /\ timeouts' = timeouts + 1
    BY <1>6 DEF Recv
  <2>4. taken + timeouts + 1 >= sent
    BY <2>1 DEF Lag
  <2>5. taken' + timeouts' >= sent
    BY <1>0, <2>2, <2>3, <2>4
  <2>6. QED BY <1>0, <2>1, <2>2, <2>3, <2>5 DEF Lag
<1>7. QED
  BY <1>1, <1>2, <1>3, <1>4, <1>5, <1>6
     DEF Next, Client, Server, ServerPoll, ServerPollFails, ServerPollReturns, ServerReplies,
         CarryRequest, CarryReply, Tick, vars, cvars

-----------------------------------------------------------------------------
(* The theorems.                                                           *)

LEMMA NextIInv ==
    ASSUME IInv, [Next]_vars
    PROVE  IInv'
BY NextTyped, NextWaits, NextCounted, NextInOrder, NextLag DEF IInv

\* The times, the counts and the datagrams on their way fit together after every step
\* of the client, the server, the network and the clock.
THEOREM Invariance == Spec => []IInv
<1>1. IInv /\ [Next]_vars => IInv'
  BY NextIInv
<1>2. QED BY InitIInv, <1>1, PTL DEF Spec

\* The wait for a reply, cut into pieces by the reports of the packet rate, is never
\* longer than the configured timeout beyond what the client was kept from running; and
\* every variable keeps its type.
THEOREM WaitBoundedHolds == Spec => []WaitBounded
<1>1. IInv => WaitBounded
  <2> SUFFICES ASSUME IInv PROVE WaitBounded
    OBVIOUS
  <2>1. TypeOK /\ Waits
    BY DEF IInv
  <2>2. client \in Waiting => now - sentAt <= ReplyTimeout + late
    BY <2>1, ConstantFacts DEF TypeOK, Waits, Waiting
  <2>3. QED BY <2>1, <2>2 DEF WaitBounded, Waiting
<1>2. QED BY Invariance, <1>1, PTL

\* The client takes a late reply for the next one, and falls behind by one with every
\* timeout, never by more.
THEOREM LagBoundedHolds == Spec => []LagBounded
<1>1. IInv => LagBounded
  BY ConstantFacts DEF IInv, Lag, Waiting, LagBounded, TypeOK
<1>2. QED BY Invariance, <1>1, PTL
=============================================================================
