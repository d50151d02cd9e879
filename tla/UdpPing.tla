------------------------------ MODULE UdpPing ------------------------------
(***************************************************************************)
(* apps/udp_client and apps/udp_server with CONFIG_UDP_CLIENT_EXPECT_REPLIES*)
(* and CONFIG_UDP_SERVER_SEND_REPLIES: the client sends a datagram, waits  *)
(* for a reply at most REPLY_TIMEOUT_MS, pauses for SEND_DELAY_MS and goes *)
(* on; both ends report their packet rate once a second, and cut every     *)
(* wait at the next report. Replies carry no number: whichever comes ends  *)
(* the wait.                                                               *)
(*                                                                         *)
(* Time is counted in ticks. It passes while both programs are blocked;    *)
(* while one could run it passes only as a delay, of which there are at    *)
(* most MaxDelay. The network keeps the order and loses what it likes.     *)
(***************************************************************************)
EXTENDS Naturals, Integers, Sequences

CONSTANTS Second,       \* ticks of a second
          ReplyTimeout, SendDelay, Backoff,
          MaxTime,      \* bound: ticks
          MaxSent,      \* bound: datagrams
          MaxDelay      \* bound: ticks that pass while a program could run

ASSUME UdpAssumption ==
    /\ {Second, ReplyTimeout, Backoff} \subseteq Nat \ {0}
    /\ {SendDelay, MaxTime, MaxSent, MaxDelay} \subseteq Nat

VARIABLES
    now, delayed,   \* ticks; those that passed although a program could run
    client,         \* where process_udp_proto is
    deadline,       \* end of its poll or sleep
    slice,          \* poll_timeout_ms, sleep_ms
    remaining,      \* wait_remaining_ms, send_delay_ms
    tx_count, tx_log,       \* tx_packets_last_sec, last_rate_log_ms
    sent,           \* datagrams sent; the last one's number
    sentAt, late,   \* history: when, and delays of the client since
    timeouts,       \* history: waits that ended without a reply
    taken,          \* history: number of the datagram the last reply answers
    server, sdeadline, rx_count, rx_log,    \* the same of start_udp in the server
    requests, inbox,        \* datagrams on their way, in the server's socket
    replies, answers        \* replies on their way, in the client's socket

time == <<now, delayed>>
cvars == <<client, deadline, slice, remaining, tx_count, tx_log, sent, sentAt, timeouts, taken>>
svars == <<server, sdeadline, rx_count, rx_log>>
net == <<requests, inbox, replies, answers>>
vars == <<time, cvars, late, svars, net>>

Init ==
    /\ now = 0 /\ delayed = 0
    /\ client = "send" /\ deadline = 0 /\ slice = 0 /\ remaining = 0
    /\ tx_count = 0 /\ tx_log = 0
    /\ sent = 0 /\ sentAt = 0 /\ late = 0 /\ timeouts = 0 /\ taken = 0
    /\ server = "loop" /\ sdeadline = 0 /\ rx_count = 0 /\ rx_log = 0
    /\ requests = <<>> /\ inbox = <<>> /\ replies = <<>> /\ answers = <<>>

Smaller(a, b) == IF a < b THEN a ELSE b

\* Seconds to report, and what a report leaves of the count.
Due(log) == (now - log) \div Second
Kept(count, log) == IF Due(log) = 0 THEN count ELSE 0

NextLog(log) == log + Due(log) * Second

UntilLog(log) == Second - (now - log)

-----------------------------------------------------------------------------
(* process_udp_proto                                                       *)

LogTxRate(count) == tx_count' = Kept(count, tx_log) /\ tx_log' = NextLog(tx_log)

Send ==
    /\ client = "send" /\ sent < MaxSent
    /\ \/ /\ sent' = sent + 1
          /\ requests' = Append(requests, sent')
          /\ LogTxRate(tx_count + 1)
          /\ client' = "wait" /\ remaining' = ReplyTimeout
          /\ sentAt' = now /\ late' = 0
          /\ UNCHANGED deadline
       \/ /\ LogTxRate(tx_count)
          /\ client' = "backoff" /\ deadline' = now + Backoff
          /\ UNCHANGED <<sent, sentAt, late, remaining, requests>>
    /\ UNCHANGED <<time, slice, timeouts, taken, svars, inbox, replies, answers>>

BackoffEnds ==
    /\ client = "backoff" /\ now >= deadline
    /\ client' = "send"
    /\ UNCHANGED <<time, deadline, slice, remaining, tx_count, tx_log, sent, sentAt, late,
                   timeouts, taken, svars, net>>

\* Both loops: a report that is due first, else block until the next one at most.
Block(from, to) ==
    /\ client = from /\ remaining > 0
    /\ IF UntilLog(tx_log) <= 0
       THEN LogTxRate(tx_count) /\ UNCHANGED <<client, deadline, slice>>
       ELSE /\ slice' = Smaller(remaining, UntilLog(tx_log))
            /\ deadline' = now + slice'
            /\ client' = to
            /\ UNCHANGED <<tx_count, tx_log>>
    /\ UNCHANGED <<time, remaining, sent, sentAt, late, timeouts, taken, svars, net>>

Poll == Block("wait", "poll")
Sleep == Block("delay", "sleep")

\* Seeded fault: the time a poll has taken is not deducted.
PollKeepsRemaining ==
    /\ client = "poll" /\ (answers # <<>> \/ now >= deadline)
    /\ LogTxRate(tx_count)
    /\ client' = IF answers # <<>> THEN "recv" ELSE "wait"
    /\ UNCHANGED <<time, deadline, slice, remaining, sent, sentAt, late, timeouts, taken,
                   svars, net>>

PollReturns ==
    /\ client = "poll" /\ (answers # <<>> \/ now >= deadline)
    /\ remaining' = remaining - slice
    /\ LogTxRate(tx_count)
    /\ client' = IF answers # <<>> THEN "recv" ELSE "wait"
    /\ UNCHANGED <<time, deadline, slice, sent, sentAt, late, timeouts, taken, svars, net>>

\* The program closes the socket and waits for another connected event.
PollFails ==
    /\ client = "poll"
    /\ client' = "stopped"
    /\ UNCHANGED <<time, deadline, slice, remaining, tx_count, tx_log, sent, sentAt, late,
                   timeouts, taken, svars, net>>

\* recv fails, and the wait is over without a reply, or takes the first reply.
Recv ==
    /\ client = "recv"
    /\ \/ taken' = Head(answers) /\ answers' = Tail(answers) /\ UNCHANGED timeouts
       \/ timeouts' = timeouts + 1 /\ UNCHANGED <<taken, answers>>
    /\ client' = "delay" /\ remaining' = SendDelay
    /\ UNCHANGED <<time, deadline, slice, tx_count, tx_log, sent, sentAt, late, svars,
                   requests, inbox, replies>>

NoReply ==
    /\ client = "wait" /\ remaining <= 0
    /\ timeouts' = timeouts + 1
    /\ client' = "delay" /\ remaining' = SendDelay
    /\ UNCHANGED <<time, deadline, slice, tx_count, tx_log, sent, sentAt, late, taken,
                   svars, net>>

SleepEnds ==
    /\ client = "sleep" /\ now >= deadline
    /\ remaining' = remaining - slice
    /\ LogTxRate(tx_count)
    /\ client' = "delay"
    /\ UNCHANGED <<time, deadline, slice, sent, sentAt, late, timeouts, taken, svars, net>>

DelayOver ==
    /\ client = "delay" /\ remaining <= 0
    /\ client' = "send"
    /\ UNCHANGED <<time, deadline, slice, remaining, tx_count, tx_log, sent, sentAt, late,
                   timeouts, taken, svars, net>>

-----------------------------------------------------------------------------
(* start_udp in the server                                                 *)

ServerPoll ==
    /\ server = "loop"
    /\ server' = "poll"
    /\ sdeadline' = now + (IF UntilLog(rx_log) <= 0 THEN 0 ELSE UntilLog(rx_log))
    /\ UNCHANGED <<time, cvars, late, rx_count, rx_log, net>>

ServerPollFails ==
    /\ server = "poll"
    /\ server' = "loop"
    /\ UNCHANGED <<time, cvars, late, sdeadline, rx_count, rx_log, net>>

ServerPollReturns ==
    /\ server = "poll" /\ (inbox # <<>> \/ now >= sdeadline)
    /\ rx_count' = Kept(rx_count, rx_log) /\ rx_log' = NextLog(rx_log)
    /\ server' = IF inbox # <<>> THEN "recv" ELSE "loop"
    /\ UNCHANGED <<time, cvars, late, sdeadline, net>>

\* Seeded fault: what was sent is not deducted, and goes out again.
ServerRepliesTwice ==
    /\ server = "recv"
    /\ server' = "loop"
    /\ inbox' = Tail(inbox) /\ rx_count' = rx_count + 1
    /\ replies' = replies \o <<Head(inbox), Head(inbox)>>
    /\ UNCHANGED <<time, cvars, late, sdeadline, rx_log, requests, answers>>

\* recvfrom or sendto may fail.
ServerReplies ==
    /\ server = "recv"
    /\ server' = "loop"
    /\ inbox' = Tail(inbox)
    /\ \/ UNCHANGED <<rx_count, replies>>
       \/ /\ rx_count' = rx_count + 1
          /\ replies' \in {replies, Append(replies, Head(inbox))}
    /\ UNCHANGED <<time, cvars, late, sdeadline, rx_log, requests, answers>>

-----------------------------------------------------------------------------
(* Network and time.                                                       *)

CarryRequest ==
    /\ requests # <<>>
    /\ requests' = Tail(requests)
    /\ inbox' \in {inbox, Append(inbox, Head(requests))}
    /\ UNCHANGED <<time, cvars, late, svars, replies, answers>>

CarryReply ==
    /\ replies # <<>>
    /\ replies' = Tail(replies)
    /\ answers' \in {answers, Append(answers, Head(replies))}
    /\ UNCHANGED <<time, cvars, late, svars, requests, inbox>>

ClientReady ==
    \/ client \in {"send", "wait", "recv", "delay"}
    \/ client = "poll" /\ answers # <<>>
    \/ client \in {"poll", "sleep", "backoff"} /\ now >= deadline

ServerReady == server # "poll" \/ inbox # <<>> \/ now >= sdeadline

Tick ==
    /\ now < MaxTime
    /\ now' = now + 1
    /\ delayed' = IF ClientReady \/ ServerReady THEN delayed + 1 ELSE delayed
    /\ delayed' <= MaxDelay
    /\ late' = IF ClientReady THEN late + 1 ELSE late
    /\ UNCHANGED <<cvars, svars, net>>

Client ==
    \/ Send \/ BackoffEnds \/ Poll \/ PollReturns \/ PollFails \/ Recv \/ NoReply
    \/ Sleep \/ SleepEnds \/ DelayOver

Server == ServerPoll \/ ServerPollFails \/ ServerPollReturns \/ ServerReplies

Next == Client \/ Server \/ CarryRequest \/ CarryReply \/ Tick

Spec == Init /\ [][Next]_vars
-----------------------------------------------------------------------------
(* Properties.                                                             *)

Numbers == Seq(1 .. MaxSent)

TypeOK ==
    /\ now \in 0 .. MaxTime /\ delayed \in 0 .. MaxDelay /\ late \in 0 .. MaxDelay
    /\ client \in {"send", "backoff", "wait", "poll", "recv", "delay", "sleep", "stopped"}
    /\ server \in {"loop", "poll", "recv"}
    /\ slice \in 0 .. Second /\ remaining \in 0 .. (ReplyTimeout + SendDelay)
    /\ deadline \in Nat /\ sdeadline \in Nat
    /\ tx_count \in 0 .. sent /\ rx_count \in 0 .. sent
    /\ tx_log \in 0 .. now /\ rx_log \in 0 .. now
    /\ sent \in 0 .. MaxSent /\ sentAt \in 0 .. now
    /\ timeouts \in 0 .. sent /\ taken \in 0 .. sent
    /\ {requests, inbox, replies, answers} \subseteq Numbers

\* The state has its type: the time of the last report is never past and nothing waits
\* for less than nothing. The wait for a reply is cut into pieces by the reports, and is
\* still never longer than the configured timeout, beyond what the client was kept from
\* running.
WaitBounded ==
    /\ TypeOK
    /\ client \in {"wait", "poll", "recv"} => now - sentAt <= ReplyTimeout + late

\* A reply that was late is taken for the next one, and so is each reply after it:
\* the client falls behind by one with every timeout, never by more.
LagBounded == client = "delay" /\ taken # 0 => taken >= sent - timeouts
=============================================================================
