# Verification of the 6LoWPAN radio stick and its companions

This directory holds TLA+ models of the programs of this repository, the TLC
configurations that check them on small instances, and proofs that TLAPS checks
for every instance.

    tlc -workers 2 -config MCUartTx.cfg MCUartTx.tla       # model-check a run
    tlapm UartTxProofs.tla                                 # check the proofs of a component

## 1. The system

The repository builds Zephyr firmware and host scripts for experiments with
6LoWPAN. A board running `apps/wpan_serial_uart` (or `apps/wpan_serial` over
USB) is a *radio stick*: `py/wpan-bridge.py` on the host talks to it in SLIP
frames and routes IPv6 between a TUN device and the 802.15.4 radio. The other
boards run small TCP, UDP or BLE programs against each other or against the
Python peers.

| Part | State | Operations | Interacts through | Hard because |
|---|---|---|---|---|
| serial transmit path (`wpan_serial_uart`: `tx_thread`, `slip_buffer`, `try_write`, TX half of `interrupt_handler`) | `tx_queue`, `slip_buf`, `tx_data_ptr`, `tx_data_len`, `tx_sem`, TX interrupt | encode, set up, wait 1 s, fill FIFO, complete, time out | shared variables and a semaphore between a thread and an interrupt | interrupt at every access; timeout against late completion; one static buffer |
| serial receive path (`slip_process_byte`, RX half of `interrupt_handler`) | `slip_state`, `pkt_curr`, RX pool, `rx_queue` | decode a byte, allocate, drop, queue | queue to `rx_thread`, pool shared with the radio | lost bytes, no frame start, dry pool and oversize in mid-frame |
| command execution (`rx_thread`, `process_*`, `send_data`, `net_recv_data`, `main`) | channel, `mac_addr`, both pools, both queues | `?M`, `!S`, `!C`, report, forward | both queues, radio driver, boot order | threads run before the radio is up; replies dropped; failing radio |
| radio stick over USB (`wpan_serial`) | as above, no semaphore | as above, `try_write` polls | CDC ACM, DTR | a short write cuts a frame silently |
| host bridge (`wpan-bridge.py`) | `slip_buffer`, `seq`, `radio_mac` | decode, classify, forward, request MAC once | serial line, TUN | MAC request or answer lost; glued frames |
| echo client | `run_app`, `connected`, poll descriptors, socket | connect, send, compare, reconnect | network events from another thread | events between check and use; descriptors per reconnection |
| echo server | listening socket, handler slots, threads | accept, echo, stop | slots shared by threads | slot reuse while its thread ends; stop against both |
| simple client / server | as echo, one client | send, receive, toggle LED | network events, work item | work item after a disconnect |
| UDP client / server | socket, counters | send, timed wait, rate log | datagrams | late replies |
| BLE ping-pong (`HelloZephyr`) | `default_conn`, `connecting`, advertising and scanning flags, one channel | advertise, scan, connect, ping | host-stack callbacks that sleep | events in any order; both ends connect at once |
| `lf-build.py`, `multi-west-build.py` | directories of artefacts | clean, build, copy, transfer | file system | stale or colliding artefacts |

What makes each correct: the transmit path sends whole frames in order and
tells the truth about them; the receive path delivers what was sent or drops
it, and recovers; the device loses no packet buffer and answers each command
for itself; the clients run only while the network is up and release what they
open; the servers never give one slot to two connections; the BLE program
returns to advertising; the scripts copy what was just built.

`ws_console` of the echo server, `HelloWorld`, `NrfBlinky`, the Lingua Franca programs, the Renode scripts, board
files and shell wrappers are configuration or single-call programs and are not
modelled.

## 2. Modules

| Module | Models | State that corresponds to the code |
|---|---|---|
| `SerialLine` | what the transmit path promises its callers | abstract |
| `UartTx` | `tx_thread`, `try_write`, TX interrupt, kernel timeout, one step per shared access | variables carry the C names; `pc` is the place in `tx_thread` |
| `SlipRx` | `slip_process_byte`, RX interrupt, RX pool, host encoder, lossy line | `slip_state`, `pkt_curr`, `rx_queue`; `free`, `radio`, `held` count the pool |
| `SlipRadio` | the device frame by frame: boot, commands, radio, both pools, both queues | `boot` is the place in `main`; `job`, `step` the place in `rx_thread`; `out` the packet of `tx_thread` |
| `UsbBridge` | `wpan_serial` and `wpan-bridge.py`, joined by the ring buffer of the USB port | `boot`, `mac_addr`, the queues of the stick, `out` (rest of `slip_buf`); `slip_buffer`, `radio_mac`, `seq` of the bridge |
| `Connections` | what the echo server promises the peers that connect | abstract |
| `EchoServer` | `main`, `process_tcp6`, one `handle_data` per slot, network events | `accepted`, `in_use`, `run_app`, `quit_lock` carry the C names; `main`, `tcp6`, `thread` are places |
| `ConnGate` | network events, and the work item of the simple client, against the thread that waits in `k_sem_take(&run_app)` | `connected`, `run_app`, `work`; `waiter` is the thread in the semaphore's queue |
| `ClientLoop` | what the three clients share: gate, socket, connect, close, the table of descriptors | `main` is the place, `sock` the socket of the configuration; `open`, `eventfds` are what the table holds |
| `EchoClient` | the echo client between connect and stop: send, poll, compare | `polled` (`fds[1]`), `expecting`, `received` |
| `SimplePair` | the simple client's start and its sending; the simple server | `server` is the place in its `main`, `serving` its `client_sock` |
| `Clients` | composes the five above: one of the three clients, the simple one with its server | `program` is the one that runs |
| `BlePingPong` | HelloZephyr on several devices: `main`, the stack's receive thread and its work queue | the program's four flags and `le_chan`; `adv`, `scan`, `init`, `links` are what the stack really does |
| `UdpPing` | the UDP client's timed wait and the server's timed poll, in ticks | `remaining`, `slice`, `tx_log`, `rx_log` are the C variables that steer the waits |
| `UartTxProofs`, `SlipRxProofs`, `SlipRadioProofs`, `EchoServerProofs`, `ClientsProofs`, `BlePingPongProofs`, `UdpPingProofs`, `UsbBridgeProofs` | theorems about the module they are named for, with their proofs | the named parts of `IInv` say which variables go together |
| `MC...` | constants for TLC, one per module that is checked | |

`ConnGate` is extended by `ClientLoop`, which `EchoClient` and `SimplePair`
extend; `Clients` instantiates both over the same variables. `UartTx` is shown
to implement `SerialLine`, and `EchoServer` to implement `Connections`.

History variables, which no guard of the code reads: `wire`, `result`,
`lateGive` (`UartTx`); `delivered`, `damaged` (`SlipRx`); `sent`, `air`, `host`,
`accepted` (`SlipRadio`); `ends`, `message`, `taken`, `radioed`, `lost`, `cut`
(`UsbBridge`, where `frames` is read for the contents of the frame being
written); `reused` (`EchoServer`); `credit`, `fresh`, `alarms` (clients);
`fails`, `overlap` (`BlePingPong`); `timeouts`, `taken`, `sentAt`, `late`
(`UdpPing`).

Definitions marked *Seeded fault* are variants of the action below them with a
plausible bug. They are not part of any specification; putting one in the place
of its action must break the property named beside it in `PROJECT.json`.

### How the models abstract

* `UartTx`: a frame is its number in queue order and its encoded length; a byte
  is (frame, index). An access of `tx_thread` to shared state is one step. The
  handler is one step per `uart_fifo_fill`, because a thread cannot preempt it
  and it takes no lock. `SemGive` gives the token to a waiting thread directly
  or sets the count to its limit 1, as `k_sem_give` does.
* `SlipRx`: byte values are the four SLIP constants and one other. A stored byte
  remembers the frame and position it was sent from. A new packet has the
  tailroom of its last fragment (`net_buf_frag_last`), and the fragments before
  it stay empty. The receive interrupt is one step per byte: the threads act
  between bytes.
* `SlipRadio`: a frame arrives whole or as junk and leaves whole or not at all.
  Junk may turn into any command, since `net_buf_pull_u8` on a short packet
  returns bytes nobody sent. Reports carry the errno as a byte (`256 - e`).
  The sequence number of a command is the number the bridge would count; its
  wrap is modelled in `UsbBridge`.
* `UsbBridge`: towards the host a byte is (frame, place in its encoding, value), so
  that a property can say which frame the bridge is reading; only the value decides
  what the bridge does. `ByteValues` are those it tells apart, and `x` is any other.
  `Digits` are the bytes that sequence numbers are, as many as there are numbers
  before they wrap. What `send_data` appends in the place of the LQI
  is one value. Commands of the host travel whole, and a command or a reply may
  be dropped for want of a packet, which `SlipRadio` counts. `uart_fifo_fill`
  puts in the ring what fits. Of what it takes for a radio frame the bridge
  writes to the TUN device what it can parse: any or nothing. The assumption
  `UsbBridgeAssumption` leaves out radio frames that begin with `!M` or `!R`: the
  second byte would make the source addressing mode 1, which IEEE 802.15.4
  reserves. Frames that begin with `!` and go on otherwise are in.
* `EchoServer`: every access of a thread to a slot, a socket or a semaphore is a
  step. `cooperative`, chosen at the start among `Builds`, is
  `CONFIG_NET_TC_THREAD_COOPERATIVE`: with it a thread of the server gives up
  the processor only where it blocks. The bytes echoed are left out; a connection
  is its number.
* `ConnGate`, `ClientLoop`: a network event is one step of its handler. A reset
  of `run_app` wakes the waiter with an error. Each attempt opens an event
  descriptor if one is left and closes none; sockets come from the same table.
* `EchoClient`: bytes are counted; TCP keeps their order and both ends use the
  same text. The server echoes faithfully, in pieces of any size. The number of
  iterations is 0, the default, so that `main` never returns.
* `SimplePair`: messages of a connection are counted up to a window, and sending
  blocks while it is full. The network may be up before the client has added its
  callback; then no event comes and `main` looks for itself. The server passes
  its gate once and never returns to it, so its gate is one step. That a
  connection has ended reaches the server later, or never.
* `Clients`: the UDP client differs from the others in its exchange, which here
  is the step that ends it; `UdpPing` models what happens in it.
* `BlePingPong`: each call into the stack is a step, since callbacks sleep and
  wait for the controller. A report of a device that advertises is handled in
  its turn; a connection attempt succeeds, times out or is refused. Messages of
  a connection that goes down are lost.
* `UdpPing`: time is counted in ticks. It passes while both programs are blocked;
  while one could run it passes only as a delay, of which there are at most
  `MaxDelay`. The network keeps the order of datagrams and may lose any.

## 3. Runs

* `uart_tx` (964 states): three frames of 2, 3 and 2 bytes, a buffer of three,
  a FIFO that takes one or two bytes at a time. Two frames are needed for a
  completion to hit the wrong one, the third to see the consequences; a frame
  longer than the FIFO has a partial fill. All properties but `TypeOK` and
  `EveryFrameAnswered` are stated until the first completion given to nobody
  (`lateGive`), because of the next run. `ImplementsLine` checks the refinement.
* `uart_tx_stale` (violation expected): without that restriction `SentIsComplete`
  fails. The timeout expires, the handler completes the frame before the thread
  disables the interrupt, the token remains, and the next frame is answered
  "sent" before a byte of it is out.
* `slip_rx` (625 610 states): four frames out of three payloads (one ends in an
  escaped byte, one is the second byte of an escape as data, one does not fit),
  one lost byte anywhere, a pool of two packets of two bytes. With a loss in the
  first frame, frames 2 and 3 may suffer and frame 4 must not: `DamageBounded`
  needs four. Its window is tight: the property fails for a window of one.
* `slip_radio` (389 227 states): three commands, at most one of them junk, two
  radio frames, an RX pool of two and a TX pool of one, two channels. Both pools
  run dry, a set-channel command waits behind and before a transmission, and
  radio frames arrive in each phase of the boot. `RepliesHonest` says that a
  reply never carries an address that is not set or a status the radio did not
  give; `QueuesDrain` that both queues are worked off.
* `usb_bridge` (48 891 states): the request for the address, one radio frame,
  which has an escaped byte, begins with `!`, or begins with the `M` that a reply cut
  after its `!` wants, and two packets from the TUN device, hence up to four frames
  towards the host. The ring of seven bytes holds a reply
  (six bytes with its END) and one byte of the next frame, so that a frame is
  cut after any number of bytes, with the one after it whole, cut or missing.
  Sequence numbers wrap at 2. `CutsSpoilNeighbours` says that a cut frame harms
  at most the one after it, `BridgeBelieves` that what the bridge believes of the
  stick is so unless it read it in a message that begins with a cut frame: `!` of a
  cut reply and a radio frame `M...` after it make an address that nobody has. `MacLearned`
  says what it takes for the single request for the address to fail. A packet that the bridge skips because it does not
  know the address is one of the two.
* `echo_server` (136 369 states): two slots, four connections, two network events,
  both kinds of threads. Both slots are used, a client is turned away, a slot is
  used again, and `stop_tcp` runs against handlers that are ending. `ServesOwn`
  and `StopReleases` are stated until a thread is created on one that exists
  (`reused`), because of `echo_server_reuse`; `NoThreadReusedIfCooperative` says
  that cooperative threads never come to that, although a handler frees its slot
  before it ends. `ImplementsConnections` checks the refinement of `Connections`.
* `echo_server_reuse` (violation expected): with preemptive threads the accept
  loop finds a slot free whose thread has stored -1 and has not ended.
* `clients` (58 085 states): each of the three clients, three network events,
  three descriptors, exchanges of one or two bytes, a window of one message. The
  network goes down in every phase of an attempt and comes back, the server's
  answer arrives in pieces, connections end while the client polls, sends or
  blocks, the work item runs after the event that overtakes it, and the third
  attempt finds no descriptor for its event; the simple server has connections
  waiting while it is held by one.
* `clients_wake` (violation expected): the disconnect handler's `k_sem_reset`
  wakes the waiting echo client, which does not look at the result of
  `k_sem_take`.
* `ble` (553 398 states with symmetry): two devices, two connections, one start
  that fails. Two connections are needed for the callbacks of an old and a new
  one to mix; both devices may try to connect at once. The devices run the same
  program and no property names one, so they may be exchanged. The state where
  `default_conn` was still taken (`overlap`), after which nothing restarts
  advertising, is reached and excepted by `NotDeaf`. `ConnTracked` and
  `WaitBounded` (of `udp`) carry the types of their modules as a conjunct.
* `ble_quiet` (violation expected): `main` starts scanning a second after
  advertising, without looking whether it is connected by then.
* `udp` (1 709 076 states): a second of two ticks, a reply timeout of three, a
  pause of one, three datagrams, eight ticks, two delays. A wait is cut by the
  rate report, replies come late or never, and one is taken for the wrong
  datagram. `WaitBounded` bounds a wait by the timeout and the delays;
  `LagBounded` bounds how far replies fall behind by the number of timeouts.

Deadlock is not checked: every run ends when its bounded inputs are used up.
`findings` in `PROJECT.json` has the lines that each expected violation refutes.

### Fairness

* `UartTx`: weak fairness of `tx_thread` (its priority is the system's usual
  one, and interrupts end) and of the kernel's timeout. None for the UART: the
  peer may hold it off for ever, which is what the timeout is for.
* `SlipRx`: weak fairness of `rx_thread` and of `tx_thread`'s return of a packet,
  which `UartTx`'s `EveryFrameAnswered` justifies. None for the host.
* `SlipRadio`: weak fairness of `rx_thread` and of `tx_thread`; a write ends by
  completion or timeout. None for `main`, the host or the radio.
* `UsbBridge`: weak fairness of `main` and the threads of the stick, of its
  interrupt handler while there is something to read, and of the bridge's request
  and reading: the bridge has opened the port, and its loop reads again and
  again. None for the radio or the TUN device.
* `EchoServer`: weak fairness of each thread: the scheduler runs a thread that
  is ready. None for the peers, the network, or the arrival of bytes.
* `Clients`: weak fairness of `main` of the program that runs, of the work queue,
  and of the simple server once it has passed its gate. None for network events,
  for lost connections, or for the news of one.
* `BlePingPong` states weak fairness of each thread; only safety is checked so
  far. `UdpPing` states none.

## 4. Proofs

Each `...Proofs` module proves, for every value of the constants that the named
assumptions of its component allow (TLC evaluates those in the component's runs),
what the runs check on small instances. The theorem `Invariance` of each is
`Spec => []IInv`; the others follow from it, or from it and one step of `Next`.

| Module | Theorems | Property of a run |
|---|---|---|
| `UartTxProofs` | `TypeCorrect`, `SentIsCompleteHolds`, `InOrderHolds`, `ReadsInBoundsHolds` | `TypeOK`, `SentIsCompleteUntilLateGive`, `InOrderOnWire`, `ReadsInBounds` |
| | `NoReuseWhileSendingHolds` | the action property `NoReuseWhileSending` |
| | `EncodingHolds` | `TypeOK` with the contents of `slip_buf`, without restriction |
| | `Refinement` | `ImplementsLine`: `UartTx` implements `SerialLine` |
| `SlipRxProofs` | `TypeCorrect`, `PoolConservedHolds`, `OrderKeptHolds`, `TailsOnlyHolds`, `DamageBoundedHolds` | all five invariants of `slip_rx` |
| `SlipRadioProofs` | `TypeCorrect`, `PoolsConservedHolds`, `HostOrderHolds`, `RepliesHonestHolds`, `ChannelObeyedHolds` | all five invariants of `slip_radio` |
| `EchoServerProofs` | `TypeCorrect`, `ServesOwnHolds`, `NoThreadReusedHolds`, `StopReleasesHolds` | all four invariants of `echo_server` |
| | `Refinement` | `ImplementsConnections`: `EchoServer` implements `Connections` |
| `ClientsProofs` | `TypeCorrect`, `SocketsReleasedHolds`, `NoFalseAlarmHolds` | all three invariants of `clients` |
| `BlePingPongProofs` | `NotDeafHolds`, `ConnTrackedHolds`, `OneBallHolds` | all three invariants of `ble` |
| `UdpPingProofs` | `WaitBoundedHolds`, `LagBoundedHolds` | both invariants of `udp` |
| `UsbBridgeProofs` | `TypeCorrect`, `CutsSpoilNeighboursHolds`, `BridgeBelievesHolds` | all three invariants of `usb_bridge` |

Hardly any of these invariants is inductive. What each `IInv` adds, and why:

* `UartTx`: *who owns the transfer*. `Ownership` says for each label of
  `tx_thread` whether the handler may run (`Sending`: interrupt on, no token,
  pointer and length together at the end of the frame) or not. `QueueOrder` ties
  `tx_queue` and `cur` to the number of frames taken; `WireOrder` says that exactly
  the first `Sent` bytes of `cur` are on the line; `Encoded` that the buffer the
  handler reads holds `cur`. `TypeOK`, `Encoded` and `QueueOrder` hold without
  restriction, the rest until `lateGive`, where the code stops keeping them. The
  refinement maps the interrupt's counter to the abstract `out` and uses `IInv` in
  every step that is not a stutter.
* `SlipRx`: *what the decoder holds of the frame the host is in*. `HostInFrame`
  gives the host's place in its encoding. `Lossless` says, as long as nothing is
  lost, that the decoder is in the state of the escape the host is in and that
  `pkt_curr` holds a contiguous run that ends at the host's place; `Recovery` that
  after damage one undamaged frame brings the decoder in step, the second empties
  `pkt_curr` and the third is assembled from its first byte; `Whole` that such a
  frame is delivered. `StoredBehind` keeps stored bytes behind the host,
  for the order.
* `SlipRadio`: *what is between radio and host is one stream*. `Stream` is what
  the host has read, then what `tx_thread` holds, then `tx_queue`; order and
  honesty of replies are said of it as a whole, so that moving a packet along
  changes nothing. `Numbered` and `Queued` tie the commands in the queue and in
  `rx_thread` to what the host sent, `Transmitted` and `StatusOwn` the status that
  `send_data` reports to its own transmission; `Tuned` says which channel the
  commands applied so far have left.
* `EchoServer`: *each connection is in one place*. `OnePlace` keeps the listen
  queue, the connection being handed out and the slots apart; `SlotStates` says for
  each label of a handler what is in its slot; `OpenSomewhere`, `OpenHere` and
  `ClearIsClosed` tie descriptors to places; `OneAtATime` is the argument for
  cooperative threads: while `process_tcp6` looks for a slot and creates the thread,
  no handler is between giving its slot up and its end. The refinement maps a
  connection to waiting, served or closed, and needs the cardinality of the served
  ones to be at most that of the slots.
* `Clients`: `Sockets` says for each place in an attempt whether its socket is open,
  and that an event descriptor is opened only beside an open socket, so that those,
  which are never closed, do not fill the table; `Exchange` that what has been
  sent, what is on its way and what has been received add up.
* `BlePingPong`: *every reference will be cleared*. `Tracked` says that
  `default_conn` or `le_chan` of a connection that is down means that the callback that
  clears it is still to come; `Ordered` that the stack's events of one connection
  stay in order (a disconnection after its connection, and nothing after it);
  `Owned` and `Peers` that they are those of its two ends. `Awake` says why a
  device is not deaf for good: it scans, or a thread is on the way to start
  scanning, or it has a connection or a callback to come. `ScanTrue` ties
  `is_scanning` to the stack, `OneToken` counts balls in queues and in hand.
  `Remaining`, what the stack leaves in a queue, is a recursive function;
  `SetInduction` and the lemmas after it prove of it what `LinkDown` needs.
* `UdpPing`: `Waits` bounds what is left of a wait by the clock, `Counted` says
  that a datagram is in one place, `InOrder` keeps the numbers in each queue ascending, and `Lag` says that
  every wait that is over ended with a timeout or a reply.
* `UsbBridge`: *what the bridge, the ring and `try_write` hold is one stream*.
  `Unread` is `slip_buffer`, then `ring`, then `out`; moving a byte along changes
  nothing. `Stream` says of it that every byte follows the bytes of its frame before
  it (`Whole`), that frames come in order and each in one piece (`InLine`), and that
  exactly the frames that were not cut have their END in it (`Ending`). Cutting takes
  the last frame's bytes off the end (`StreamCut`), an END splits the stream in two
  of the same kind (`StreamSplit`); if the frame before was not cut, what is split
  off is one whole encoding. `DecodeEncoded` then says that `decode_slip` undoes
  `slip_buffer` for data of any length. `Packets` says that replies hold what
  the stick knew when it made them, `Booted` that there is an address before there
  is a command.

In each module TLC has checked `IInv` on the run of the component before it was
proved. The proofs go action by action, and within an action conjunct by conjunct.
The pragmas `SMTT(30)` and `ZenonT(30)` stand where a step takes some seconds.

Model-checked only:

* liveness: `EveryFrameAnswered`, `StarvationEnds`, `QueuesDrain`, `MacLearned`,
  `SlotReturns`, `LossNoticed`, `ConnectStartsAttempt`, `BacklogServed`. Temporal
  reasoning under fairness needs `ENABLED`, which is out of the prover's reach.
* what the proofs of `UsbBridge` assume of radio frames is `UsbBridgeAssumption`;
  nothing is proved of frames that IEEE 802.15.4 does not allow.

`slip_buffer` and `decode_slip` are loops over the bytes of a frame, written as
recursive functions (`Encoded`, `DecodeSlip`). The library's induction theorems take
an operator, which the provers cannot instantiate; the lemmas `SetInduction` and
`Recursion` of `UsbBridgeProofs` (and of `BlePingPongProofs`) state induction with a
set and recursion with a set of functions instead, and the rest follows from those.

The proof of `BridgeBelieves` found the property as first stated to be true only of
the radio frames that the run had: it excused a wrong address only where a reply
with an address had been cut, and a wrong report only where a report had. A reply of
either kind that is cut after `!` and a radio frame that begins with `M` or `R` make
one of the other, so that the bridge stores an address that is not the stick's or
logs as sent what was not. The property now says
what holds, and the run has such a frame.

## 5. Plan

Built so far: all components, and proofs of every invariant that a run checks.
Left, in this order:

1. Liveness of `BlePingPong` on the run of a single connection.
2. An abstract line from the stick to the bridge, which spoils the frame after one
   it loses, and `UsbBridge` shown to implement it: `Stream` is most of the argument.

## 6. Not modelled

The radio driver, Zephyr's network and Bluetooth stacks and the UART hardware
appear only by how the code uses them. 6LoWPAN compression, logging, and the
statistics behind `ANALYZE_UART_BOTTLENECK` (compiled out) are left out.

The layout of the 802.15.4 frames that the bridge builds and parses is left out:
it is a conversion without state. Read beside the code it has one oddity that the
models do not show: `wpan-bridge.py:188-196` derives an address of six bytes,
where the comment on the field it goes into says eight (line 223).

The UDP server is modelled in part: its loop is in `UdpPing`; its gate is passed
once and never returned to, and what follows `start_udp` cannot be reached.
`init_ws` of the echo server's console is called by no program here, and the
rest of that file is static data. The build scripts (`lf-build.py`,
`multi-west-build.py`) and the scripts that flash boards and run experiments are
sequences of copies and external commands without concurrency or state of their
own; what can go wrong in them a unit test reaches. The measurement scripts under
`py/` are the peers of the models, present as the environment.

`PROJECT.json` lists every part with its status, and under `hazards` what is hard
to test in it. Two hazards have no property: the length that
`net_buf_pull_u8` wraps on a short packet (`SlipRadio` covers what follows, any
command, and not the arithmetic), and the client that waits after a failed
connect until the next network event, of which the repository promises nothing
else.
