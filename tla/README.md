# Formal models of ORBTrace

ORBTrace is an FPGA trace and debug probe. It captures the trace of an ARM core
from a parallel trace port or SWO, cuts it into TPIU frames, and sends it to the
host: over USB with the Amaranth gateware under `src/orbtrace`, or, in the Artix-7
port under `src/syn/artix7`, through a DDR3 ring and UDP. The USB gateware is also a
CMSIS-DAP debug adapter and updates its own firmware. Host tools read what the
Artix-7 port captured and decode it. This directory holds TLA+ models of all of
this, TLC configurations that check them on small instances, and proofs checked by
TLAPS.

Contents: 1 inventory, 2 modules and their correspondence to the code, 3 runs
and bounds, 4 fairness, 5 proofs, 6 findings, 7 what is not modelled, 8 plan.

To check a run: `tlc -config MCDdrRing.cfg MCDdrRing` (`PROJECT.json` lists them).
To check the proofs of a module: `tlapm DdrRingProofs.tla`.

## 1 Inventory

The trace data goes one of two ways, and a second path carries debug commands.

    target pins -> traceIF.v / SWO decoders -> TPIUSync -> TPIUDemux -> OrbFlow -> USB       (orbtrace_mini, ecpix5)
    target pins -> capture -> la_ddr_writer -> DDR3 ring -> la_ddr_ring_streamer -> packetiser -> self-TX -> UDP
                                                             ^                                            |
                                                             +---- NACK ---- nack_rx.py <-----------------+   (Artix-7)
    USB -> CMSIS-DAP -> go/done over two clock domains -> dbgIF.v -> swdIF.v or jtagIF.v -> target

| Component | State it keeps | Operations | Interacts by | What is hard |
|---|---|---|---|---|
| `traceIF.v` | the last elements, word and frame position, the edge of the last sync | one trace clock: detect sync, cut a word, emit a frame | `FrAvail` toggles, no backpressure | syncs on either edge and between any two words; lost edges |
| SWO decoders (`swo.py`) | pulse lengths, bit timing, measured thresholds, shift registers | edge, bit, byte | valid/ready streams | a bit offered for one clock, a pause or a cut frame in the middle of a byte |
| `TPIUSync` | 129-bit shift register with a marker, `synced` | byte in, frame out, `reset_sync` | stream; reset from the USB control request | stale bytes across a reset, half syncs inside frames, lost bytes |
| `TPIUDemux` | serializer index, channel and delayed channel, packetiser | one clock | stream with backpressure, bypass of the raw SWO formats | delayed IDs under stalls, a timeout that withdraws an offered byte |
| OrbFlow (`cobs.py`, `orbflow.py`) | checksum, group splitter, two FIFOs, combiner, delimiter, held byte, flush and interval counters | one clock | seven blocks of valid/ready streams | FIFOs that wait for each other, two ends of a group in one clock, the byte held back |
| `dbgIF.v`, `swdIF.v`, `jtagIF.v` | command, mode, device and instruction the chain holds, timers; bit counters and shift registers of a transfer | a clock of the debug domain; an edge of the target clock | go/done up and down, one SWD line for two directions | what is remembered across resets and mode changes; turnarounds, WAIT and FAULT; chains of devices |
| CMSIS-DAP (`cmsis_dap.py`) | command loop, packet buffers, posted read, retries | one state step; a transfer call | USB packets in and out, go/done across a crossing of two stages | packets cut short, posted reads, a done that comes two clocks late |
| DFU, flash writer, flash UID | FIFO, page and sector position, write latch | download block, erase, program, status, read UID | control transfers, one SPI port for two users | data during an erase, damaged packets, boundaries that end apart |
| Control requests (`usb_handler.py`, `cdc_acm.py`, `usb_mem_bridge.py`, `microsoft_wcid`, `usb_serialnumber.py`) | settings, request in progress, position in a descriptor, bus transfer | setup, data, status; packet out, acknowledge | one control endpoint, several handlers; AXI-Lite behind a crossing | requests given up halfway, lost acknowledgements, a status answered before the bus is done |
| SoC assembly (`soc.py`, builder, allocator) | pads, clock domains, interface and endpoint numbers | one `add_*` step per flag | flags of the command line | combinations of flags nobody builds |
| `la_ddr_writer`, `la_ddr_ring_streamer`, `ddr3_*_ctrl`, `ddr3_arbit` | two banks, ring pointers, committed and drained word counts, pending NACK, two burst controllers, arbiter | one clock of `ui_clk` | one-cycle start, done, request and acknowledge pulses; one memory port | pulses that are missed, a writer that laps the reader, a retransmit that races the writer, an egress FIFO without backpressure |
| Packetiser and self-TX FSM (`trace_ddr_stream_top.v`, `fpga_core_net.v`) | packet position; state, byte count, three time-outs | one clock | one UDP transmit port shared with the echo replies | ARP that never answers, a trace that stops in the middle of a frame, two users of the port |
| SWO capture buffer (`swo_stream_top.v`) | bytes, table of times | byte, arm, read-out | pages over UDP | a counter that wraps, notes of an earlier capture |
| `nack_rx.py`, `nack_protocol.py` | next number, buffered packets, holes with age and retries, highest number | `on_packet`, `deliver`, `due_nacks`, main loop | UDP both ways | loss, repetition, reordering, wrap of the counter, retries against late answers |
| Capture and read-out tools (`stream_*.py/.c`, `trace_dump.py`, `fpga_health.py`) | last number, gap counts, byte ring between two threads; page at hand, retries | receive, write out; request and wait | UDP, threads | lost and swapped packets, a writer that falls behind, late replies, an FPGA re-armed between two pages |
| `trace_doctor.py`, `trace_ctrl.py` | state file, FPGA registers, target registers | the commands | a file without a lock, openocd, UDP | two commands at once, a tool that fails halfway, a power cycle |
| Offline decoders (`etm35lib.py`, `tpiu_official.py`, `trace_width.py`, `dsl_parse.py`, `opencsd_etm4_run.py`, `fpga_timebase.py`) | position, synchronisation, alignment | decode, deframe, align, unwrap | bytes of a capture | captures that start anywhere, slipped bytes, data that looks like a sync |
| LEDs (`led_ctrl.py`, `serial_led.py`) | register, LED and bit at hand, pulse | one clock | one wire to a chain of LEDs | the LEDs change while a frame is sent; pulse lengths |
| Clocking, capture front ends, board self-tests, other scripts, harness | - | - | - | see section 7 |

`PROJECT.json` lists every component with its source files and what is modelled
of it, and the hazards: the places where this code can go wrong and a test would
hardly get to, each with the properties that watch it.

What makes each part correct:

- Receiver: the stream comes out in order, each packet once, under its own
  payload; a packet is given up only after all retries; it never gets stuck.
- Ring: committed words are in the memory; drained words are the next words of the
  stream or the overrun is reported; a retransmit sends the words that were asked
  for; no handshake is lost; the egress FIFO never overflows; a NACK ends.
- Self-TX: a frame gets exactly the bytes its header promised, from its own side;
  datagrams start with a packet's number; nobody keeps the port.
- Trace path: what comes out of each stage is what the port sent, each byte once,
  in order, under its channel; packets are bounded and end; nothing stays inside.
- Debug interface: an accepted transfer reaches the target once, at the device it
  names; the report is what the target answered; nobody drives against the target.
- CMSIS-DAP: every packet is answered whole; each request runs once with its own
  word, and its own word comes back.
- USB requests: the flash holds the image, settings are those of answered
  requests, memory reads back what was written, every request ends. Every LED of the
  chain shows its own colours.
- Host tools: decoders undo what the target and the FPGA did, tools that report no
  gap had none, the state file and a green diagnosis tell the truth.

## 2 Modules

A module models one part; where a run holds several parts, its MC module extends all
of them and a variable `part` chooses which one runs while the others rest, so that
one TLC run asks one question of several machines that do not share state. The `map`
of `PROJECT.json` gives for each definition the lines it stands for.

Conventions: actions and operators keep the names of the source. Variables that are
called history in a module's head (`pos`, `track`, `expect`, `watch`, `chainIr`, ...)
are no registers of the code; they compute, from what went in alone, what has to come
out. What is not in the sources (memory controller, targets, hosts, networks) is
marked external in the map. Operators called "Mutant of ..." in a comment are
deliberate mistakes that no specification uses: with the mutant in place of the
definition it stands before, TLC finds the property of `PROJECT.json`'s pair violated.

### The receiver: SeqArith, NackProtocol, ReliableReceiver, GapStream

`ReliableReceiver` models class `ReliableReceiver` and `main()` of `nack_rx.py`. `pc`
is the place in the loop.

| TLA+ | Code |
|---|---|
| `RecvPacket(i)` | `recvfrom` returns a datagram, `on_packet`, whole: baseline, `highest_seen`, late drop, filled hole, new holes |
| `RecvNothing` | `recvfrom` times out, or the datagram is too short |
| `DeliverPacket`, `DeliverGap`, `DeliverStop` | one turn of the loop of `deliver()` each |
| `DueNacks` | `due_nacks()`, whole; `NackRuns` are the requests sent |
| `Tick` | the clock advances between any two steps |
| `Exit` | the run time is over; what is buffered is discarded, as in the code |
| `buf`, `missing`, `expected`, `highest_seen` | the fields of the same name |

Packets are identified by their index in the stream and the wire carries that
index modulo `2 * SeqHalf`, so that the model knows what the receiver cannot:
which lap of the counter a packet belongs to. The network is an input: any
packet within `Horizon` of the next one may arrive, at any time, any number of
times, or never. A hole has its age instead of a time stamp. `debounce_pkts`
is in the condition of `due_nacks()` and changes nothing: whenever a retry is
due, the time half of the debounce holds as well.

`GapStream` is the abstract specification: no numbers that wrap, no dictionaries, no
retries; packets come out in order, each once, and one may be skipped only if it has
not arrived and a later one has. `ReliableReceiver` instantiates it with the refinement
mapping: the wire number `expected` becomes the position `pos`, the buffer the set of
packets in it. `NackProtocol` has `coalesce_gaps()` as a fold.

### The history ring: DdrRing

One step is one rising edge of `ui_clk`: each register takes its next value from
the old values and the inputs `in` of that cycle. `wr`, `wc`, `rc`, `ar`, `st`
are the registers of the five modules, and each has its step operator; `Clock`
is their conjunction.

| TLA+ | Code |
|---|---|
| `FillStep`, `WriterStep` | the two `always` blocks of `la_ddr_writer.v` |
| `WrCtrlStep`, `RdCtrlStep`, `ArbitStep` | `ddr3_wr_ctrl.v`, `ddr3_rd_ctrl.v`, `ddr3_arbit.v` |
| `StreamerStep` (`StreamerNext`, `EgressNext`) | `la_ddr_ring_streamer.v`: drain `R_*`, retransmit `X_*`, NACK latch, overrun |
| `FifoStep` | the egress FIFO, only as far as its depth |
| `AppCmd`, `AppEn` | the command multiplexer of `ddr3_ctrl.v` |
| `MigStep`, `RdValid`, `Inputs` | the MIG, external: takes commands and data when it likes, executes in order |

A 128-bit word is abstracted to its place in the captured stream, so that a word
read from memory tells whether it is the one that was asked for. Addresses count
words. The ring is a power of two long, as the wrap of the code needs.
`PKT_WORDS` is `LENGTH`, as in the tops that set both.

### The UDP side: SelfTx, UdpReadout, StreamCapture

In `SelfTx` `pk` is the packetiser, `st`, `bcnt` and the counters the state machine of
`fpga_core_net.v`, `echo` the header and payload of a reply that waits. Each state of
the FSM has its operator (`IdleStep`, `HdrStep`, `SendStep`, `BackoffStep`).
`udp_complete` is external: it takes a header, then that frame's bytes to `tlast`,
then the next header. `tx_eth_hdr_ready` and the header ready of `udp_complete` are
one input, and the host has one request at a time in flight.

`UdpReadout` has the register and page reads of `trace_dump.py`, `trace_doctor.py
fpga-id` and the two checks of `fpga_health.py`: `sendto`, `recvfrom`, `timeout`,
`close`, against an FPGA that is re-armed or power cycled (`Event`) and replies that
are lost or late. `StreamCapture` has the four receive tools with their gap counting
over wrapping numbers (`recv`, `Gap`) and the two threads of `stream_grab.c` around
their ring of bytes (`ring_push`, `ring_read_contig`, `writer_write`, `ring_advance`,
`writer_idle`, `join`).

### The trace path: TraceIF, Swo, TpiuSync, TpiuDemux, OrbFlow

- `TraceIF`: one step per trace clock of `traceIF.v`. Elements are abstracted to
  "all ones", "ones but for the top bit" and others, as only these make syncs.
  The target starts on either edge; `Fault` misses or repeats an edge.
- `Swo`: `Sample` is the pulse capture, `Nrz` the NRZ and UART decoders, `Manchester`
  with `Sync`, `Idle` and `Capture` the Manchester decoder and `BitsToBytes`. The line
  is drawn by its time, so bits and samples need not fit.
- `TpiuSync`: `Arrive`, `Read`, `Lose`, `Reset`, `ResetArrive` are the clocks in
  which something happens. Bytes are abstracted to `ff`, `7f` and others.
- `TpiuDemux`: `SerializerStep`, `TrackStep`, `PacketizerStep` are the registers
  of the three classes; `Unmangled`, `TrackValid`, `StripValid`, `PkIn`, `PkOut`
  the wires between them. Bytes keep their bit 0, which is what `Unmangle` moves.
- `OrbFlow`: one operator for each block from `ChecksumAppender` to
  `SuperFramer`. `ByteMod` byte values scale the 256 of the code together with
  the maximal group and the FIFO depths. Its history `dec` is a COBS decoder.

### Debugging: DbgIF, SwdIF, JtagIF, GoDone, CmsisDap, DapTransfer

- `GoDone` is the abstract specification of the handshake both sides rely on: a
  command is run once for every rise of go. `DbgIF` implements it, and `CmsisDap`
  uses its lower half as environment.
- `DbgIF`: `Clock` is one clock of `dbgIF.v` with an operator per state (`Dispatch`
  for the command, `HandleTransact`, `EstablishMode`, ...). The engines below start and
  finish when they like (`InferiorStart`, `InferiorFinish`). History: the instruction
  each JTAG device holds and how often the transfer reached its device.
- `SwdIF`: an edge of the target clock a step; the target is an ADIv5 port that turns
  the line round when its setting says, answers anything, and drives by itself.
- `JtagIF`: the same for `jtagIF.v`, with the TAP controllers of a chain of devices.
- `CmsisDap`: the command loop of `cmsis_dap.py` state by state, from the bytes of a
  packet to those of the response, in both protocol versions.
- `DapTransfer`: what `DAP_Transfer` and `DAP_TransferBlock` do: posted reads, value
  matches, WAIT retries, each access one step.

### USB requests: DfuFlash, UsbControl, DescriptorSet, MemBridge, UsbAssembly, SerialLed

- `DfuFlash`: the DFU handler, the FIFO, the flash writer with its page and erase
  logic, the UID reader, and a flash as in any data sheet.
- `UsbControl`: the trace, power and CDC-ACM handlers and the baud-rate divider. History:
  `want` has the settings of the requests that were answered; `unsure` has those that the
  code may have left otherwise: what a request given up for another was about, a rate of
  which bytes came before its packet was sent again (`damaged`), and the length of a bit
  when a rate was set while the divider worked. An answered request for a setting takes it
  out again.
- `DescriptorSet`: the read-out of the Windows descriptors and the serial number.
- `MemBridge`: both state machines of `usb_mem_bridge.py` and the bus behind them. The
  host begins and gives up requests whenever it likes: a machine looks at a request in
  IDLE only, stands still under a request of another kind, and goes on where it was at the
  next of its own, with the address it has. Packets are damaged, their acknowledgement or
  the word read is lost, or the bus takes the address in the middle of the packet
  (`CutPacket`). History: `begun` says whether the last request met its machine idle,
  `value` and `known` what the bridge took and for which cells that must be so.
- `UsbAssembly`: one step per `add_*` of `soc.py` for any choice of flags.
- `SerialLed`: the LED register, the generator that reads the LEDs bit by bit while they
  change, and the pulses; `chain` is the LEDs on the wire, which tell ones from zeros by
  the length of a pulse.

### Host tools: EtmDecode, TpiuDeframe, TraceWidth, TimeBase, Bench

The first three are pure algorithms: the target's side builds a stream step by step, and
the functions of the code, as operators with their names, are applied to what was
captured. `EtmDecode` is `etm35lib.py`'s decoder with its realignment, `TpiuDeframe`
the three deframers and the walk, `TraceWidth` the search for the alignment of a capture
(`trace_width.py`, `dsl_parse.py`, `opencsd_etm4_run.py`). `TimeBase` is the table of
clock counts in `swo_stream_top.v` with the host's unwrapping of it. `Bench` is the
command line of `trace_doctor.py`, each command the list of its steps, interleaved with
other commands and with what happens on the bench. The state file is emptied and then
written, without a lock; history: `past.doubt` has the entries that failed, overlapping or
lost commands, or a power cycle, may have made wrong.

### Proof modules

`ModFacts` (division with remainder, induction over numbers, recursive functions),
`ReliableReceiverProofs` (with the arithmetic of wrapping numbers), `DdrRingProofs`,
`NetProofs` (self-TX, capture tools), `TraceProofs` (synchroniser, pins, demultiplexer), `DebugProofs`
(debug interface, SWD and JTAG), `DapProofs` (transfer calls), `UsbProofs` (memory bridge, settings, LEDs): section 5.

## 3 Runs

States are distinct states; every run ends well within five minutes with two workers.

| Run | States | Question | Properties |
|---|---|---|---|
| `receiver` | 7 482 | Does the receiver hand out the stream, across a wrap, whatever the network does? | `WindowRight`, `GapAfterBudget`, `HeldDelivered`, `GapStreamSpec` |
| `ring` | 35 127 | Are the words in the ring, drained and resent right, with every stall, NACKs in any cycle and the writer lapping the reader? | `RingRight`, `EgressRight`, `PortRight`, `BurstsEnd` |
| `ring_overwrite` | violation | Does the window check exclude words being overwritten? (finding 1) | `RetransmitRight` |
| `trace` | 576 734 | Does each stage of the trace path hand on what it got, and everything? | `FlowRight`, `DemuxRight`, `SyncRight`, `PinsFramesRight`, `BytesRight`, `TraceLeaves` |
| `net` | 204 638 | Are UDP frames whole, is the port given back, do reads and captures tell the truth? | `FramesRight`, `ReadoutRight`, `CaptureRight`, `NetEnds` |
| `selftx_echo` | violation | Does the FSM wait for a reply in flight? (finding 2) | `NoEchoInFlight` |
| `wires` | 622 884 | Does a transfer run once at the device it names, and do host and target agree on the wire? | `TransferOnce`, `ClockRight`, `SwdRight`, `WireKept`, `JtagRight`, `GoDoneSpec`, `CommandEnds` |
| `dbg_reset` | violation | Does the reset command pull the reset? (finding 3) | `ResetPulls` |
| `jtag_id` | violation | Is an ID read that of the device asked for? (finding 4) | `JtagIdRight` |
| `dap` | 656 165 | Is every packet answered whole and each request run once with its own word? | `PacketRight`, `CallRight`, `HandshakeKept`, `PacketsEnd` |
| `usb` | 404 086 | Do flash, settings, descriptors, memory, the built device and the LEDs hold what was asked for? | `FlashRight`, `SettingsRight`, `DescriptorRight`, `MemoryRight`, `AssemblyRight`, `LedsRight`, `UsbEnds` |
| `offline` | 443 439 | Do the decoders undo the target and the capture, and do the bench's records tell the truth? | `FlowRight`, `CapturesRight`, `BenchRight`, `RunsRight` |

What each property says is in the comment in front of its definition. Those with
several parts are conjunctions of named ones (`RingRight` is `CommittedInRing` and
`DrainedRight`, for instance).

### Bounds, and why they are enough

- `receiver`: `SeqHalf = 8`, `Horizon = 4`, `MaxIndex = 18`. The counter wraps
  at 16, and the first packet may be any, so the window lies before, on and
  after the wrap; `2 * Horizon <= SeqHalf` is the assumption the code makes too
  (two packets in flight are less than 2^31 apart). Two retries and a retry time
  of two ticks tell apart "not due", "due" and "spent". The proofs remove these
  bounds.
- `ring`: bursts of 2 words, 4 bursts, 10 words: the writer laps the ring, so an
  overrun and the words after it occur. `FIFO_WORDS = 5` is a burst in flight, one in
  the register in front, and a word; `MigDepth = 2` lets a read and a write be queued
  together; a NACK for packets 1 and 2 comes at any cycle, so before, while and
  after they leave the window. `MaxWords` bounds the capture, not the rest: after it
  the ring drains. `ring_overwrite` needs only a ring of two bursts. The proofs
  remove the bounds.
- `trace`, OrbFlow: 4 byte values, groups of at most 2, FIFO depth 4, 4 bytes taken:
  maximal groups, a delimiter directly after one, empty and full FIFOs and a
  flush at each place of a packet occur. Demultiplexer: frames of 3 bytes and an
  auxiliary byte are the shortest that have an ID in front of data and one at the
  end; 3 frames, 3 channels, packets of at most 3 bytes, a timeout of 3; with the
  bypass, fewer frames. Synchroniser: frames of 4 bytes, 2 frames, 4 syncs, 2 faults
  at any place. Pins: 4 elements per word as with 4 pins, 2 words per frame; faults
  are at least a sync apart, their number is not bounded; the words are as close to
  a sync as data may be. SWO: bits of 22, 52 and 66 against samples of 5, all
  bytes of 3 bits, frames of 2 to 4 bits, rests long enough for every flush and reset.
- `net`: time-outs 2, header 1 byte, payload 2: the behaviours depend on which
  time-out ends first, not on the lengths, and they may end at every place in a
  frame; the one bit each counter has above its limit is kept, so they wrap as in
  the code. Reads: a capture of 5 bytes in pages of 2, so the last is short, one event
  on the bench, replies late or lost. Captures: numbers modulo 8 beginning at 6, 3
  packets of 3 bytes in a ring of 8, so packets straddle its end.
- `wires`: two devices, words of 2 bits on SWD (all values) and 3 on JTAG behind
  instructions of 2 and 3 bits, turnarounds of 1 and 2 clocks, every answer whose
  cooling the code covers (see finding 5). Timers of 0 and 1. The proofs remove the
  bounds for `dbgIF.v`, `swdIF.v` and `jtagIF.v`.
- `dap`: one packet of every command and of every way to cut it short, but for the reading
  of a JTAG ID and SWD sequences cut short (finding 7); bytes have 2
  bits and counts wrap at 4; runs of up to three requests over five kinds of registers
  with up to two retries.
- `usb`: a flash of 16 cells, erase blocks of 4, pages of 2 and blocks of 2, so all
  boundaries come and end apart; two downloads over one another; one damaged packet,
  one request given up; on the memory bridge two requests, one given up at any point, and one
  packet damaged, cut or not heard of; descriptors shorter and longer than a packet and lengths
  around both. Rates of two digits, a dividend of 10 and results up to 3, so the divider
  ends by itself and at its limit; of a damaged rate packet nothing or one byte arrives.
  Two LEDs of three colours of two bits, one of them forced. `AssemblyRight` looks at all choices of flags without a bound.
- `offline`: streams of up to 4 packets of each kind and one slip; two frames with an
  ID change at either end; captures of one, two and four lanes beginning at each
  alignment; a table of 3 notes with a counter that wraps at 8; on the
  bench three commands, or two and an event, two of them at once: one that fails, is
  disturbed or is overlapped, and one that puts its entry right again (the two invocations
  are alike, so TLC looks at one of each pair), and of the widths 2, set by command, and
  the 4 both ends come up with; all subsets of `0 .. 8` with spans up to 4.

Deadlock is checked in `receiver`, `ring`, `wires` and the violations. The other runs
say `CHECK_DEADLOCK FALSE`, because one of their parts ends: a port that has sent its
frames, a host that has made its requests, an algorithm that was called.

## 4 Fairness

Safety properties use none. For the liveness properties:

- Hardware: the clock runs (`WF_vars(Next)`), and who is behind a ready signal gives it
  in the end: the USB host reads (OrbFlow, demultiplexer, CMSIS-DAP), the MIG takes
  and executes commands and the network empties the egress FIFO (`ring`). That
  NACKs stop, credits return or more trace comes is not assumed.
- `net` uses strong fairness for payload bytes and for the header of a reply:
  their readiness may come and go, but it comes again while it is wanted. Nothing
  is assumed of the header of the stream (ARP may never be answered) or of the
  trace (it may stop at any byte); those are what the time-outs are for. The threads
  of `stream_grab.c` are scheduled.
- `wires`: the target clock and the microsecond tick come again and again while the
  interface is clocked (strong, as each is one of the inputs of a clock), the engines
  start and end, and the layer above takes go back when done has fallen.
- `dap`: the debug interface answers, the host takes what is offered.
- `usb`: the flash finishes erasing and programming, the host goes on with a request it
  has begun or gives it up, the bus and the crossing move.
- `receiver`: `recvfrom` returns or times out (it has a time-out), the loop goes
  on, the clock advances. Nothing is assumed of the network. `HeldDelivered`
  therefore says that every packet received is delivered, or the program ends.

## 5 Proofs

The theorems hold for every value of the constants under the assumptions that the
modules name. They need no fairness, and none rests on an unproved one. An invariant
that a run checks says what a reader wants to know and is seldom inductive; the
inductive one behind it says how the machine keeps it so. Each was checked with TLC
before it was proved. The induction has one lemma per action or register, and
`ModFacts` has what the provers do not know of remainders by an unknown number, and
induction: the library's theorems take an operator, which these provers cannot
instantiate, so `SetInduction` states it of a set and is proved from the pigeonhole
principle, and `RecursionIs` that a recursive function is what its equation says.

| Module | Theorem | Says |
|---|---|---|
| `ReliableReceiverProofs` | `ReceiverType` | `Spec => []TypeOK` |
| | `ReceiverHeldInWindow` | a late packet is never held as one of the next lap |
| | `ReceiverWindowCovered` | no number is forgotten: buffered or an open hole, and the highest is buffered |
| | `ReceiverDeliveredRight` | what comes out is right and at its place |
| | `ReceiverWindowRight` | the three together: `WindowRight` |
| | `ReceiverGapAfterBudget` | a packet is given up only with its retries spent (action property) |
| | `ReceiverImplementsGapStream` | the refinement `Spec => GapStreamSpec` |
| `DdrRingProofs` | `PortIsShared` | one user of the memory port, no start pulse missed: `PortRight` |
| | `RingHoldsTheStream` | committed words in their place, drained words in order or the overrun up: `RingRight` |
| | `NothingLeavesWrong` | a packet resent from inside the window is the right one, no word is lost at the egress FIFO: `EgressRight` |
| `NetProofs` | `SelfTxType`, `SelfTxFramesWhole`, `SelfTxDatagramIsPacket`, `SelfTxFramesRight` | a frame is as long as promised and from one side only; without padding a datagram is a packet: `FramesRight` |
| | `CaptureIsRight` | a capture has every payload taken once and in order, and is loss-free when it says so: `CaptureRight` |
| `TraceProofs` | `SyncIsRight` | `TPIUSync` locks on a whole full sync, hands out the port's frames and nothing else, keeps nothing across a reset: `SyncRight` |
| | `PinsAreRight` | `traceIF` locks on a full sync on either edge and makes the port's frames available, at once and nothing else: `PinsFramesRight` |
| | `DemuxIsRight` | every byte of a frame leaves `TPIUDemux` under its channel, once, in order, in packets of one channel and no longer than the limit: `DemuxRight` |
| | `FlowIsRight` | a host that undoes COBS gets the packets back, with their checksums, in order and without loss, and a superframe ends with a packet: `FlowRight` of `OrbFlow` |
| `DebugProofs` | `TransferRunsOnce` | an accepted transfer ran once at the device it named: `TransferOnce` |
| | `ClockIsRight` | the clock asked for is not exceeded and the divisor fits: `ClockRight` |
| | `DebugKeepsHandshake` | the refinement `Spec => GoDoneSpec` |
| | `TransferToldRight` | the report of an SWD transfer is what the target answered, sent and took: `SwdRight` |
| | `OneDrivesTheWire` | nobody drives against the other, and an idle interface finds a waiting target: `WireKept` |
| | `JtagIsRight` | a JTAG command did what it says to every device of a chain of any length: `JtagRight` |
| `DapProofs` | `CallIsRight` | a call makes each request once, in order, and sends the values its requests read, within its attempts: `CallRight` |
| `UsbProofs` | `MemoryIsRight` | what the bridge answered was done, also around requests given up at any time: `MemoryRight` |
| | `SettingsAreRight` | each setting is that of the requests that were answered, from the first that is answered for it after one that went wrong, and the bit length is that of the rate: `SettingsRight` |
| | `LedsAreRight` | every LED gets its own colours, every frame has the bits of all: `LedsRight` |

The assumptions and why the code justifies them:

- Receiver: `SeqHalf` positive, `2 * Horizon <= SeqHalf` (two packets in flight are less
  than half the number space apart), at least one retry.
- `DdrRing` (`RingAssumption`): bursts of at least one word, at least two of them, a
  ring that is a power of two, room for more than two bursts in the FIFO: the
  parameters of the tops.
- `DbgIF` (`DbgAssumption`): the slowest clock is not 0. `TransferRunsOnce` also assumes
  `OnlyJtagId`: the layer above asks for a JTAG ID in JTAG mode only. `cmsis_dap.py:514`
  passes `DAP_JTAG_IDCODE` on in any mode, so this is an assumption about the host; in
  another mode the interface would take the instruction shifted before for one the
  chain still has.
- `SwdIF`: `SwdConstants` (words of two bits or more) and `CoolingCovers`, the exact
  condition on turnaround and answer under which `swdIF.v` leaves the target its time
  (finding 5).
- `TpiuSync` (`SyncAssumption`): frames of an even number of bytes, more than three.
- `TraceIF`: `SizeAssumption` (words of an even number of elements, four or more, frames
  of two words or more: every port width the core is built for) and `WordAssumption`, the
  byte a word begins with is not ff. The TPIU reserves ID 7f for that; with such a word,
  data could end like a full sync.
- `JtagIF` (`JtagAssumption`): a chain of at least one device, registers of one bit or
  more, instructions that are as long as the longest register and that no device takes
  for one another, bypass all ones, as 1149.1 asks. The ID of a device is its number, so
  that no two are alike.
- `TpiuDemux`: `FrameAssumption` (an odd number of bytes besides the auxiliary one; the
  last ID of a frame is not a delayed one, as nothing follows that it could wait for) and
  `PacketizerAssumption` (a timeout, packets of two bytes or more).
- `OrbFlow`: `ByteAssumption` (more than three byte values, packets of bytes) and
  `FramerAssumption` (an interval and a threshold of at least one). Nothing is assumed of
  the packets or of when the output FIFO takes a byte.
- `DapTransfer` (`CallAssumption`): what a packet is: a transfer's stream has its requests
  one behind the other, each with its word if it has one, a block's stream its words; both
  may end early; nobody asks to read RDBUFF itself. Fewer requests in a block than its
  count can tell. `CallIsRight` also assumes `Plainly`, as the run does: no request is to
  be matched, and none but transfers come between two blocks of a run. With a match it is
  not true: the code makes a match again whatever came of it (`cmsis_dap.py:726`) without
  taking its attempts anew, and a transfer tries more often than `waitRetry` says.
- `MemBridge` (`MemAssumption`): words have as many bytes as the bus.
- `UsbControl` (`ControlAssumption`): rates are digits of the base; nothing is assumed of
  their value, a rate of 0 included.
- `SerialLed` (`LedAssumption`): a pause longer than any pulse, which the timings of
  `soc.py` are.
- `StreamCapture` (`CaptureAssumption`): fewer packets than there are numbers. A capture
  of 2^32 packets would be some terabytes; beyond that a loss of exactly 2^32 packets
  could not be seen.

Why each invariant is what it is:

- Receiver. `WindowCovered` is about wire numbers, and these do not tell whether
  `highest_seen` is less than half a circle ahead of `expected` or a lap more. `IndInv`
  adds `Window`: some index `h` with `pos <= h + 1` and `h < pos + Horizon` has
  `highest_seen = WireSeq(h)`, and buffer and holes are exactly the wire numbers of
  `pos .. h`. On any stretch of `SeqHalf` consecutive indexes `WireSeq` is injective, its
  numbers compare like the indexes (`WireSeqGt`), and a stretch of numbers is the image
  of a stretch of indexes (`WireWindow`). The refinement needs it to know that the entry
  under `expected`, if any, is packet `pos`.
- `DdrRing`. `PortInv` says for every state of the two burst machines where their
  controllers and the arbiter are and what the MIG has queued for them: a pulse is
  not missed because its receiver is always in the state that looks at it. `RingInv`
  adds which words of the stream the banks (`BankInv`), the queued writes and the memory
  (`PlaceInv`, `MemInv`) and the burst being read (`ReadsInv`) hold, and how much room the
  FIFO has (`RoomInv`), as room is only looked at before a burst.
- `SelfTx`. `FramesWhole` is a history bit. `PortInv` says the state machine is in
  `ST_SEND` exactly while its frame is on the port, `promised` is then the packet length
  less `bcnt`, and a reply on the port has its remaining bytes promised and no second
  header waiting. `PacketInv`: without padding the packetiser stands at byte 0 outside
  `ST_SEND` and at `bcnt` inside.
- `TpiuSync`. `SyncInv` says that in sync the shift register is what the port has sent
  of its frame and, behind it, of a sync; before, only its end is known, while a full
  sync is sent. `DataIsNoSync` is the reason no frame is taken for a sync.
- `TraceIF`. `PinsInv` relates the elements shifted in to the item (half sync, full sync
  or word) the port is sending: how many of its elements were sampled, that the item
  before it lies right behind them, that the edge of the last sync is the parity of that
  place and `remainingClocks` the distance to its end, and which words `cFrame` holds.
  `NoFalseSync` is the reason no data is taken for a sync. It says as well what the
  receiver does amid a full sync, which no test would look at: the first half of it, all
  ones, is taken as a word and thrown away when the second half has come. Before the lock
  only the elements sampled since the last fault are known, and after a fault only what
  the port has left.
- `DbgIF`. `DbgInv` says for each state of a transfer whether it has reached its device,
  and in JTAG mode that what the interface remembers of the chain (device and
  instruction) is what the chain holds; what a reset or a mode change makes unknown
  is marked so in the same clock.
- `SwdIF`. `SwdInv` follows a transfer: in each state the phase the target is in, the
  clocks it has left there, who drives, and which bits have gone over the line.
- `JtagIF`. `JtagInv` has two halves. Outside the registers the TAP is on one of the paths
  that the TMS bits of the command make (`Opens`, `Closes`, `Breaks`: the TAP's state, the
  next TMS bit and those after it), and a path leads where the interface thinks it does.
  While registers are shifted, every bit has gone one place on with every bit:
  `After` says that after `n` bits the place `k` bits from TDO holds what was at place
  `k + n` of what the registers showed, and behind them of what was sent. The places are
  sums of register lengths (`Offsets`), a recursive function over a chain of any length.
- `DapTransfer`. `CallInv` says at every state of the decoder which requests have been made
  and how much of the stream is used up (`ProgressInv`: a request put off until the posted
  value is collected is taken but not made), and that the values read are the words sent
  and, behind them, the posted one and the one that has just come (`ValuesInv`); attempts
  made and left add up to `waitRetry` (`AttemptsInv`). `BlockInv` says the same of a block,
  where the first value may be one the block before has left (`ReadyInv`, `BeginInv`).
- `TpiuDemux`. `DemuxInv` says of the serializer which bytes of the frame are still to
  come (`TrackInv`), and that the tracker is where the bytes before have left it, or one
  ID further when it has seen an ID that waits; of the packetiser that it keeps back one
  byte, which is under the channel of the packet its reader is in.
- `OrbFlow`. What the host has still to receive is spread over the superframer, the
  delimiter appender, the group being sent, the finished groups (their lengths are in one
  FIFO, their bytes in the other) and the open group of the splitter. `FlowLaid` says that
  it is `pend`: laid out in this order, behind each group what its code byte makes a
  decoder add (`GlueOf`: nothing behind a group of full length, a delimiter behind a shorter
  one, the end of the packet behind the last), and at the end the checksum that is still
  to come. The decoder, moved on by the byte the superframer holds back, has as many bytes
  of its group left as `GroupCombiner`. `FlowSteady` has the ranges and says that a
  checksum under way is that of the packet so far. No induction is needed: a byte or a
  length goes in at one end of the layout and out at the other, and lemmas on laid-out
  groups say what that does to the rest.
- `UsbControl`. `ControlInv` says of every handler whether it is idle, in the state of the
  request under way, or in that of one given up for another, whose settings are then unsure
  (`HandlersRight`); that a setting which is not is the one wanted, or the one the request
  under way is making (`SettingsOK`, `RateRight`); and of the divider that what is left of
  the dividend and what was taken off make the whole, as long as the rate is the one it
  began with (`BitsRight`).
- `SerialLed`. `LedInv` relates the clocks of the pulse on the wire to the counter in each
  state of the output, and the bits the chain has counted to the place of the generator.
- `StreamCapture`. `CaptureInv` says that the ring has, at every count of bytes from the
  tail to the head, that byte of the packets pushed (`RingInv`). The receiver works with a
  tail of some time ago and the writer with a head of some time ago; both are behind, and
  so neither overwrites nor reads what is not there (`PhaseInv`, `WriterInv`). The file has
  the bytes before the tail (`FileInv`). `RowInv`: as long as nothing was dropped, the last
  number seen is that of the last packet kept.
- `MemBridge`. The bus may be many writes behind. `MemInv` says of every cell in `known` that
  the last write to it that is still to be done brings what the bridge took last, or, if
  there is none, that the memory holds it (`CellsOK`); the addresses the bus has been given
  and the words are counted against each other (`QueueOK`, `WordsOK`), the writes behind a
  read on their own, as the read returns what was there before them. A machine that is not
  idle belongs to the request under way or to one that was given up, whose cell is left out
  from then on (`HostOK`, `WriteOK`, `ReadOK`).

Only model-checked:

- Everything under fairness (`HeldDelivered`, `BurstsEnd`, `TraceLeaves`, `CommandEnds`,
  `PacketsEnd`, `UsbEnds`, `NetEnds`): out of the prover's reach.
- What is built from recursive operators: the decoders of `EtmDecode` (its own `FlowRight`), `TpiuDeframe` and
  `TraceWidth`, and `CmsisDap`.
- What needs induction over a sequence: `coalesce_gaps` (`RunsRight`), the flash image
  (`FlashRight`), the pages of a dump (`ReadoutRight`).
- Not attempted so far: `BytesRight`, `BenchRight`, `AssemblyRight`,
  `DescriptorRight` and `TimesRight`.

## 6 Findings

With a run:

1. `la_ddr_ring_streamer.v:160`, run `ring_overwrite`. The window check lets a
   retransmit of the oldest burst through, and is made before the read is
   granted. `ddr3_arbit` serves a waiting write first, and that write goes to the
   same place: the packet is sent with newer data under the old number, against
   the comment at line 158. One burst further inside the window this cannot
   happen (`EgressRight`, proved).
2. `fpga_core_net.v:564`, run `selftx_echo`. The comment at line 488 says that
   the FSM waits until no echo is in flight. The code looks at a request whose
   header waits only; with the reply's payload still to send it goes to `ST_HDR`
   and holds the port against that payload, until its own time-out. That
   time-out is what saves it: the reply gets out (`NetEnds`).
3. `dbgIF.v:371`, run `dbg_reset`. The reset command holds the reset level at 0 for its
   whole time, under the comment "Actually do the reset", and at 1 for the one clock
   after; a direct write of the pin, and one of the two boards, pull with 1.
4. `jtagIF.v:215`, run `jtag_id`. Reading the ID of one device of a chain returns that
   of the last, against `dbgIF.v:527` ("Get ID of specified JTAG device").

Met on the way, without a run of their own:

5. `swdIF.v:175`: after a WAIT the link cools for 3 clocks, or 35 with a data phase,
   whatever turnaround is set, and `dbgIF.v:54` allows up to 4; after a FAULT there is
   always a data phase, though `dbgIF.v:55` makes it a setting. With a turnaround beyond
   `CoolingCovers` the target drives or listens in the middle of the next header:
   `WireKept` fails with `Turnarounds = {3}`.
6. `swo_stream_top.v:197`: the buffer is full at `2^$clog2(DEPTH)` bytes (131072), not at
   `DEPTH` (98304), so the time of the last byte is that of a byte nobody reads, and the
   span of a capture comes out a third too long; the 655 ms against 491 ms that the
   notes in `docs` put down to stalls are in just this proportion. With a `DEPTH` that is
   a power of two the last entry of the table is never written. More than 2^32 ticks
   between two notes lose a wrap.
7. `cmsis_dap.py:517` passes the index of `DAP_JTAG_IDCODE` in `dwrite`, where `dbgIF.v`
   does not look for a device. A packet cut short stays unanswered until the next.
   A value match that succeeded is made again (731-736), until one fails with the attempts
   used up.
8. `etm35lib.py:273` and `:966` take a false I-sync for an anchor that `find_isyncs` (113-128)
   would refuse; `tpiu_deframe_hsync` applies a delayed ID change at once (437-439 against
   561-562).
9. `trace_doctor.py:516` and `:529` report a green stream link for an empty capture;
   `cmd_tap_set_clk`, `_data` and `_lane` (546-569) always fail, as `trace_ctrl.py` has no such
   commands; the state file tells the width last asked for, not the one the hardware
   came up with. A depth of the right kind does not tell which bitstream is live. Two
   commands that save at once can leave a file that no longer parses, and `state_load`
   (65-71) takes that for none: every entry is gone with the next save.
10. `stream_grab.c:132`: bytes lost to a failed write are not in the final verdict (227),
    against its head.
11. `soc.py`: standard interface requests are claimed by LUNA's standard handler and by
    the function handlers; the ACM notification endpoint has no handler; `with_debug`
    and `with_trace` only work together; `ecpix5`'s pads do not fit `add_target_power`.
12. `trace_width.py`: the docstring's range of phases is twice the code's; its `main` scores
    captures otherwise than `recover_assemble` does.
13. `fpga_core_net.v:545` speaks of aborting a starved packet, the code pads it; 2^19
    cycles of 125 MHz are 4.2 ms, not 8.

## 7 Not modelled, and why

- Parts of modelled files: the gearbox and clock crossing in front of
  `la_ddr_writer`, the crossing of the NACK fields, the helpers of `stream.py`
  that the demultiplexer does not use, the 1- and 2-pin widths of `traceIF.v`
  (the same machine with more clocks per word), `RESPECT_SYNC_TO` (never
  defined), the receive side of `fpga_core_net.v`, `build_data_packet` and
  `parse_nack` of `nack_protocol.py`, `fix_async_alignment` and `diagnose_bitflip` of the
  decoders (nothing calls them), CSR addresses, and the text the tools print.
- Requests to the memory bridge with another length than a word's, and an answer of the bus
  that reports an error (the bridge does not look at it).
- Trace ports that use ID 3f after a byte ff, which `TPIUSync` would take for a
  half sync, are not among the inputs of `TpiuSync`.
- `LocksOnFullSync` leaves out syncs that arrive while a frame is read: after a
  lost byte a misaligned frame can complete inside a sync and take its first
  bytes with it; the next sync then locks.
- A restart of the FPGA under `nack_rx.py`, and the 8-byte data header the receiver
  expects against the 4 bytes the packetisers send (no top wires the NACK path yet):
  they need a model of both ends.
- Clocking, vendor memories, capture front ends: constants and analogue timing.
  The MMCM streaming top: the state machine of `SelfTx` with another packetiser.
  Board self-tests: generated data through the modules above. Measurement scripts of
  one board, the external decoders (OpenCSD, orbetm) and the reports on their output,
  the harness, vendored libraries.

## 8 Plan

Next proofs, in this order:

1. `Bench`: `BenchRight`, a finite case analysis over the programs.
2. `UdpReadout`: `ReadoutRight`, with an induction over the pages of a dump (`ModFacts` has
   the scheme for functions over the naturals).
3. `UsbAssembly` and `DescriptorSet`: what is looked at on every configuration.

Next models: the link between `ReliableReceiver` and the streamer's NACK latch with the
wire between them (hazards: the second NACK dropped while one is pending, a NACK with
count 0, the packet number that wraps after 2^32 words, a restart of the FPGA).
