---------------------------- MODULE StreamCapture ----------------------------
(* The host's stream capture tools: stream_recv.py, stream_endurance.py,       *)
(* stream_recvmmsg.c and stream_grab.c.  The FPGA numbers its packets, the     *)
(* network and the kernel's socket buffer lose some, double some and swap some.*)
(* Each tool looks at the numbers to say whether anything is missing; grab     *)
(* hands the payload over a ring to a writer thread, the others keep it.       *)
EXTENDS Integers, Sequences, FiniteSets, SequencesExt

CONSTANTS
    Tools,          \* of {"recv", "endurance", "recvmmsg", "grab"}
    NumMod,         \* 2^32: the packet number wraps
    First,          \* number of the first packet after the tool is started
    P,              \* bytes of payload in a packet
    RingSize,       \* bytes of the ring, a power of two
    MaxWrite,       \* bytes the writer takes at once (1 MB)
    SockMax,        \* packets the socket buffer holds
    WriteErrors,    \* whether a write may fail
    MaxPackets

\* Fewer packets than there are numbers: a capture of 2^32 packets would be terabytes.
ASSUME CaptureAssumption ==
    /\ Tools \subseteq {"recv", "endurance", "recvmmsg", "grab"}
    /\ NumMod \in Nat \ {0} /\ First \in 0 .. NumMod - 1
    /\ {P, RingSize, MaxWrite} \subseteq Nat \ {0}
    /\ SockMax \in Nat /\ MaxPackets \in 0 .. NumMod - 1

VARIABLES
    tool,           \* the one that runs
    sender,           \* [n, next]: packets sent, number of the next one
    sock,           \* packets in the socket buffer
    rx,             \* receiver: see RxStart
    ring,           \* [head, tail, buf]: counters of bytes, and the bytes
    writer,         \* [pc, n]: the writer thread, and the bytes it has found
    file            \* bytes written, or kept for the file

captureVars == <<tool, sender, sock, rx, ring, writer, file>>

PayloadOf(pkt) == [k \in 1 .. P |-> [pkt |-> pkt, byte |-> k]]

(***************************************************************************)
(* FPGA, network and kernel.                                               *)
(***************************************************************************)
Sent(seq) == [n |-> sender.n, seq |-> seq]
Fits(s) == IF Len(s) <= SockMax THEN s ELSE SubSeq(s, 1, SockMax)

Send ==
    /\ sender.n < MaxPackets
    /\ LET p == Sent(sender.next)
       IN  \/ sock' = Fits(Append(sock, p))
           \/ sock' = Fits(sock \o <<p, p>>)
           \/ Len(sock) > 0 /\ sock' = Fits(Front(sock) \o <<p, Last(sock)>>)
           \/ sock' = sock
    /\ sender' = [n |-> sender.n + 1, next |-> (sender.next + 1) % NumMod]
    /\ UNCHANGED <<tool, rx, ring, writer, file>>

(***************************************************************************)
(* The receive loop.                                                       *)
(***************************************************************************)
RxStart == [pc |-> "recv", prev |-> -1, gaps |-> 0, took |-> <<>>, dropped |-> 0, h |-> 0, t |-> 0,
            stop |-> FALSE, back |-> FALSE]
u32_delta(cur, prev) == (cur - prev) % NumMod

\* Whether two numbers in a row are counted as a gap: the C tools take the upper half of
\* the range for a step back and let it pass.
Gap(d) == IF tool \in {"grab", "recvmmsg"} THEN d # 1 /\ d < NumMod \div 2 ELSE d # 1

\* What the loop keeps of packet p.
Received(p) ==
    LET d == u32_delta(p.seq, rx.prev)
    IN  [rx EXCEPT !.prev = p.seq, !.took = Append(@, p),
                   !.gaps = @ + (IF rx.prev # -1 /\ Gap(d) THEN 1 ELSE 0),
                   !.back = @ \/ (rx.prev # -1 /\ d >= NumMod \div 2),
                   !.pc = IF tool = "grab" THEN "push" ELSE "recv",
                   !.h = ring.head, !.t = ring.tail]

\* The two tools in Python keep the payload for the file.
Extended(p) == IF tool \in {"recv", "endurance"} THEN file \o PayloadOf(p) ELSE file

recv ==
    /\ rx.pc = "recv" /\ ~rx.stop /\ sock # <<>>
    /\ sock' = Tail(sock)
    /\ rx' = Received(Head(sock)) /\ file' = Extended(Head(sock))
    /\ UNCHANGED <<tool, sender, ring, writer>>

\* The time is over.
deadline ==
    /\ rx.pc = "recv" /\ ~rx.stop
    /\ rx' = [rx EXCEPT !.stop = TRUE, !.pc = IF tool = "grab" THEN "join" ELSE "done"]
    /\ UNCHANGED <<tool, sender, sock, ring, writer, file>>

(***************************************************************************)
(* The ring between the two threads of grab.                               *)
(***************************************************************************)
\* Whole payloads only: head and tail as they were when the push began.
ring_push ==
    /\ rx.pc = "push"
    /\ LET pkt == Last(rx.took)
           room == RingSize - (rx.h - rx.t) >= P
       IN  /\ ring' = IF ~room THEN ring
                      ELSE [ring EXCEPT !.head = rx.h + P,
                              !.buf = [pos \in DOMAIN @ |->
                                         LET k == ((pos - rx.h) % RingSize) + 1
                                         IN  IF k <= P THEN PayloadOf(pkt)[k] ELSE @[pos]]]
           /\ rx' = [rx EXCEPT !.pc = "recv", !.dropped = @ + (IF room THEN 0 ELSE P),
                               !.took = IF room THEN @ ELSE Front(@)]
    /\ UNCHANGED <<tool, sender, sock, writer, file>>

\* Mutant: the end of the buffer is not looked at.
ContigAll(t, h) == IF h - t < MaxWrite THEN h - t ELSE MaxWrite

\* Bytes from the tail that lie in one piece.
Contig(t, h) == LET piece == RingSize - (t % RingSize)
                    n == IF h - t < piece THEN h - t ELSE piece
                IN  IF n < MaxWrite THEN n ELSE MaxWrite

ring_read_contig ==
    /\ writer.pc = "read"
    /\ LET n == Contig(ring.tail, ring.head)
       IN  writer' = [pc |-> IF n = 0 THEN "idle" ELSE "write", n |-> n]
    /\ UNCHANGED <<tool, sender, sock, rx, ring, file>>

\* Mutant: the thread leaves only when it still has something to write.
LeaveFull == rx.stop /\ ring.head # ring.tail

\* Nothing to write: leave when the receiver has stopped and the ring is still empty.
Leave == rx.stop /\ ring.head = ring.tail

writer_idle ==
    /\ writer.pc = "idle"
    /\ writer' = [writer EXCEPT !.pc = IF Leave THEN "closed" ELSE "read"]
    /\ UNCHANGED <<tool, sender, sock, rx, ring, file>>

\* The memory behind the ring ends where it ends: what is read past it is not the ring's.
InRing(k) == (ring.tail % RingSize) + k - 1 < RingSize
Beyond == [pkt |-> [n |-> -1, seq |-> -1], byte |-> 0]
writer_write ==
    /\ writer.pc = "write"
    /\ \/ \E wr \in 1 .. writer.n :
            /\ file' = file \o [k \in 1 .. wr |-> IF InRing(k) THEN ring.buf[(ring.tail % RingSize) + k - 1]
                                                  ELSE Beyond]
            /\ writer' = [pc |-> "advance", n |-> wr]
       \/ WriteErrors /\ writer' = [writer EXCEPT !.pc = "failed"] /\ UNCHANGED file
    /\ UNCHANGED <<tool, sender, sock, rx, ring>>

ring_advance ==
    /\ writer.pc = "advance"
    /\ ring' = [ring EXCEPT !.tail = @ + writer.n]
    /\ writer' = [writer EXCEPT !.pc = "read"]
    /\ UNCHANGED <<tool, sender, sock, rx, file>>

join ==
    /\ rx.pc = "join" /\ writer.pc \in {"closed", "failed"}
    /\ rx' = [rx EXCEPT !.pc = "done"]
    /\ UNCHANGED <<tool, sender, sock, ring, writer, file>>

CaptureInit ==
    /\ tool \in Tools
    /\ sender = [n |-> 0, next |-> First]
    /\ sock = <<>> /\ rx = RxStart /\ file = <<>>
    /\ ring = [head |-> 0, tail |-> 0, buf |-> [pos \in 0 .. RingSize - 1 |-> Beyond]]
    /\ writer = [pc |-> IF tool = "grab" THEN "read" ELSE "closed", n |-> 0]

Writer == ring_read_contig \/ writer_idle \/ writer_write \/ ring_advance
CaptureNext == Send \/ recv \/ deadline \/ ring_push \/ ring_read_contig \/ writer_idle
        \/ writer_write \/ ring_advance \/ join
CaptureFairness == WF_captureVars(Writer) /\ WF_captureVars(ring_push) /\ WF_captureVars(join)
CaptureSpec == CaptureInit /\ [][CaptureNext]_captureVars /\ CaptureFairness

(***************************************************************************)
(* Properties.                                                             *)
(***************************************************************************)
\* What the tool reports: no gap, and for grab nothing dropped at a full ring.
ZeroLoss == rx.pc = "done" /\ rx.gaps = 0 /\ rx.dropped = 0
InARow == \A k \in 2 .. Len(rx.took) : rx.took[k].n = rx.took[k - 1].n + 1

\* The payloads of the packets one behind the other; b counts the bytes from 0.
PayloadByte(pkts, b) == [pkt |-> pkts[(b \div P) + 1], byte |-> (b % P) + 1]
Payloads(pkts) == [k \in 1 .. P * Len(pkts) |-> PayloadByte(pkts, k - 1)]

\* A packet that is being pushed is not in the ring yet.
Pushed == IF rx.pc = "push" THEN Front(rx.took) ELSE rx.took

\* The ring hands over every payload it took once and in order, whatever the two threads
\* do, and all of them before grab ends; and a capture reported as loss-free that saw no
\* step back holds the packets the FPGA sent in a row, no matter what was lost, doubled or
\* swapped on the way.
CaptureRight ==
    /\ IsPrefix(file, Payloads(Pushed))
    /\ (rx.pc = "done" /\ tool # "recvmmsg" /\ writer.pc # "failed") => file = Payloads(rx.took)
    /\ (ZeroLoss /\ (tool \in {"recv", "endurance"} \/ ~rx.back)) => InARow

\* Once the time is over the tool ends: the writer drains the ring and is joined.
CaptureEnds == rx.stop ~> rx.pc = "done"
==============================================================================
