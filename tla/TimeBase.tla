------------------------------ MODULE TimeBase ------------------------------
(* When a byte was captured (swo_stream_top.v, swo_dump_banked.py,             *)
(* fpga_timebase.py).  The FPGA notes its clock counter at every Stride-th     *)
(* byte of a capture; the host reads the table and places each byte on the     *)
(* time axis between two notes.  The counter wraps, and the buffer's address   *)
(* may have room for more bytes than the Depth the host is told of.            *)
EXTENDS Integers, Sequences, SequencesExt, FiniteSetsExt

CONSTANTS
    Depth,          \* bytes of a capture
    Room,           \* bytes until the buffer is full: 2^$clog2(DEPTH)
    Stride,         \* bytes between two notes: 256
    Wrap,           \* values of the counter: 2^32
    Pauses,         \* ticks that may pass before a byte comes
    MaxArms         \* re-arms of the capture

VARIABLES
    rwr,            \* bytes captured
    elapsed,        \* ticks since the capture was armed
    tsmem,          \* the table: tsmem[k] was noted at byte k * Stride
    cap_clk_last,   \* the counter at the last byte
    came,           \* came[i + 1]: when byte i was captured
    arms

timeVars == <<rwr, elapsed, tsmem, cap_clk_last, came, arms>>

TS_N == (Depth \div Stride) + 1
rfull == rwr = Room

(***************************************************************************)
(* The capture.                                                            *)
(***************************************************************************)
\* The next byte; at its first of each stride the counter goes to the table.  A full
\* buffer takes no more.
cap_valid ==
    /\ ~rfull
    /\ \E pause \in Pauses :
        LET cnt == (elapsed + pause) % Wrap
        IN  /\ elapsed' = elapsed + pause
            /\ tsmem' = IF rwr % Stride = 0 /\ rwr \div Stride < TS_N
                        THEN [tsmem EXCEPT ![rwr \div Stride] = cnt] ELSE tsmem
            /\ cap_clk_last' = cnt
            /\ came' = Append(came, elapsed + pause)
    /\ rwr' = rwr + 1
    /\ UNCHANGED arms

\* CSR 0x02: the counter and the write address start anew, the table stays.
cap_rearm ==
    /\ arms < MaxArms
    /\ arms' = arms + 1
    /\ rwr' = 0 /\ elapsed' = 0 /\ came' = <<>>
    /\ UNCHANGED <<tsmem, cap_clk_last>>

TimeInit == rwr = 0 /\ elapsed = 0 /\ tsmem = [k \in 0 .. TS_N - 1 |-> 0] /\ cap_clk_last = 0
            /\ came = <<>> /\ arms = 0
TimeNext == cap_valid \/ cap_rearm
TimeSpec == TimeInit /\ [][TimeNext]_timeVars

(***************************************************************************)
(* The host.                                                               *)
(***************************************************************************)
\* The sidecar file: the table and the counter at the end.
read_timebase == [ticks |-> [k \in 1 .. TS_N |-> tsmem[k - 1]], last |-> cap_clk_last]

\* Mutant: the wraps are not added up.
unwrapOnce(ticks) ==
    [k \in DOMAIN ticks |-> ticks[k] + (IF \E j \in 2 .. k : ticks[j] < ticks[j - 1] THEN Wrap ELSE 0)]

\* A value below the one before it: the counter has wrapped once more.
_unwrap(ticks) ==
    [k \in DOMAIN ticks |-> ticks[k] + Wrap * Quantify(2 .. k, LAMBDA j : ticks[j] < ticks[j - 1])]

\* The last byte's tick, after the last of the table.
_ulast(tb) ==
    LET t == tb.ticks[Len(tb.ticks)]
    IN  tb.last + _unwrap(tb.ticks)[Len(tb.ticks)] - t + (IF tb.last < t THEN Wrap ELSE 0)

\* The ticks from the first byte to byte i, as a fraction: on the line between the notes
\* around it; after the last note, on the line to the last byte, and not beyond.
ns_for_raw(tb, i) ==
    LET u == _unwrap(tb.ticks)
        n == Len(u)
        k == i \div Stride
        end == Stride * (n - 1)
        span == Depth - 1 - end
        tail == u[n] - u[1]
        line == (u[k + 2] - u[k + 1]) * (i % Stride)
    IN  IF i < end THEN [num |-> (u[k + 1] - u[1]) * Stride + line, den |-> Stride]
        ELSE IF span > 0 /\ _ulast(tb) > u[n]
          THEN [num |-> tail * span + (_ulast(tb) - u[n]) * Min({i - end, span}), den |-> span]
        ELSE [num |-> tail, den |-> 1]

(***************************************************************************)
(* Properties.                                                             *)
(***************************************************************************)
Since(i) == came[i + 1] - came[1]
Notes == {k * Stride : k \in 0 .. TS_N - 1} \cap 0 .. Room - 1

\* In a full capture in which fewer than Wrap ticks pass between two notes: a byte with a
\* note has the time it was captured at, however often the counter wrapped and whatever an
\* earlier capture left in the table; each other one lies between the notes around it, and
\* the times never go back (TimeBase.ns_for_raw).
TimesRight ==
    LET short == \A i \in Notes : i + Stride \in Notes => Since(i + Stride) - Since(i) < Wrap
        t(i) == ns_for_raw(read_timebase, i)
    IN  rfull /\ short => \A i \in 0 .. Depth - 1 :
            LET note == i - (i % Stride)
            IN  /\ Since(note) * t(i).den <= t(i).num
                /\ IF i = note THEN t(i).num = Since(i) * t(i).den
                   ELSE t(i).num <= Since(note + Stride) * t(i).den
                /\ i > 0 => t(i - 1).num * t(i).den <= t(i).num * t(i - 1).den
=============================================================================
