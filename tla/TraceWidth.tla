----------------------------- MODULE TraceWidth -----------------------------
(* From the samples of a parallel trace port back to the bytes of a stream     *)
(* (trace_width.py, dsl_parse.py, opencsd_etm4_run.py).  A raw capture holds   *)
(* one byte for each period of the trace clock, the rising edge in the low     *)
(* nibble and the falling edge in the high one; it may begin and end within a  *)
(* byte, and the lanes above the port's width are noise.  A logic analyser     *)
(* samples the clock and the four lanes instead.  The tools try the alignments *)
(* and keep the one whose bytes make most sense.                               *)
EXTENDS TpiuDeframe

CONSTANTS
    Sent,           \* what a target may send: frames with their syncs, as bytes
    PortWidths,     \* lanes of the port: a subset of {1, 2, 4}
    AsyncZeros,     \* zeros before the 128 of an A-sync: 11 in the code
    Halves          \* samples in the half-periods of the clock, again and again

VARIABLES
    line,           \* what the target sends
    read            \* [tool, port, bytes]: the tool, how the port was captured, what came out

widthVars == <<line, read>>

Stream == 2         \* the trace stream of the ETM

Built(f) == f \o <<>>        \* the sequence f itself: TLC evaluates it here, and once

(***************************************************************************)
(* The captures.                                                           *)
(***************************************************************************)
\* What the edges of the clock carry: width bits each, low bits first.
EdgesOf(d, width) ==
    FlattenSeq([k \in DOMAIN d |-> [j \in 1 .. 8 \div width |-> Bits(d[k], width * (j - 1), width)]])

\* CAP_RAW: {trace_b, trace_a} for each whole period.
RawOf(edges, width, noise) ==
    LET lanes(s) == s + (IF noise THEN 16 - 2^width ELSE 0)
    IN  Built([k \in 1 .. Len(edges) \div 2 |-> lanes(edges[2 * k - 1]) + 16 * lanes(edges[2 * k])])

\* Logic analyser: after an edge the lanes are still as before for one sample.
SamplesOf(edges) ==
    LET half(k) == Halves[((k - 1) % Len(Halves)) + 1]
        sample(k, j) == [clk |-> k % 2, d |-> IF j = 1 /\ k > 1 THEN edges[k - 1] ELSE edges[k]]
    IN  FlattenSeq([k \in DOMAIN edges |-> [j \in 1 .. half(k) |-> sample(k, j)]])

(***************************************************************************)
(* Bytes from edges: trace_width.py.                                       *)
(***************************************************************************)
half_symbols(raw, width) ==
    FlattenSeq([k \in DOMAIN raw |-> <<raw[k] % 2^width, (raw[k] \div 16) % 2^width>>])

\* Mutant: two phases, as a port of four lanes has, at every width.
phasesOfNibbles(width) == 2
phases(width) == 8 \div width

\* The low bits of the byte come first; msb: those of each half-symbol are swapped.
assemble_width(raw, width, phase, order) ==
    LET n == 8 \div width
        syms == From(half_symbols(raw, width), phase)
        flip(s) == FoldLeft(LAMBDA acc, b : 2 * acc + Bits(s, b, 1), 0, [b \in 1 .. width |-> b - 1])
        sym(k) == IF order = "msb" THEN flip(syms[k]) ELSE syms[k]
        byte(k) == FoldLeft(LAMBDA acc, j : acc + sym(n * (k - 1) + j) * 2^(width * (j - 1)), 0,
                            [j \in 1 .. n |-> j])
    IN  Built([k \in 1 .. Len(syms) \div n |-> byte(k)])

candidates(raw, width) ==
    LET orders == IF width = 1 THEN <<"lsb">> ELSE <<"lsb", "msb">>
    IN  FlattenSeq([ph \in 1 .. phases(width) |->
            [o \in DOMAIN orders |-> assemble_width(raw, width, ph - 1, orders[o])]])

(***************************************************************************)
(* Bytes from nibbles: dsl_parse.py.                                       *)
(***************************************************************************)
assemble(nibs, parity, order) ==
    LET seq == From(nibs, parity)
        byte(a, b) == IF order = 0 THEN 16 * b + a ELSE 16 * a + b
    IN  Built([k \in 1 .. Len(seq) \div 2 |-> byte(seq[2 * k - 1], seq[2 * k])])

Alignments(nibs) == <<assemble(nibs, 0, 0), assemble(nibs, 0, 1), assemble(nibs, 1, 0), assemble(nibs, 1, 1)>>

\* The first of the candidates with the highest score.
FirstBest(cands, scores) ==
    cands[Min({k \in DOMAIN cands : \A j \in DOMAIN cands : scores[j] <= scores[k]})]

\* Where the clock changes: positions in samples.
find_edges(samples) ==
    SelectSeq([k \in 1 .. Len(samples) |-> k],
              LAMBDA k : k > 1 /\ samples[k].clk # samples[k - 1].clk)

\* Half the median half-period.
Eye(edges) ==
    LET gaps == SortSeq(Built([k \in 1 .. Len(edges) - 1 |-> edges[k + 1] - edges[k]]), LAMBDA a, b : a < b)
        half == IF Len(edges) > 2 THEN gaps[(Len(gaps) \div 2) + 1] ELSE 1
    IN  Max({1, half \div 2})

sample_nibbles(samples, edges, eye) ==
    Built([k \in DOMAIN edges |-> samples[Min({edges[k] + eye, Len(samples)})].d])

has_tpiu_sync(d) == \E i \in 0 .. Len(d) - 1 : Starts(d, i, HSYNC)

Anchors(d) == Len(find_isyncs(d))

dsl_main(samples) ==
    LET edges == find_edges(samples)
        cands == Alignments(sample_nibbles(samples, edges, Eye(edges)))
        aligned == FirstBest(cands, Built([k \in DOMAIN cands |-> Anchors(cands[k])]))
    IN  IF has_tpiu_sync(aligned) THEN tpiu_deframe_hsync(aligned, find_tpiu_phase(aligned), ANY) ELSE aligned

(***************************************************************************)
(* The recovery for the ETMv4 decoder: opencsd_etm4_run.py.                *)
(***************************************************************************)
count_async(d) ==
    LET byte(s, c) ==
            IF c = 0 THEN [s EXCEPT !.zc = @ + 1]
            ELSE IF c = 128 /\ s.zc >= AsyncZeros THEN [n |-> s.n + 1, zc |-> 0]
            ELSE [s EXCEPT !.zc = 0]
    IN  FoldLeft(byte, [n |-> 0, zc |-> 0], d).n

Etm(d) == IF has_tpiu_sync(d) THEN official_deframe(d, Stream) ELSE <<>>

\* A-syncs after the deframing count most, then what the deframing leaves.
Score(d) ==
    LET etm == Etm(d)
        fsync == Cardinality({i \in 0 .. Len(d) - 1 : Starts(d, i, FSYNC)})
    IN  count_async(etm) * 1000000 + Len(etm) * 10 + count_async(d) * 100 + fsync + Anchors(d)

Best(cands) == FirstBest(cands, Built([k \in DOMAIN cands |-> Score(cands[k])]))

\* At four lanes: the nibbles from the first falling edge to the last rising one.
recover_assemble(raw) ==
    Best(Alignments(FlattenSeq([k \in 1 .. Len(raw) - 1 |-> <<raw[k] \div 16, raw[k + 1] % 16>>])))

recover_assemble_width(raw, width) == Best(candidates(raw, width))

\* The raw bytes may be frames already: the way with more A-syncs is taken, and the
\* raw bytes go on as they are when neither finds a frame.
etm4_main(raw, width) ==
    LET direct == Etm(raw)
        asm == Etm(IF width = 4 THEN recover_assemble(raw) ELSE recover_assemble_width(raw, width))
        etm == IF count_async(asm) >= count_async(direct) THEN asm ELSE direct
    IN  IF etm = <<>> THEN raw ELSE etm

(***************************************************************************)
(* A capture and what a tool makes of it.                                  *)
(***************************************************************************)
Unread == [tool |-> "none", width |-> 4, missed |-> 0, bytes |-> <<>>]
Edges(width, missed) == From(EdgesOf(line, width), missed)

Etm4 ==
    /\ read = Unread
    /\ \E width \in PortWidths, noise \in BOOLEAN : \E missed \in 0 .. (8 \div width) - 1 :
        read' = [tool |-> "etm4", width |-> width, missed |-> missed,
                 bytes |-> etm4_main(RawOf(Edges(width, missed), width, noise), width)]
    /\ UNCHANGED line

Dsl ==
    /\ read = Unread
    /\ \E missed \in {0, 1} :
        read' = [tool |-> "dsl", width |-> 4, missed |-> missed,
                 bytes |-> dsl_main(SamplesOf(Edges(4, missed)))]
    /\ UNCHANGED line

WidthInit == line \in Sent /\ read = Unread
WidthNext == Etm4 \/ Dsl
WidthSpec == WidthInit /\ [][WidthNext]_widthVars

(***************************************************************************)
(* Properties.                                                             *)
(***************************************************************************)
\* The bytes of the line that lie between two of its edges, counted from 0.
Between(first, end) ==
    LET n == 8 \div read.width IN SubSeq(line, ((first + n - 1) \div n) + 1, end \div n)

\* The bytes a capture holds whole.  A raw capture has whole periods only, and at four
\* lanes the first and the last edge are dropped as well; the analyser needs an edge
\* to see a half-period.
Held ==
    LET total == Len(line) * (8 \div read.width)
        end == read.missed + 2 * ((total - read.missed) \div 2)
    IN  IF read.tool = "dsl" THEN Between(read.missed + 1, total)
        ELSE IF read.width = 4 THEN Between(read.missed + 1, end - 1)
        ELSE Between(read.missed, end)

\* Whatever the width of the port, the place where the capture begins and the noise on
\* the other lanes: if the bytes captured hold an A-sync of the stream, what goes to the
\* decoder is that stream (opencsd_etm4_run.py, trace_width.py); and if they hold an
\* I-sync, the analyser's samples give the bytes that were sent (dsl_parse.py).
AlignedRight ==
    /\ read.tool = "etm4" /\ count_async(Etm(Held)) > 0 => read.bytes = Etm(Held)
    /\ read.tool = "dsl" /\ Anchors(Held) > 0 =>
         read.bytes = IF has_tpiu_sync(Held) THEN tpiu_deframe_hsync(Held, find_tpiu_phase(Held), ANY) ELSE Held
=============================================================================
