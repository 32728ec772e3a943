----------------------------- MODULE TpiuDeframe -----------------------------
(* The host's TPIU deframers (etm35lib.py, tpiu_official.py): the ways back    *)
(* from the 16-byte frames of the target's formatter to the bytes of each      *)
(* trace stream.  The formatter fills `captured` frame by frame, with half and *)
(* full syncs between; the capture may have missed the start of the first one. *)
EXTENDS EtmDecode

CONSTANTS
    IDs,            \* stream identifiers a frame may change to; 0 is padding
    Source,         \* Source[id]: the bytes stream id carries, again and again
    Changes,        \* pairs of a frame (0..7) that may hold an ID change
    Fillers,        \* pairs of a frame a half sync may come before
    Missed,         \* how many bytes of the first frame the capture may miss
    DelayedToo,     \* whether an ID change may be marked as delayed
    MaxFrames,
    LongStream,     \* 8192 in the code: when the walk adapts its threshold
    check_frames, scan      \* parameters of the walk: 6 and 48

VARIABLES
    captured,       \* what the capture holds
    carried,        \* carried[id]: the bytes of stream id, in order
    cur,            \* stream the formatter is sending
    frames,         \* frames sent
    marks           \* [missed, delayed]: the capture misses a start; a delayed change was sent

deframeVars == <<captured, carried, cur, frames, marks>>

FSYNC == <<255, 255, 255, 127>>
HSYNC == <<255, 127>>
Starts(d, i, pattern) == i >= 0 /\ i + Len(pattern) <= Len(d) /\ \A k \in DOMAIN pattern : d[i + k] = pattern[k]
Ends(d, pattern) == Starts(d, Len(d) - Len(pattern), pattern)
ANY == -1                   \* a wanted stream of None: all of them
Wanted(out, want) == SelectSeq(out, LAMBDA x : want \in {ANY, x.id})
Bytes(out) == [k \in DOMAIN out |-> out[k].byte]

(***************************************************************************)
(* The frame interpreter of orbuculum (tpiu_deframe, _get_packet): an ID   *)
(* change whose low bit is 1 waits until after the odd byte of its pair,   *)
(* and what stream 0 carries is dropped.  f[j + 1] is the byte in slot j.  *)
(***************************************************************************)
\* Mutant: a delayed change takes effect at once.
_get_packetAtOnce(f, id) ==
    LET pair(s, p) ==
            LET e == f[2 * p + 1]
                low == Bits(f[16], p, 1)
                now == IF Odd(e) THEN e \div 2 ELSE s.id
                even == IF Odd(e) \/ now = 0 THEN <<>> ELSE <<[id |-> now, byte |-> e + low, slot |-> 2 * p]>>
                odd == IF p = 7 \/ now = 0 THEN <<>> ELSE <<[id |-> now, byte |-> f[2 * p + 2], slot |-> 2 * p + 1]>>
            IN  [id |-> now, out |-> s.out \o even \o odd]
    IN  FoldLeft(pair, [id |-> id, out |-> <<>>], <<0, 1, 2, 3, 4, 5, 6, 7>>)

_get_packet(f, id) ==
    LET pair(s, p) ==
            LET e == f[2 * p + 1]
                low == Bits(f[16], p, 1)
                now == IF Odd(e) /\ low = 0 THEN e \div 2 ELSE s.id
                even == IF Odd(e) \/ now = 0 THEN <<>> ELSE <<[id |-> now, byte |-> e + low, slot |-> 2 * p]>>
                odd == IF p = 7 \/ now = 0 THEN <<>> ELSE <<[id |-> now, byte |-> f[2 * p + 2], slot |-> 2 * p + 1]>>
            IN  [id |-> IF Odd(e) /\ low = 1 THEN e \div 2 ELSE now, out |-> s.out \o even \o odd]
    IN  FoldLeft(pair, [id |-> id, out |-> <<>>], <<0, 1, 2, 3, 4, 5, 6, 7>>)

\* The register is the bytes since the last sync or frame: a full sync empties it, a
\* half sync takes the byte before it back.
tpiu_sync_frames(d) ==
    LET byte(s, p) ==
            LET seen == Append(s.buf, p)
            IN  IF Ends(seen, FSYNC) THEN [s EXCEPT !.synced = TRUE, !.buf = <<>>]
                ELSE IF Ends(seen, HSYNC) THEN [s EXCEPT !.buf = Front(s.buf)]
                ELSE IF s.synced /\ Len(seen) = 16
                  THEN [s EXCEPT !.buf = <<>>, !.out = Append(s.out, seen)]
                ELSE [s EXCEPT !.buf = seen]
    IN  FoldLeft(byte, [buf |-> <<>>, synced |-> FALSE, out |-> <<>>], d).out

Interpreted(fs) == FoldLeft(LAMBDA s, f : LET r == _get_packet(f, s.id) IN [id |-> r.id, out |-> s.out \o r.out],
                            [id |-> 0, out |-> <<>>], fs).out

tpiu_deframe(d, want) == Bytes(Wanted(Interpreted(tpiu_sync_frames(d)), want))

\* The port of tpiuDecoder.c: bytes are taken in pairs and a half sync is dropped only
\* on a pair boundary; it is a full sync that aligns the pairs.
official_deframe(d, want) ==
    LET byte(s, p) ==
            LET last4 == Append(IF Len(s.last) = 4 THEN Tail(s.last) ELSE s.last, p)
                t == [s EXCEPT !.last = last4]
                odd == Len(s.rxed) % 2 = 1
            IN  IF last4 = FSYNC THEN [t EXCEPT !.synced = TRUE, !.rxed = <<>>]
                ELSE IF ~s.synced THEN t
                ELSE IF odd /\ Ends(Append(s.rxed, p), HSYNC) THEN [t EXCEPT !.rxed = Front(s.rxed)]
                ELSE IF Len(s.rxed) = 15
                  THEN [t EXCEPT !.rxed = <<>>, !.out = Append(s.out, Append(s.rxed, p))]
                ELSE [t EXCEPT !.rxed = Append(s.rxed, p)]
        fs == FoldLeft(byte, [last |-> <<>>, synced |-> FALSE, rxed |-> <<>>, out |-> <<>>], d).out
    IN  Bytes(Wanted(Interpreted(fs), want))

(***************************************************************************)
(* The deframer without a full sync: fillers are skipped wherever they     *)
(* stand, 16 other bytes are a frame, an ID change always applies at once. *)
(***************************************************************************)
RECURSIVE Collect(_, _, _)
Collect(d, i, slots) ==
    IF i >= Len(d) \/ Len(slots) = 16 THEN [slots |-> slots, next |-> i]
    ELSE IF Starts(d, i, HSYNC) THEN Collect(d, i + 2, slots)
    ELSE IF Starts(d, i, FSYNC) THEN Collect(d, i + 4, slots)
    ELSE Collect(d, i + 1, Append(slots, i))

\* The offsets of the next 16 bytes that are no filler; fewer: there is no frame left.
_next_frame(d, i) == Collect(d, i, <<>>)

_decode_frame16(f, id) ==
    LET slot(s, j) ==
            LET b == f[j + 1]
                change == j % 2 = 0 /\ Odd(b)
                byte == IF j % 2 = 0 THEN b + Bits(f[16], j \div 2, 1) ELSE b
            IN  IF change THEN [s EXCEPT !.id = b \div 2]
                ELSE [s EXCEPT !.out = Append(@, [id |-> s.id, byte |-> byte, slot |-> j])]
    IN  FoldLeft(slot, [id |-> id, out |-> <<>>], [k \in 1 .. 15 |-> k - 1])

FrameAt(d, slots) == [k \in 1 .. 16 |-> At(d, slots[k])]

\* The bytes of a frame, each with the offset it was taken from.
Located(out, slots) ==
    [k \in DOMAIN out |-> [id |-> out[k].id, byte |-> out[k].byte, off |-> slots[out[k].slot + 1]]]

\* At most n frames from offset i, the stream being id: what they hold.
RECURSIVE Frames(_, _, _, _)
Frames(d, i, id, n) ==
    LET Rest(r, nf) == Located(r.out, nf.slots) \o Frames(d, nf.next, r.id, n - 1)
        First(nf) == IF Len(nf.slots) < 16 THEN <<>>
                     ELSE Rest(_decode_frame16(FrameAt(d, nf.slots), id), nf)
    IN  IF n = 0 THEN <<>> ELSE First(_next_frame(d, i))

tpiu_deframe_hsync(d, phase, want) == Bytes(Wanted(Frames(d, phase, 0, Len(d)), want))

\* The first of the 16 phases that shows the most flash I-syncs.
find_tpiu_phase(d) ==
    LET Best(scores) == Min({x[2] : x \in {y \in scores : \A z \in scores : z[1] <= y[1]}})
    IN  Best({<<Len(find_isyncs(tpiu_deframe_hsync(d, ph, ANY))), ph>> : ph \in 0 .. 15})

tpiu_deframe_local(d, want, window) ==
    LET segment(k) == SubSeq(d, k * window + 1, Min({(k + 1) * window, Len(d)}))
        used == {k \in 0 .. Len(d) \div window : \A j \in 0 .. k : Len(segment(j)) >= 32}
    IN  IF Len(d) < 32 THEN tpiu_deframe_hsync(d, find_tpiu_phase(d), want)
        ELSE FlattenSeq([k \in 1 .. Cardinality(used) |->
               tpiu_deframe_hsync(segment(k - 1), find_tpiu_phase(segment(k - 1)), want)])

(***************************************************************************)
(* The walk that looks ahead and jumps when too much is unknown.           *)
(***************************************************************************)
Fraction(b) == IF b = <<>> THEN [u |-> 1, n |-> 1]
               ELSE [u |-> Cardinality({k \in DOMAIN b : _classify(b[k]) = "unknown"}), n |-> Len(b)]
Less(f, g) == f.u * g.n < g.u * f.n
Percent(p) == [u |-> p, n |-> 100]
quality_ahead(d, i) == Fraction(Bytes(Frames(d, i, 0, check_frames)))

\* Where to go on from i: the first offset with at most 2 % unknown, else the first of
\* the best ones, if it beats staying.
Choice(ahead, i, frac) ==
    LET Or(clean, better) == IF clean # {} THEN Min({x.off : x \in clean})
                             ELSE IF better # {} THEN Min({x.off : x \in better}) ELSE i
    IN  Or({x \in ahead : ~Less(Percent(2), x.q)},
           {x \in ahead : Less(x.q, frac) /\ \A y \in ahead : ~Less(y.q, x.q)})
Relock(d, i, frac) ==
    Choice({[off |-> i + o, q |-> quality_ahead(d, i + o)] : o \in {k \in 1 .. scan - 1 : i + k < Len(d)}},
           i, frac)

Threshold(d, phase) ==
    IF Len(d) >= LongStream /\ Less(Percent(2), Fraction(tpiu_deframe_hsync(d, phase, ANY)))
    THEN Percent(5) ELSE Percent(30)

RECURSIVE Walk(_, _, _, _)
Walk(d, i, id, thresh) ==
    LET Start(frac) == IF Less(thresh, frac) THEN Relock(d, i, frac) ELSE i
        Rest(r, nf) == Located(r.out, nf.slots) \o Walk(d, nf.next, r.id, thresh)
        First(nf) == IF Len(nf.slots) < 16 THEN <<>>
                     ELSE Rest(_decode_frame16(FrameAt(d, nf.slots), id), nf)
    IN  IF i >= Len(d) THEN <<>> ELSE First(_next_frame(d, Start(quality_ahead(d, i))))

tpiu_deframe_walk_offsets(d, want) ==
    LET Spread(out) == [k \in DOMAIN out |->
                          [byte |-> out[k], off |-> Min({Len(d) - 1, ((k - 1) * Len(d)) \div Len(out)})]]
    IN  IF Len(d) < 32 THEN Spread(tpiu_deframe_hsync(d, find_tpiu_phase(d), want))
        ELSE Wanted(Walk(d, find_tpiu_phase(d), 0, Percent(30)), want)

tpiu_deframe_walk(d, want) ==
    LET Along(ph) == Walk(d, ph, 0, Threshold(d, ph))
    IN  IF Len(d) < 32 THEN tpiu_deframe_hsync(d, find_tpiu_phase(d), want)
        ELSE Bytes(Wanted(Along(find_tpiu_phase(d)), want))

(***************************************************************************)
(* The formatter of the target.                                            *)
(***************************************************************************)
\* One frame: pair `change` (8: none) changes to stream id, at once or delayed, every
\* other byte is the next one of the stream that is current.
Format(change, id, delayed) ==
    LET next(s, x) == Source[x][(Len(s.carried[x]) % Len(Source[x])) + 1]
        put(s, x) == [s EXCEPT !.carried[x] = Append(@, next(s, x))]
        pair(s, p) ==
            LET c == p = change
                low == IF c THEN (IF delayed THEN 1 ELSE 0) ELSE next(s, s.id) % 2
                e == IF c THEN 2 * id + 1 ELSE next(s, s.id) - low
                t == IF c THEN [s EXCEPT !.id = IF delayed THEN s.id ELSE id] ELSE put(s, s.id)
                u == IF p = 7 THEN t ELSE put(t, t.id)
                odd == IF p = 7 THEN <<>> ELSE <<next(t, t.id)>>
            IN  [u EXCEPT !.bytes = @ \o <<e>> \o odd, !.aux = @ + low * 2^p,
                          !.id = IF c THEN id ELSE @]
        r == FoldLeft(pair, [id |-> cur, carried |-> carried, bytes |-> <<>>, aux |-> 0],
                      <<0, 1, 2, 3, 4, 5, 6, 7>>)
    IN  [r EXCEPT !.bytes = Append(@, r.aux)]

SendFrame ==
    /\ frames < MaxFrames
    /\ \E change \in Changes \cup {8}, id \in IDs, delayed \in {FALSE} \cup {DelayedToo},
          full \in BOOLEAN, half \in Fillers \cup {8}, missed \in {0} \cup (IF frames = 0 THEN Missed ELSE {}) :
        LET f == Format(change, id, delayed)
            bytes == (IF full THEN FSYNC ELSE <<>>)
                     \o (IF half = 8 THEN f.bytes
                         ELSE SubSeq(f.bytes, 1, 2 * half) \o HSYNC \o SubSeq(f.bytes, 2 * half + 1, 16))
        IN  /\ change = 8 => id = Min(IDs) /\ ~delayed
            /\ captured' = captured \o SubSeq(bytes, missed + 1, Len(bytes))
            /\ carried' = f.carried
            /\ cur' = f.id
            /\ frames' = frames + 1
            /\ marks' = [missed |-> marks.missed \/ missed # 0, delayed |-> marks.delayed \/ delayed]

DeframeInit == captured = <<>> /\ carried = [id \in IDs \cup {0} |-> <<>>] /\ cur = 0 /\ frames = 0
         /\ marks = [missed |-> FALSE, delayed |-> FALSE]
DeframeSpec == DeframeInit /\ [][SendFrame]_deframeVars

(***************************************************************************)
(* Properties.                                                             *)
(***************************************************************************)
Streams == IDs \ {0}

\* Each deframer that syncs gives, for every stream, bytes the target sent on it and all
\* of them from some point on; everything when the capture begins with a full sync.  An
\* ID change takes effect where the formatter meant it, and the low bits come back.
DeframeRight == \A id \in Streams : \A out \in {tpiu_deframe(captured, id), official_deframe(captured, id)} :
    /\ Ends(carried[id], out)
    /\ Starts(captured, 0, FSYNC) => out = carried[id]

\* Without a full sync, from the right phase and with no delayed change, the same; also
\* window by window when the phase found is the right one.
HsyncRight == (~marks.missed /\ ~marks.delayed) =>
    /\ \A id \in Streams : tpiu_deframe_hsync(captured, 0, id) = carried[id]
    /\ find_tpiu_phase(captured) = 0 =>
          \A id \in Streams : tpiu_deframe_local(captured, id, Len(captured)) = carried[id]

\* The walk and the walk with offsets agree below the length at which the first adapts
\* its threshold; the offsets rise, and each byte is the captured one but for bit 0.
WalkOffsetsRight == ~marks.delayed =>
    LET Right(w) ==
          /\ Len(captured) < LongStream => Bytes(w) = tpiu_deframe_walk(captured, ANY)
          /\ Len(captured) >= 32 => \A k \in DOMAIN w :
               /\ k > 1 => w[k - 1].off < w[k].off
               /\ Bits(At(captured, w[k].off), 1, 7) = Bits(w[k].byte, 1, 7)
    IN  Right(tpiu_deframe_walk_offsets(captured, ANY))

\* The streams come back by each of the ways.
StreamsRight == DeframeRight /\ HsyncRight /\ WalkOffsetsRight
=============================================================================
