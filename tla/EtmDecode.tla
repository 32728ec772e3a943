------------------------------ MODULE EtmDecode ------------------------------
(* The offline decoder of the target's ETM stream (etm35lib.py): the packets   *)
(* a target emits are encoded byte by byte into `data`, and the functions of   *)
(* the library are applied to what was captured.  Bytes are the integers they  *)
(* are, offsets count from 0 as in the code, and an address is a number: only  *)
(* its low byte and its low two limbs of seven bits vary in an instance.       *)
EXTENDS Integers, Sequences, FiniteSets, SequencesExt, FiniteSetsExt

CONSTANTS
    Addresses,      \* where the target may execute: flash addresses, bit 0 clear
    AtomLists,      \* runs of executed (E) and skipped (N) instructions one P-header holds
    Others,         \* one-byte packets that carry no flow (trigger, ignore, ...)
    Slips,          \* bits a capture glitch may shift the rest of the stream by
    MaxPackets      \* bound on the packets of a stream

VARIABLES
    data,           \* the bytes the target emitted
    sent,           \* what they mean: packets with the offset of their first byte
    slip            \* [at, bits]: every byte from offset `at` on is captured `bits` late

etmVars == <<data, sent, slip>>

FLASH_LO == 134217728       \* 0x08000000
FLASH_HI == 135266304       \* 0x08100000, a multiple of 2^16
ISYNC_HEADER == 8

At(d, i) == d[i + 1]                                \* data[i]
From(d, i) == SubSeq(d, i + 1, Len(d))              \* data[i:]
Bits(c, lo, n) == (c \div 2^lo) % 2^n               \* n bits of c from bit lo up
Odd(c) == c % 2 = 1

(***************************************************************************)
(* Anchors: A-syncs and I-syncs.                                           *)
(***************************************************************************)
Zeros(d, i) == LET nz == {j \in 0 .. i - 1 : At(d, j) # 0}
               IN  IF nz = {} THEN i ELSE i - 1 - Max(nz)

find_asyncs(d) == SelectSeq([k \in 1 .. Len(d) |-> k - 1],
                            LAMBDA i : At(d, i) = 128 /\ Zeros(d, i) >= 5)

\* b: 4 bytes, low first.
is_flash(b) == b[3] + 256 * b[4] \in FLASH_LO \div 2^16 .. FLASH_HI \div 2^16 - 1
Address(b) == b[1] - (b[1] % 2) + 256 * (b[2] + 256 * (b[3] + 256 * b[4]))

\* Whether the six bytes at i are a Normal I-sync with a flash address: bit 7 of
\* the info byte (LSiP), bit 4 (Jazelle) and bit 2 (AltISA) must be clear.
IsISync(d, i) ==
    /\ i + 5 < Len(d)
    /\ At(d, i) = ISYNC_HEADER
    /\ LET info == At(d, i + 1)
       IN  Bits(info, 7, 1) = 0 /\ Bits(info, 4, 1) = 0 /\ Bits(info, 2, 1) = 0
    /\ is_flash(SubSeq(d, i + 3, i + 6))
parse_isync_at(d, i) == Address(SubSeq(d, i + 3, i + 6))

find_isyncs(d) == SelectSeq([k \in 1 .. Len(d) |-> k - 1], LAMBDA i : IsISync(d, i))
recover_pcs(d) == {parse_isync_at(d, i) : i \in ToSet(find_isyncs(d))}

(***************************************************************************)
(* P-headers and branch packets.                                           *)
(***************************************************************************)
Format1(c) == Bits(c, 7, 1) = 1 /\ Bits(c, 0, 2) = 0
Format2(c) == Bits(c, 4, 4) = 8 /\ Bits(c, 0, 2) = 2
IsPheader(c) == Format1(c) \/ Format2(c)

_phdr_atoms(c) ==
    IF Format1(c) THEN [e |-> Bits(c, 2, 4), n |-> Bits(c, 6, 1)]
    ELSE LET e == (1 - Bits(c, 2, 1)) + (1 - Bits(c, 3, 1)) IN [e |-> e, n |-> 2 - e]

Repeat(x, n) == [k \in 1 .. n |-> x]
expand_pheader(c) ==
    IF Format1(c) THEN Repeat("E", Bits(c, 2, 4)) \o Repeat("N", Bits(c, 6, 1))
    ELSE [k \in 1 .. 2 |-> IF Bits(c, 4 - k, 1) = 0 THEN "E" ELSE "N"]

\* Mutant: a branch packet is taken to have at most four bytes.
BranchLenFour(d, i, end) ==
    Min({n \in 1 .. 4 : n = 4 \/ i + n >= end \/ At(d, i + n - 1) < 128})

\* Bytes of a branch packet at i that end before `end`: continuation is bit 7,
\* five bytes at most.
BranchLen(d, i, end) ==
    Min({n \in 1 .. 5 : n = 5 \/ i + n >= end \/ At(d, i + n - 1) < 128})

\* Limb k of an address: bits [7k+6 : 7k], the last one bits [31:28].
Limb(a, k) == Bits(a, 7 * k, 7)
SetLimb(a, k, v) == a - Limb(a, k) * 2^(7 * k) + v * 2^(7 * k)

decode_branch_thumb(d, i, prev) ==
    LET n == BranchLen(d, i, Len(d))
        low == SetLimb(prev, 0, Bits(At(d, i), 0, 7) - 1)
    IN  [addr |-> FoldLeft(LAMBDA a, k : SetLimb(a, k, Bits(At(d, i + k), 0, IF k < 4 THEN 7 ELSE 4)),
                           low, [k \in 1 .. n - 1 |-> k]),
         n |-> n]

(***************************************************************************)
(* Walking the packets after an anchor.                                    *)
(***************************************************************************)
Event(kind, addr, c) ==
    [kind |-> kind, addr |-> addr,
     atoms |-> IF kind = "atoms" THEN _phdr_atoms(c) ELSE [e |-> 0, n |-> 0]]

RECURSIVE decode_region(_, _, _)
decode_region(d, i, base) ==
    LET c == At(d, i)
    IN  IF i >= Len(d) THEN <<>>
        ELSE IF Odd(c)
          THEN <<Event("branch", base, c)>> \o decode_region(d, i + BranchLen(d, i, Len(d)), base)
        ELSE IF IsPheader(c)
          THEN <<Event("atoms", base, c)>> \o decode_region(d, i + 1, base)
        ELSE IF IsISync(d, i)
          THEN LET a == parse_isync_at(d, i)
               IN  <<Event("isync", a, c)>> \o decode_region(d, i + 6, a)
        ELSE <<>>                       \* an A-sync, or a byte it cannot classify

Anchored(d, i) ==
    LET a == parse_isync_at(d, i) IN <<Event("isync", a, 0)>> \o decode_region(d, i + 6, a)

decode_all(d) == FlattenSeq([k \in 1 .. Len(find_isyncs(d)) |-> Anchored(d, find_isyncs(d)[k])])

(***************************************************************************)
(* Realignment by bits.                                                    *)
(***************************************************************************)
bit_shift(d, s) ==
    IF s = 0 THEN d
    ELSE [k \in 1 .. Len(d) - 1 |-> Bits(d[k], s, 8 - s) + Bits(d[k + 1], 0, s) * 2^(8 - s)]

_find_isync_in_window(w, max_scan) ==
    {i \in 0 .. Min({Len(w) - 5, max_scan}) - 1 : IsISync(w, i)}

\* For each A-sync the first shift of what follows that shows an I-sync.
decode_aligned(d) ==
    LET tail(a) == From(d, a + 1)
        hits(a, s) == _find_isync_in_window(bit_shift(tail(a), s), 24)
        shifts(a) == {s \in 0 .. 7 : hits(a, s) # {}}
        found == SelectSeq(find_asyncs(d), LAMBDA a : shifts(a) # {})
        region(a) == LET s == Min(shifts(a))
                     IN  [async |-> a, shift |-> s,
                          events |-> Anchored(bit_shift(tail(a), s), Min(hits(a, s)))]
    IN  [k \in 1 .. Len(found) |-> region(found[k])]

aligned_pcs(d) == {e.addr : e \in {x \in UNION {ToSet(r.events) : r \in ToSet(decode_aligned(d))} :
                                       x.kind = "isync"}}

_classify(c) ==
    CASE Odd(c) -> "branch"
      [] c = 0 -> "async"
      [] c \in {4, 66, 70} -> "counted"             \* cycle count, timestamp: continued by bit 7
      [] c = ISYNC_HEADER -> "isync"
      [] c \in {12, 60, 102, 110, 118, 126, 112} -> "other"
      [] Bits(c, 7, 1) = 1 -> "pheader"
      [] OTHER -> "unknown"

\* Offset after the continuation bytes of a packet whose header is at i.  The code
\* looks at bit 7 of the byte before, which for the first one is the header itself.
Continued(d, i, end) == Min({j \in i + 1 .. end : j = end \/ At(d, j - 1) < 128})

\* How many of the first six headers look like packets.
RECURSIVE _classifiable_run(_, _, _)
_classifiable_run(d, i, good) ==
    LET k == _classify(At(d, i))
        next == CASE k \in {"branch", "counted"} ->
                       LET stop == Min({Len(d), 6}) IN IF i + 1 >= stop THEN i + 1 ELSE Continued(d, i, stop)
                  [] k = "isync" -> i + 6
                  [] OTHER -> i + 1
    IN  IF i >= Len(d) \/ good = 6 THEN good
        ELSE IF k = "unknown" THEN good
        ELSE _classifiable_run(d, next, good + 1)

BestShift(rest) ==
    LET run(s) == _classifiable_run(bit_shift(rest, s), 0, 0)
        good == {s \in 1 .. 7 : run(s) >= 3}
        best == {s \in good : \A t \in good : run(t) <= run(s)}
    IN  IF good = {} THEN 0 ELSE Min(best)

\* 0x70 (an I-sync with a cycle count) is classified but handled by no branch
\* of the walk, so it falls through to the realignment as an unknown byte does.
RECURSIVE decode_region_realign(_, _, _)
decode_region_realign(d, i, base) ==
    LET c == At(d, i)
        k == _classify(c)
        s == BestShift(From(d, i))
    IN  IF i >= Len(d) \/ k = "async" THEN <<>>
        ELSE IF k = "branch"
          THEN <<Event("branch", base, c)>> \o decode_region_realign(d, i + BranchLen(d, i, Len(d)), base)
        ELSE IF k = "pheader"
          THEN (IF IsPheader(c) THEN <<Event("atoms", base, c)>> ELSE <<>>)
               \o decode_region_realign(d, i + 1, base)
        ELSE IF IsISync(d, i)
          THEN LET a == parse_isync_at(d, i)
               IN  <<Event("isync", a, c)>> \o decode_region_realign(d, i + 6, a)
        ELSE IF k = "other" /\ c # 112 THEN decode_region_realign(d, i + 1, base)
        ELSE IF k = "counted"
          THEN decode_region_realign(d, Continued(d, i, Len(d)), base)
        ELSE IF s = 0 THEN <<>>
        ELSE decode_region_realign(bit_shift(From(d, i), s), 0, base)

AnchoredRealign(d, i) ==
    LET a == parse_isync_at(d, i) IN <<Event("isync", a, 0)>> \o decode_region_realign(d, i + 6, a)

decode_all_realign(d) ==
    FlattenSeq([k \in 1 .. Len(find_isyncs(d)) |-> AnchoredRealign(d, find_isyncs(d)[k])])

(***************************************************************************)
(* The target: one packet after the other.                                 *)
(***************************************************************************)
Emit(kind, bytes, addr, atoms) ==
    /\ Len(sent) < MaxPackets
    /\ data' = data \o bytes
    /\ sent' = Append(sent, [kind |-> kind, off |-> Len(data), len |-> Len(bytes),
                             addr |-> addr, atoms |-> atoms])
    /\ UNCHANGED slip

\* Address of the last I-sync or branch: what a branch packet is relative to.
Placed == SelectSeq(sent, LAMBDA p : p.kind \in {"isync", "branch"})
Prev == Placed[Len(Placed)].addr

EmitAsync == Emit("async", <<0, 0, 0, 0, 0, 128>>, 0, <<>>)
EmitISync == \E a \in Addresses, reason \in {0, 1} :
    Emit("isync", <<ISYNC_HEADER, 32 * reason>> \o [k \in 1 .. 4 |-> Bits(a, 8 * (k - 1), 8)], a, <<>>)

AtomByte1(l) == 128 + 4 * Cardinality({k \in DOMAIN l : l[k] = "E"}) + (IF Last(l) = "N" THEN 64 ELSE 0)
AtomByte2(l) == 130 + (IF l[1] = "N" THEN 8 ELSE 0) + (IF l[2] = "N" THEN 4 ELSE 0)
EmitAtoms == \E l \in AtomLists :
    \/ /\ \A k \in 1 .. Len(l) - 1 : l[k] = "E"
       /\ Emit("atoms", <<AtomByte1(l)>>, 0, l)
    \/ /\ Len(l) = 2
       /\ Emit("atoms", <<AtomByte2(l)>>, 0, l)

\* Only the limbs up to the highest that changed need be sent.
BranchBytes(a, n) ==
    [k \in 1 .. n |-> (IF k = 1 THEN Limb(a, 0) + 1 ELSE Bits(a, 7 * (k - 1), IF k < 5 THEN 7 ELSE 3))
                      + (IF k < n THEN 128 ELSE 0)]
EmitBranch ==
    /\ Placed # <<>>
    /\ \E a \in Addresses, n \in 1 .. 5 :
        /\ \A k \in n .. 4 : Bits(a, 7 * k, 7) = Bits(Prev, 7 * k, 7)
        /\ Emit("branch", BranchBytes(a, n), a, <<>>)

EmitOther == \E c \in Others : Emit("other", <<c>>, 0, <<>>)
EmitCycleCount == Emit("counted", <<4, 129, 2>>, 0, <<>>)

\* A glitch of the capture: from here on every byte is some bits late.
Glitch ==
    /\ slip.bits = 0
    /\ sent # <<>> /\ Last(sent).kind = "async"
    /\ \E b \in Slips : slip' = [at |-> Len(data), bits |-> b]
    /\ UNCHANGED <<data, sent>>

Captured ==
    LET t == From(data, slip.at)
        byte(j) == IF j \in DOMAIN t THEN t[j] ELSE 0
    IN  IF slip.bits = 0 THEN data
        ELSE SubSeq(data, 1, slip.at)
             \o [j \in 1 .. Len(t) + 1 |-> Bits(byte(j), 0, 8 - slip.bits) * 2^slip.bits
                                          + Bits(byte(j - 1), 8 - slip.bits, slip.bits)]

EtmInit == data = <<>> /\ sent = <<>> /\ slip = [at |-> 0, bits |-> 0]
EtmNext == EmitAsync \/ EmitISync \/ EmitAtoms \/ EmitBranch \/ EmitOther \/ EmitCycleCount \/ Glitch
EtmSpec == EtmInit /\ [][EtmNext]_etmVars

(***************************************************************************)
(* Properties.                                                             *)
(***************************************************************************)
Indices(kind) == {k \in DOMAIN sent : sent[k].kind = kind}
CountOf(l, x) == Cardinality({k \in DOMAIN l : l[k] = x})

\* The events the packets after the k-th stand for, up to the first of a kind in
\* `stops`; packets that carry no flow leave none.
FlowAfter(k, stops) ==
    LET end == Min({j \in k + 1 .. Len(sent) + 1 : j = Len(sent) + 1 \/ sent[j].kind \in stops})
        base(j) == sent[Max({i \in k .. j : sent[i].kind = "isync"})].addr
        event(j) == [kind |-> sent[j].kind, addr |-> base(j),
                     atoms |-> [e |-> CountOf(sent[j].atoms, "E"), n |-> CountOf(sent[j].atoms, "N")]]
        flow == SelectSeq([j \in 1 .. end - k - 1 |-> j + k],
                          LAMBDA j : sent[j].kind \in {"isync", "atoms", "branch"})
    IN  [j \in 1 .. Len(flow) |-> event(flow[j])]

\* Each I-sync the target sent is an anchor, with the flow up to the first packet of
\* a kind in `stops` after it.
Whole(events, stops) ==
    \A k \in Indices("isync") :
        LET part == <<Event("isync", sent[k].addr, 0)>> \o FlowAfter(k, stops)
        IN  \E p \in DOMAIN events : SubSeq(events, p, p + Len(part) - 1) = part

\* In an aligned capture the walk from an I-sync gives exactly the instructions the
\* target traced after it, up to the first packet the walk cannot classify, with the
\* atoms and the branch targets of each packet read as the target meant them; and a
\* capture cut off inside a packet gives a prefix of that.  The realigning walk gives the
\* same and goes on over the packets that carry no flow (decode_region, _phdr_atoms,
\* expand_pheader, decode_branch_thumb, decode_region_realign).
WalkRight == slip.bits = 0 =>
    /\ Whole(decode_all(data), {"async", "other", "counted"})
    /\ \A k \in Indices("isync") :
        LET p == sent[k]
            flow == FlowAfter(k, {"async", "other", "counted"})
        IN  /\ p.addr \in recover_pcs(data)
            /\ \A cut \in 1 .. Min({3, Len(data) - p.off - 6}) :
                  IsPrefix(decode_region(SubSeq(data, 1, Len(data) - cut), p.off + 6, p.addr), flow)
    /\ \A k \in Indices("atoms") : expand_pheader(At(data, sent[k].off)) = sent[k].atoms
    /\ \A k \in Indices("branch") :
        LET before == {j \in 1 .. k - 1 : sent[j].kind \in {"isync", "branch"}}
        IN  decode_branch_thumb(data, sent[k].off, sent[Max(before)].addr)
              = [addr |-> sent[k].addr, n |-> sent[k].len]
    /\ Indices("counted") = {} => Whole(decode_all_realign(data), {"async"})

\* When the capture slips some bits after an A-sync, the first I-sync that follows is
\* found, at the right shift, with its address and the flow after it (decode_aligned).
Realigned ==
    LET k == CHOOSE j \in DOMAIN sent : sent[j].off = slip.at
    IN  (slip.bits # 0 /\ \E j \in DOMAIN sent : sent[j].off = slip.at /\ sent[j].kind = "isync") =>
          \E r \in ToSet(decode_aligned(Captured)) :
            /\ r.async = slip.at - 1 /\ r.shift = slip.bits
            /\ r.events[1].addr = sent[k].addr
            /\ Tail(r.events) = FlowAfter(k, {"async", "other", "counted"})
            /\ sent[k].addr \in aligned_pcs(Captured)

\* The instruction flow comes back from an aligned capture and from one that slipped.
FlowRight == WalkRight /\ Realigned

=============================================================================
