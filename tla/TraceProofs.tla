---------------------------- MODULE TraceProofs ----------------------------
(***************************************************************************)
(* Proofs about the trace path: TPIUSync hands out the frames of the port   *)
(* and nothing else (SyncIsRight), and so does traceIF, from its pins       *)
(* (PinsAreRight); TPIUDemux sends every byte of a frame under its channel   *)
(* (DemuxIsRight); and a host that undoes COBS gets the packets back, in     *)
(* superframes that end with one (FlowIsRight).                            *)
(*                                                                         *)
(* While TPIUSync is in sync, what it has shifted in is what the port has    *)
(* sent of its frame and, behind it, of a sync; before, only the end of what *)
(* was shifted in is known, while a full sync is sent.                      *)
(*                                                                         *)
(* While traceIF is in sync, the words are cut at the port's edge and place, *)
(* its last elements are those of the item that is being sent, and cFrame    *)
(* has the words of the frame before it.                                     *)
(*                                                                         *)
(* While a frame is before the demultiplexer, TrackStream has the channel of *)
(* the byte that is next, or has seen the ID that is next already; what the  *)
(* frame has still to yield are its bytes from there on; and the Packetizer  *)
(* keeps one byte back, of the packet its reader is in.                      *)
(*                                                                         *)
(* What the host has still to receive is laid out, in order, in what         *)
(* SuperFramer holds back, what is left of the group being sent, the groups  *)
(* whose lengths are in the FIFO, the group that is open, and what closes    *)
(* the packet; the bytes of the groups are those in the FIFO of data, and    *)
(* behind each group stands what its code byte makes the decoder add.        *)
(***************************************************************************)
EXTENDS TpiuSync, TraceIF, TpiuDemux, OrbFlow, ModFacts, SequenceTheorems, TLAPS

Bytes == Others \cup {"ff", "7f"}

Rests == {<< >>, <<"7f">>, <<"ff", "7f">>, <<"ff", "ff", "7f">>}

\* Sequence s ends with n bytes ff.
EndsFf(s, n) == Len(s) >= n /\ \A i \in Len(s) - n + 1 .. Len(s) : s[i] = "ff"

\* How much of the sync that is being sent was sent.
Sent(p) == IF p.rest = << >> THEN 0 ELSE Len(p.sync) - Len(p.rest)

-----------------------------------------------------------------------------
\* The port: where it may be in a frame and in a sync, and which bytes it sent.
PortOK ==
  /\ port \in [frame : Seq(Bytes), sync : {<< >>, HalfSync, FullSync}, rest : Rests]
  /\ Len(port.frame) < FrameBytes
  /\ port.rest # << >> =>
       /\ Len(port.frame) % 2 = 0 /\ port.sync # << >>
       /\ Len(port.rest) < Len(port.sync)
       /\ port.sync = FullSync => port.frame = << >>
  /\ \A i \in 1 .. Len(port.frame) :
       i % 2 = 1 =>
         /\ port.frame[i] # "ff"
         /\ i > 1 /\ port.frame[i] = "7f" => port.frame[i - 1] # "ff"

BufOK == buf \in Seq(Bytes) /\ Len(buf) <= FrameBytes /\ synced \in BOOLEAN

TrackOK ==
  track \in [in_sync : BOOLEAN, whole : BOOLEAN, due : Seq(Bytes), since : Nat]

\* What was shifted in is what was sent of the frame, and of a sync.
Follows(s, p) ==
  /\ Len(s) = Len(p.frame) + Sent(p)
  /\ \A i \in 1 .. Len(p.frame) : s[i] = p.frame[i]
  /\ \A i \in Len(p.frame) + 1 .. Len(s) : s[i] = "ff"

InSyncInv ==
  /\ track.in_sync => synced
  /\ track.in_sync /\ track.due = << >> => Follows(buf, port)
  /\ track.in_sync /\ track.due # << >> => port.frame = << >> /\ port.rest = << >>

DueInv == track.due # << >> => synced /\ buf = track.due /\ Len(buf) = FrameBytes

WholeInv ==
  track.whole /\ port.rest # << >> /\ port.sync = FullSync => EndsFf(buf, Sent(port))

SinceInv == synced => track.since > Len(buf) \/ track.since > FrameBytes

SyncInv == PortOK /\ BufOK /\ TrackOK /\ InSyncInv /\ DueInv /\ WholeInv /\ SinceInv

-----------------------------------------------------------------------------
\* The suffixes TPIUSync and the port look for, by their bytes.
LEMMA HalfSuffix ==
  ASSUME NEW s \in Seq(Bytes), NEW b \in Bytes
  PROVE  IsSuffix(HalfSync, s \o <<b>>) <=> b = "7f" /\ EndsFf(s, 1)
  BY DEF IsSuffix, IsPrefix, Reverse, HalfSync, EndsFf, Bytes

LEMMA FullSuffix ==
  ASSUME NEW s \in Seq(Bytes), NEW b \in Bytes
  PROVE  IsSuffix(FullSync, s \o <<b>>) <=> b = "7f" /\ EndsFf(s, 3)
  BY SMTT(30) DEF IsSuffix, IsPrefix, Reverse, FullSync, EndsFf, Bytes

LEMMA FfSuffix ==
  ASSUME NEW s \in Seq(Bytes)
  PROVE  IsSuffix(<<"ff">>, s) <=> EndsFf(s, 1)
  BY DEF IsSuffix, IsPrefix, Reverse, EndsFf, Bytes

\* What is left of a sequence without its last byte.
LEMMA FrontIs ==
  ASSUME NEW s \in Seq(Bytes), Len(s) > 0
  PROVE  /\ Front(s) \in Seq(Bytes) /\ Len(Front(s)) = Len(s) - 1
         /\ \A i \in 1 .. Len(s) - 1 : Front(s)[i] = s[i]
<1>1. \A i \in 1 .. Len(s) - 1 : s[i] \in Bytes
  OBVIOUS
<1> DEFINE n == Len(s) - 1
<1>2. n \in Nat /\ (1 <= n \/ n = 0)
  <2>1. \A k \in Nat : k > 0 => k - 1 \in Nat /\ (1 <= k - 1 \/ k - 1 = 0)
    OBVIOUS
  <2>2. Len(s) \in Nat
    OBVIOUS
  <2> QED
    BY <2>1, <2>2
<1>3. \A i \in 1 .. n : s[i] \in Bytes
  BY <1>1
<1> HIDE DEF n
<1>4. /\ SubSeq(s, 1, n) \in Seq(Bytes)
      /\ Len(SubSeq(s, 1, n)) = IF 1 <= n THEN n - 1 + 1 ELSE 0
      /\ \A i \in 1 .. n - 1 + 1 : SubSeq(s, 1, n)[i] = s[1 + i - 1]
  BY <1>2, <1>3, SubSeqProperties
<1> QED
  BY <1>2, <1>4 DEF Front, n
\* What a byte makes of what was shifted in.
LEMMA TakeIs ==
  ASSUME BufOK, NEW b \in Bytes
  PROVE  /\ b = "7f" /\ EndsFf(buf, 3) => Take(<<b>>) = << >>
         /\ b = "7f" /\ ~EndsFf(buf, 3) /\ EndsFf(buf, 1) => Take(<<b>>) = Front(buf)
         /\ ~(b = "7f" /\ EndsFf(buf, 1)) => Take(<<b>>) = Shift(b)
<1>1. EndsFf(buf, 3) => EndsFf(buf, 1)
  BY DEF EndsFf, BufOK
<1>2. <<b>>[1] = b
  OBVIOUS
<1> QED
  BY <1>1, <1>2, HalfSuffix, FullSuffix DEF Take, BufOK

LEMMA ShiftIs ==
  ASSUME BufOK, NEW b \in Bytes
  PROVE  /\ Shift(b) \in Seq(Bytes) /\ Len(Shift(b)) <= FrameBytes
         /\ Len(Shift(b)) <= Len(buf) + 1
         /\ Len(buf) < FrameBytes => Shift(b) = Append(buf, b)
         /\ \A n \in 0 .. 2 : b = "ff" /\ EndsFf(buf, n) => EndsFf(Shift(b), n + 1)
<1>1. FrameBytes \in Nat /\ FrameBytes > 3
  BY SyncAssumption
<1>2. CASE Len(buf) < FrameBytes
  <2>1. Shift(b) = Append(buf, b)
    BY <1>2 DEF Shift
  <2>2. \A n \in 0 .. 2 : b = "ff" /\ EndsFf(buf, n) => EndsFf(Append(buf, b), n + 1)
    BY <1>1, <1>2 DEF EndsFf, BufOK
  <2> QED
    BY <1>1, <1>2, <2>1, <2>2 DEF BufOK
<1>3. CASE Len(buf) = FrameBytes
  <2> DEFINE s == Append(Tail(buf), b)
  <2>1. Shift(b) = s
    BY <1>3 DEF Shift
  <2>2. s \in Seq(Bytes) /\ Len(s) = Len(buf) /\ s[Len(s)] = b
        /\ \A i \in 1 .. Len(s) - 1 : s[i] = buf[i + 1]
    BY <1>1, <1>3 DEF BufOK
  <2> HIDE DEF s
  <2>3. \A n \in 0 .. 2 : b = "ff" /\ EndsFf(buf, n) => EndsFf(s, n + 1)
    BY <1>1, <1>3, <2>2 DEF EndsFf, BufOK
  <2> QED
    BY <1>1, <1>3, <2>1, <2>2, <2>3 DEF BufOK
<1> QED
  BY <1>1, <1>2, <1>3 DEF BufOK

\* A byte leaves the buffer a sequence of no more bytes than a frame, and one more at most.
LEMMA TakeKeeps ==
  ASSUME BufOK, NEW b \in Bytes
  PROVE  /\ Take(<<b>>) \in Seq(Bytes) /\ Len(Take(<<b>>)) <= FrameBytes
         /\ Len(Take(<<b>>)) <= Len(buf) + 1
<1>1. FrameBytes \in Nat
  BY SyncAssumption
<1>2. CASE b = "7f" /\ EndsFf(buf, 3)
  <2>1. Take(<<b>>) = << >>
    BY <1>2, TakeIs
  <2>2. << >> \in Seq(Bytes) /\ Len(<< >>) = 0
    OBVIOUS
  <2>3. Len(buf) \in Nat
    BY DEF BufOK
  <2> QED
    BY <1>1, <2>1, <2>2, <2>3
<1>3. CASE b = "7f" /\ ~EndsFf(buf, 3) /\ EndsFf(buf, 1)
  <2>1. Front(buf) \in Seq(Bytes) /\ Len(Front(buf)) = Len(buf) - 1
    BY <1>3, FrontIs DEF EndsFf, BufOK
  <2>2. Take(<<b>>) = Front(buf)
    BY <1>3, TakeIs
  <2> QED
    BY <1>1, <2>1, <2>2 DEF BufOK
<1>4. CASE ~(b = "7f" /\ EndsFf(buf, 1))
  BY <1>4, TakeIs, ShiftIs
<1> QED
  BY <1>2, <1>3, <1>4

-----------------------------------------------------------------------------
\* The three things a port may do, and that it stays where a port may be.
PortWhole == port' = [frame |-> port'.frame, sync |-> port'.sync, rest |-> port'.rest]

InSyncBytes(b) ==
  /\ PortWhole
  /\ port.rest # << >> /\ b = Head(port.rest)
  /\ port'.frame = port.frame /\ port'.sync = port.sync /\ port'.rest = Tail(port.rest)

StartsSync(b) ==
  /\ PortWhole
  /\ port.rest = << >> /\ EvenPlace /\ b = "ff"
  /\ port'.frame = port.frame /\ port'.sync \in {HalfSync, FullSync}
  /\ port'.rest = Tail(port'.sync)
  /\ port'.sync = FullSync => port.frame = << >>

SendsData(b) ==
  /\ PortWhole
  /\ port.rest = << >> /\ FrameByte(b)
  /\ port'.sync = << >> /\ port'.rest = << >>
  /\ port'.frame = IF Len(port.frame) + 1 = FrameBytes THEN << >> ELSE Append(port.frame, b)

LEMMA PortMoves ==
  ASSUME PortOK, NEW b \in Bytes, PortSends(b)
  PROVE  InSyncBytes(b) \/ StartsSync(b) \/ SendsData(b)
<1>1. CASE port.rest # << >> /\ b = Head(port.rest) /\ port' = [port EXCEPT !.rest = Tail(@)]
  BY <1>1 DEF PortOK, InSyncBytes, PortWhole
<1>2. CASE port.rest = << >> /\ EvenPlace
           /\ \E sync \in Syncs :
                b = Head(sync) /\ port' = [port EXCEPT !.sync = sync, !.rest = Tail(sync)]
  <2>1. PICK sync \in Syncs :
               b = Head(sync) /\ port' = [port EXCEPT !.sync = sync, !.rest = Tail(sync)]
    BY <1>2
  <2>2. sync \in {HalfSync, FullSync} /\ (sync = FullSync => port.frame = << >>)
    BY <2>1 DEF Syncs, HalfSync, FullSync
  <2>3. Head(sync) = "ff"
    BY <2>2 DEF HalfSync, FullSync
  <2> QED
    BY <1>2, <2>1, <2>2, <2>3 DEF PortOK, StartsSync, PortWhole
<1>3. CASE port.rest = << >> /\ FrameByte(b)
           /\ port' = [frame |-> IF Len(port.frame) + 1 = FrameBytes THEN << >>
                                 ELSE Append(port.frame, b), sync |-> << >>, rest |-> << >>]
  BY <1>3 DEF SendsData, PortWhole
<1> QED
  BY <1>1, <1>2, <1>3 DEF PortSends

\* What is left of a sync.
LEMMA RestIs ==
  ASSUME NEW r \in Rests, r # << >>
  PROVE  /\ Tail(r) \in Rests /\ Len(Tail(r)) = Len(r) - 1 /\ Len(r) \in 1 .. 3
         /\ Head(r) = IF Len(r) = 1 THEN "7f" ELSE "ff"
         /\ Tail(r) = << >> <=> Len(r) = 1
<1>1. CASE r = <<"7f">>
  BY <1>1 DEF Rests
<1>2. CASE r = <<"ff", "7f">>
  BY <1>2 DEF Rests
<1>3. CASE r = <<"ff", "ff", "7f">>
  BY <1>3 DEF Rests
<1> QED
  BY <1>1, <1>2, <1>3 DEF Rests

LEMMA SyncsAre ==
  /\ Len(HalfSync) = 2 /\ Len(FullSync) = 4 /\ HalfSync # FullSync
  /\ Tail(HalfSync) \in Rests /\ Tail(FullSync) \in Rests
  /\ Len(Tail(HalfSync)) = 1 /\ Len(Tail(FullSync)) = 3
  /\ HalfSync # << >> /\ FullSync # << >>
  BY DEF HalfSync, FullSync, Rests


\* How much of a sync was sent, before and after each move of the port.
LEMMA SentIs ==
  ASSUME PortOK
  PROVE  /\ port.rest = << >> => Sent(port) = 0
         /\ port.rest # << >> => Sent(port) = Len(port.sync) - Len(port.rest)
         /\ Sent(port) \in 0 .. 3
         /\ Len(port.frame) + Sent(port) < FrameBytes
<1>1. /\ port.rest = << >> => Sent(port) = 0
      /\ port.rest # << >> => Sent(port) = Len(port.sync) - Len(port.rest)
  BY DEF Sent
<1>2. Len(port.frame) \in Nat /\ Len(port.frame) < FrameBytes
  BY DEF PortOK
<1>3. CASE port.rest = << >>
  BY <1>1, <1>2, <1>3
<1>4. CASE port.rest # << >>
  <2>1. Len(port.rest) \in 1 .. 3 /\ Len(port.rest) < Len(port.sync)
    BY <1>4, RestIs DEF PortOK
  <2>2. CASE port.sync = HalfSync
    <3>1. Sent(port) = 1
      <4>1. Len(port.sync) = 2 /\ Len(port.rest) = 1
        BY <2>1, <2>2, SyncsAre
      <4> QED
        BY <1>1, <1>4, <4>1
    <3>2. Len(port.frame) % 2 = 0
      BY <1>4 DEF PortOK
    <3>3. \A f, g \in Nat : f % 2 = 0 /\ g % 2 = 0 /\ f < g => f + 1 < g
      OBVIOUS
    <3>4. Len(port.frame) + 1 < FrameBytes
      BY <1>2, <3>2, <3>3, SyncAssumption
    <3> QED
      BY <1>1, <1>4, <3>1, <3>4
  <2>3. CASE port.sync = FullSync
    <3>1. Len(port.sync) = 4
      BY <2>3, SyncsAre
    <3>2. Sent(port) \in 1 .. 3
      BY <1>1, <1>4, <2>1, <3>1
    <3>3. Len(port.frame) = 0
      BY <1>4, <2>3 DEF PortOK
    <3>4. Len(port.frame) + Sent(port) < FrameBytes
      BY <3>2, <3>3, SyncAssumption
    <3>5. Sent(port) \in 0 .. 3
      BY <3>2
    <3> QED
      BY <1>1, <3>4, <3>5
  <2> QED
    BY <1>4, <2>2, <2>3 DEF PortOK
<1> QED
  BY <1>3, <1>4

\* The port stays where a port may be.
LEMMA PortKeeps ==
  ASSUME PortOK, NEW b \in Bytes, InSyncBytes(b) \/ StartsSync(b) \/ SendsData(b)
  PROVE  PortOK'
<1>1. CASE InSyncBytes(b)
  <2>1. /\ Tail(port.rest) \in Rests /\ Len(Tail(port.rest)) = Len(port.rest) - 1
        /\ Len(port.rest) \in 1 .. 3
    BY <1>1, RestIs DEF InSyncBytes, PortOK
  <2>2. port'.frame = port.frame /\ port'.sync = port.sync /\ port'.rest = Tail(port.rest)
        /\ port.rest # << >> /\ PortWhole
    BY <1>1 DEF InSyncBytes
  <2>3. port' \in [frame : Seq(Bytes), sync : {<< >>, HalfSync, FullSync}, rest : Rests]
    BY <2>1, <2>2 DEF PortOK, PortWhole
  <2>4. Len(port'.rest) < Len(port'.sync)
    BY <2>1, <2>2, SyncsAre DEF PortOK
  <2> QED
    BY <2>2, <2>3, <2>4 DEF PortOK
<1>2. CASE StartsSync(b)
  <2>1. port'.frame = port.frame /\ port'.sync \in {HalfSync, FullSync}
        /\ port'.rest = Tail(port'.sync) /\ (port'.sync = FullSync => port.frame = << >>)
        /\ Len(port.frame) % 2 = 0 /\ PortWhole
    BY <1>2 DEF StartsSync, EvenPlace
  <2>2. port' \in [frame : Seq(Bytes), sync : {<< >>, HalfSync, FullSync}, rest : Rests]
    BY <2>1, SyncsAre DEF PortOK, PortWhole
  <2>3. Len(port'.rest) < Len(port'.sync) /\ port'.sync # << >>
    BY <2>1, SyncsAre
  <2> QED
    BY <2>1, <2>2, <2>3 DEF PortOK
<1>3. CASE SendsData(b)
  <2>1. port'.sync = << >> /\ port'.rest = << >> /\ PortWhole
        /\ port'.frame = IF Len(port.frame) + 1 = FrameBytes THEN << >>
                         ELSE Append(port.frame, b)
    BY <1>3 DEF SendsData
  <2>2. port'.frame \in Seq(Bytes) /\ Len(port'.frame) < FrameBytes
    BY <2>1, SyncAssumption DEF PortOK
  <2>3. port' \in [frame : Seq(Bytes), sync : {<< >>, HalfSync, FullSync}, rest : Rests]
    BY <2>1, <2>2 DEF PortWhole, Rests
  <2>4. ASSUME NEW i \in 1 .. Len(port'.frame), i % 2 = 1
        PROVE  /\ port'.frame[i] # "ff"
               /\ i > 1 /\ port'.frame[i] = "7f" => port'.frame[i - 1] # "ff"
    <3>1. port'.frame = Append(port.frame, b) /\ Len(port'.frame) = Len(port.frame) + 1
      BY <2>1, <2>4 DEF PortOK
    <3>2. CASE i <= Len(port.frame)
      <4>1. i \in 1 .. Len(port.frame) /\ port'.frame[i] = port.frame[i]
            /\ (i > 1 => port'.frame[i - 1] = port.frame[i - 1])
        BY <3>1, <3>2 DEF PortOK
      <4> QED
        BY <2>4, <4>1 DEF PortOK
    <3>3. CASE i = Len(port.frame) + 1
      <4>1. EvenPlace /\ port'.frame[i] = b
        <5>1. \A k \in Nat : (k + 1) % 2 = 1 => k % 2 = 0
          OBVIOUS
        <5>2. Len(port.frame) \in Nat
          BY DEF PortOK
        <5>3. EvenPlace
          BY <2>4, <3>3, <5>1, <5>2 DEF EvenPlace
        <5>4. port'.frame[i] = b
          BY <3>1, <3>3 DEF PortOK
        <5> QED
          BY <5>3, <5>4
      <4>2. b # "ff" /\ ~(b = "7f" /\ EndsFf(port.frame, 1))
        BY <1>3, <4>1, FfSuffix DEF SendsData, FrameByte, PortOK
      <4>3. i > 1 => port'.frame[i - 1] = port.frame[Len(port.frame)] /\ Len(port.frame) >= 1
        BY <3>1, <3>3 DEF PortOK
      <4>4. Len(port.frame) >= 1 /\ port.frame[Len(port.frame)] = "ff" => EndsFf(port.frame, 1)
        BY DEF EndsFf, PortOK
      <4> QED
        BY <4>1, <4>2, <4>3, <4>4
    <3> QED
      BY <3>1, <3>2, <3>3 DEF PortOK
  <2> QED
    BY <2>1, <2>2, <2>3, <2>4 DEF PortOK
<1> QED
  BY <1>1, <1>2, <1>3


-----------------------------------------------------------------------------
\* A sequence of bytes is given by its length and its bytes.
LEMMA SameBytes ==
  ASSUME NEW s \in Seq(Bytes), NEW t \in Seq(Bytes), Len(s) = Len(t),
         \A i \in 1 .. Len(s) : s[i] = t[i]
  PROVE  s = t
  OBVIOUS

\* In sync, what was shifted in ends with ff only behind an even number of bytes of the
\* frame, or while a sync is sent, and never with more of them than that sync has.
LEMMA InSyncEnds ==
  ASSUME PortOK, BufOK, Follows(buf, port)
  PROVE  /\ port.rest # << >> /\ Len(port.rest) = 1 /\ port.sync = HalfSync =>
              EndsFf(buf, 1) /\ ~EndsFf(buf, 3)
         /\ port.rest # << >> /\ Len(port.rest) = 1 /\ port.sync = FullSync =>
              EndsFf(buf, 3)
         /\ port.rest = << >> => buf = port.frame
<1>1. ASSUME port.rest # << >>, Len(port.rest) = 1, port.sync = HalfSync
      PROVE  EndsFf(buf, 1) /\ ~EndsFf(buf, 3)
  <2>1. Sent(port) = 1
    BY <1>1, SentIs, SyncsAre
  <2> DEFINE n == Len(port.frame)
  <2>2. n \in Nat /\ n % 2 = 0 /\ Len(buf) = n + 1
    BY <1>1, <2>1 DEF Follows, PortOK
  <2>3. buf[n + 1] = "ff"
    BY <2>1, <2>2 DEF Follows
  <2>4. EndsFf(buf, 1)
    BY <2>2, <2>3 DEF EndsFf
  <2>5. ASSUME EndsFf(buf, 3) PROVE FALSE
    <3>1. Len(buf) >= 3 /\ \A i \in Len(buf) - 3 + 1 .. Len(buf) : buf[i] = "ff"
      BY <2>5 DEF EndsFf
    <3>2. \A i \in 1 .. n : buf[i] = port.frame[i]
      BY DEF Follows
    <3> HIDE DEF n
    <3>3. \A k \in Nat : k % 2 = 0 /\ k + 1 >= 3 => k - 1 \in 1 .. k /\ (k - 1) % 2 = 1
      OBVIOUS
    <3>4. n - 1 \in 1 .. n /\ (n - 1) % 2 = 1
      BY <2>2, <3>1, <3>3
    <3>5. n - 1 \in Len(buf) - 3 + 1 .. Len(buf)
      BY <2>2, <3>1
    <3>6. port.frame[n - 1] = "ff"
      BY <3>1, <3>2, <3>4, <3>5
    <3> QED
      BY <3>4, <3>6 DEF PortOK, n
  <2> QED
    BY <2>4, <2>5
<1>2. ASSUME port.rest # << >>, Len(port.rest) = 1, port.sync = FullSync
      PROVE  EndsFf(buf, 3)
  <2>1. Sent(port) = 3 /\ Len(port.frame) = 0
    BY <1>2, SentIs, SyncsAre DEF PortOK
  <2> QED
    BY <2>1 DEF Follows, EndsFf
<1>3. ASSUME port.rest = << >> PROVE buf = port.frame
  <2>1. Sent(port) = 0
    BY <1>3, SentIs
  <2>2. Len(buf) = Len(port.frame) /\ \A i \in 1 .. Len(buf) : buf[i] = port.frame[i]
    BY <2>1 DEF Follows, PortOK
  <2> QED
    BY <2>2, SameBytes DEF PortOK, BufOK
<1> QED
  BY <1>1, <1>2, <1>3

\* The byte of a frame is no end of a sync.
LEMMA DataIsNoSync ==
  ASSUME PortOK, NEW b \in Bytes, SendsData(b), buf = port.frame
  PROVE  ~(b = "7f" /\ EndsFf(buf, 1))
<1> SUFFICES ASSUME b = "7f", EndsFf(buf, 1) PROVE FALSE
  OBVIOUS
<1>1. ~EvenPlace
  BY FfSuffix DEF SendsData, FrameByte, PortOK
<1>2. Len(buf) \in Nat /\ Len(buf) >= 1 /\ buf[Len(buf)] = "ff"
  BY DEF EndsFf, PortOK
<1>3. \A k \in Nat : k % 2 # 0 => k % 2 = 1
  OBVIOUS
<1>4. Len(buf) % 2 = 1
  BY <1>1, <1>2, <1>3 DEF EvenPlace
<1> QED
  BY <1>2, <1>4 DEF PortOK

\* In sync, a byte that arrives keeps what was shifted in what was sent, until the frame
\* ends; then it is the frame.
LEMMA ArriveFollows ==
  ASSUME PortOK, BufOK, Follows(buf, port), NEW b \in Bytes,
         InSyncBytes(b) \/ StartsSync(b) \/ SendsData(b)
  PROVE  /\ SendsData(b) /\ Len(port.frame) + 1 = FrameBytes =>
              Take(<<b>>) = Append(port.frame, b)
         /\ ~(SendsData(b) /\ Len(port.frame) + 1 = FrameBytes) =>
              Follows(Take(<<b>>), port')
<1>1. Len(buf) < FrameBytes /\ Len(buf) = Len(port.frame) + Sent(port) /\ Len(port.frame) \in Nat
      /\ Sent(port) \in 0 .. 3
  BY SentIs DEF Follows, PortOK
<1>2. ~(b = "7f" /\ EndsFf(buf, 1)) => Take(<<b>>) = Append(buf, b)
  BY <1>1, TakeIs, ShiftIs
<1>3. CASE InSyncBytes(b)
  <2>1. /\ port'.frame = port.frame /\ port'.sync = port.sync /\ port'.rest = Tail(port.rest)
        /\ port.rest # << >> /\ b = Head(port.rest)
    BY <1>3 DEF InSyncBytes
  <2>2. /\ Len(port'.rest) = Len(port.rest) - 1 /\ Len(port.rest) \in 1 .. 3
        /\ b = IF Len(port.rest) = 1 THEN "7f" ELSE "ff"
        /\ port'.rest = << >> <=> Len(port.rest) = 1
    BY <2>1, RestIs DEF PortOK
  <2>3. ~SendsData(b)
    BY <2>1 DEF SendsData
  <2>4. CASE Len(port.rest) > 1
    <3>1. Sent(port') = Sent(port) + 1
      <4>1. Sent(port') = Len(port.sync) - Len(port'.rest)
        <5>1. port'.rest # << >>
          BY <2>2, <2>4
        <5> QED
          BY <2>1, <5>1 DEF Sent
      <4>2. Sent(port) = Len(port.sync) - Len(port.rest)
        BY <2>1 DEF Sent
      <4>3. Len(port.sync) \in Nat
        BY SyncsAre, <2>1 DEF PortOK
      <4> QED
        BY <2>2, <4>1, <4>2, <4>3
    <3>2. b = "ff" /\ Take(<<b>>) = Append(buf, b)
      BY <1>2, <2>2, <2>4
    <3>3. Follows(Append(buf, b), port')
      BY <1>1, <2>1, <3>1, <3>2 DEF Follows, BufOK
    <3> QED
      BY <2>3, <3>2, <3>3
  <2>5. CASE Len(port.rest) = 1
    <3>1. Sent(port') = 0 /\ b = "7f"
      BY <2>2, <2>5 DEF Sent
    <3>2. CASE port.sync = HalfSync
      <4>1. EndsFf(buf, 1) /\ ~EndsFf(buf, 3)
        BY <2>1, <2>5, <3>2, InSyncEnds
      <4>2. Take(<<b>>) = Front(buf)
        BY <3>1, <4>1, TakeIs
      <4>3. Sent(port) = 1
        BY <2>1, <2>5, <3>2, SentIs, SyncsAre
      <4>4. /\ Len(Front(buf)) = Len(buf) - 1
            /\ \A i \in 1 .. Len(buf) - 1 : Front(buf)[i] = buf[i]
        <5>1. Len(buf) > 0
          BY <1>1, <4>3
        <5> QED
          BY <5>1, FrontIs DEF BufOK
      <4>5. Len(Front(buf)) = Len(port.frame)
        BY <1>1, <4>3, <4>4
      <4>6. \A i \in 1 .. Len(port.frame) : Front(buf)[i] = port.frame[i]
        BY <1>1, <4>3, <4>4 DEF Follows
      <4>7. Follows(Front(buf), port')
        BY <1>1, <2>1, <3>1, <4>5, <4>6 DEF Follows
      <4> QED
        BY <2>3, <4>2, <4>7
    <3>3. CASE port.sync = FullSync
      <4>1. EndsFf(buf, 3) /\ port.frame = << >>
        BY <2>1, <2>5, <3>3, InSyncEnds DEF PortOK
      <4>2. Take(<<b>>) = << >>
        BY <3>1, <4>1, TakeIs
      <4>3. Follows(<< >>, port')
        BY <2>1, <3>1, <4>1 DEF Follows
      <4> QED
        BY <2>3, <4>2, <4>3
    <3> QED
      BY <2>1, <3>2, <3>3 DEF PortOK
  <2> QED
    BY <2>2, <2>4, <2>5
<1>4. CASE StartsSync(b)
  <2>1. /\ port.rest = << >> /\ b = "ff" /\ port'.frame = port.frame
        /\ port'.sync \in {HalfSync, FullSync} /\ port'.rest = Tail(port'.sync)
    BY <1>4 DEF StartsSync
  <2>2. Sent(port) = 0
    BY <2>1, SentIs
  <2>3. Sent(port') = 1
    <3>1. port'.rest # << >> /\ Len(port'.sync) = Len(port'.rest) + 1 /\ Len(port'.rest) \in Nat
      <4>1. CASE port'.sync = HalfSync
        BY <2>1, <4>1 DEF HalfSync
      <4>2. CASE port'.sync = FullSync
        BY <2>1, <4>2 DEF FullSync
      <4> QED
        BY <2>1, <4>1, <4>2
    <3>2. Sent(port') = Len(port'.sync) - Len(port'.rest)
      BY <3>1 DEF Sent
    <3>3. \A a, k \in Nat : a = k + 1 => a - k = 1
      OBVIOUS
    <3> QED
      BY <3>1, <3>2, <3>3
  <2>4. Take(<<b>>) = Append(buf, b)
    BY <1>2, <2>1
  <2>5. Follows(Append(buf, b), port')
    BY <1>1, <2>1, <2>2, <2>3 DEF Follows, BufOK
  <2>6. ~SendsData(b)
    <3>1. EvenPlace
      BY <1>4 DEF StartsSync
    <3> QED
      BY <2>1, <3>1 DEF SendsData, FrameByte
  <2> QED
    BY <2>4, <2>5, <2>6
<1>5. CASE SendsData(b)
  <2>1. /\ port.rest = << >> /\ port'.rest = << >>
        /\ port'.frame = IF Len(port.frame) + 1 = FrameBytes THEN << >>
                         ELSE Append(port.frame, b)
    BY <1>5 DEF SendsData
  <2>2. buf = port.frame
    BY <2>1, InSyncEnds
  <2>3. Take(<<b>>) = Append(port.frame, b)
    BY <1>2, <1>5, <2>2, DataIsNoSync
  <2>4. CASE Len(port.frame) + 1 # FrameBytes
    <3>1. Sent(port') = 0 /\ port'.frame = Append(port.frame, b)
      BY <2>1, <2>4 DEF Sent
    <3>2. Len(Append(port.frame, b)) \in Nat
      BY DEF PortOK
    <3>3. Follows(Append(port.frame, b), port')
      BY <3>1, <3>2 DEF Follows
    <3> QED
      BY <2>3, <2>4, <3>3
  <2> QED
    BY <1>5, <2>3, <2>4
<1> QED
  BY <1>3, <1>4, <1>5


\* The end of a full sync of which every byte was shifted in restarts the frame.
LEMMA WholeLocks ==
  ASSUME PortOK, BufOK, WholeInv, track.whole, NEW b \in Bytes, PortSends(b),
         InSyncBytes(b) \/ StartsSync(b) \/ SendsData(b),
         port.rest # << >>, FullEnds(port')
  PROVE  /\ IsSuffix(FullSync, buf \o <<b>>) /\ Take(<<b>>) = << >>
         /\ Follows(<< >>, port')
<1>1. /\ port'.frame = port.frame /\ port'.sync = port.sync /\ port'.rest = Tail(port.rest)
      /\ b = Head(port.rest)
  BY DEF InSyncBytes, StartsSync, SendsData
<1>2. port'.rest = << >> /\ port.sync = FullSync
  BY <1>1 DEF FullEnds
<1>3. Len(port.rest) = 1 /\ b = "7f"
  BY <1>1, <1>2, RestIs DEF PortOK
<1>4. Sent(port) = 3
  BY <1>2, <1>3, SentIs, SyncsAre
<1>5. EndsFf(buf, 3)
  BY <1>2, <1>4 DEF WholeInv
<1>6. port.frame = << >>
  BY <1>2 DEF PortOK
<1>7. Follows(<< >>, port')
  <2>1. Sent(port') = 0
    BY <1>2 DEF Sent
  <2>2. port'.frame = << >> /\ Len(<< >>) = 0
    BY <1>1, <1>6
  <2> QED
    BY <2>1, <2>2 DEF Follows
<1> QED
  BY <1>3, <1>5, <1>7, FullSuffix, TakeIs DEF BufOK

\* Of a full sync that arrives the bytes so far are at the end of what was shifted in.
LEMMA ArriveWhole ==
  ASSUME PortOK, BufOK, WholeInv, NEW b \in Bytes,
         InSyncBytes(b) \/ StartsSync(b) \/ SendsData(b),
         StartsSync(b) \/ track.whole, port'.rest # << >>, port'.sync = FullSync
  PROVE  EndsFf(Take(<<b>>), Sent(port'))
<1>1. CASE InSyncBytes(b)
  <2>1. /\ port'.sync = port.sync /\ port'.rest = Tail(port.rest)
        /\ port.rest # << >> /\ b = Head(port.rest)
    BY <1>1 DEF InSyncBytes
  <2>2. /\ Len(port'.rest) = Len(port.rest) - 1 /\ Len(port.rest) \in 2 .. 3 /\ b = "ff"
    BY <2>1, RestIs DEF PortOK
  <2>3. track.whole
    BY <2>1 DEF StartsSync
  <2>4. EndsFf(buf, Sent(port))
    BY <2>1, <2>3 DEF WholeInv
  <2>5. Sent(port) = 4 - Len(port.rest) /\ Sent(port') = 4 - Len(port'.rest)
    BY <2>1, SyncsAre DEF Sent
  <2>6. Sent(port) \in 0 .. 2 /\ Sent(port') = Sent(port) + 1
    <3>1. \A m \in 2 .. 3 : 4 - m \in 0 .. 2 /\ 4 - (m - 1) = (4 - m) + 1
      OBVIOUS
    <3> QED
      BY <2>2, <2>5, <3>1
  <2>7. Take(<<b>>) = Shift(b)
    BY <2>2, TakeIs
  <2> QED
    BY <2>2, <2>4, <2>6, <2>7, ShiftIs
<1>2. CASE StartsSync(b)
  <2>1. b = "ff" /\ port'.rest = Tail(port'.sync)
    BY <1>2 DEF StartsSync
  <2>2. Sent(port') = 1
    <3>1. Len(port'.sync) = 4 /\ Len(port'.rest) = 3
      BY <2>1, SyncsAre
    <3>2. Sent(port') = Len(port'.sync) - Len(port'.rest)
      BY DEF Sent
    <3> QED
      BY <3>1, <3>2
  <2>3. EndsFf(buf, 0)
    BY DEF EndsFf, BufOK
  <2>4. Take(<<b>>) = Shift(b)
    BY <2>1, TakeIs
  <2>5. EndsFf(Shift(b), 0 + 1)
    BY <2>1, <2>3, ShiftIs
  <2> QED
    BY <2>2, <2>4, <2>5
<1>3. CASE SendsData(b)
  BY <1>3 DEF SendsData
<1> QED
  BY <1>1, <1>2, <1>3

-----------------------------------------------------------------------------
\* What history notes of a byte that arrives, and of one that is lost.
LEMMA TrackedIs ==
  ASSUME TrackOK, PortOK, NEW b \in Bytes, NEW lost \in BOOLEAN,
         InSyncBytes(b) \/ StartsSync(b) \/ SendsData(b)
  PROVE  /\ Tracked(b, lost) \in
              [in_sync : BOOLEAN, whole : BOOLEAN, due : Seq(Bytes), since : Nat]
         /\ Tracked(b, lost).whole <=> ~lost /\ (StartsSync(b) \/ track.whole)
         /\ Tracked(b, lost).in_sync <=>
              /\ ~lost
              /\ track.in_sync \/ /\ track.whole /\ port.rest # << >> /\ FullEnds(port')
         /\ Tracked(b, lost).due =
              IF ~lost /\ track.in_sync /\ SendsData(b) /\ Len(port.frame) + 1 = FrameBytes
              THEN Append(port.frame, b) ELSE track.due
         /\ Tracked(b, lost).since \in {track.since, track.since + 1}
         /\ ~lost /\ track.since <= FrameBytes => Tracked(b, lost).since = track.since + 1
<1>1. StartsSync(b) <=> port.rest = << >> /\ port'.rest # << >>
  <2>1. StartsSync(b) => port.rest = << >> /\ port'.rest # << >>
    <3>1. Tail(HalfSync) # << >> /\ Tail(FullSync) # << >>
      BY DEF HalfSync, FullSync
    <3> QED
      BY <3>1 DEF StartsSync
  <2> QED
    BY <2>1 DEF InSyncBytes, SendsData
<1>2. SendsData(b) /\ Len(port.frame) + 1 = FrameBytes <=>
        port.rest = << >> /\ port'.rest = << >> /\ port'.frame = << >>
  <2>1. CASE SendsData(b)
    <3>1. Append(port.frame, b) # << >>
      BY DEF PortOK
    <3> QED
      BY <2>1, <3>1 DEF SendsData
  <2>2. CASE ~SendsData(b)
    <3>1. ~(port.rest = << >> /\ port'.rest = << >>)
      BY <1>1, <2>2 DEF InSyncBytes
    <3> QED
      BY <2>2, <3>1
  <2> QED
    BY <2>1, <2>2
<1> DEFINE w == ~lost /\ (StartsSync(b) \/ track.whole)
           l == w /\ port.rest # << >> /\ FullEnds(port')
           d == IF ~lost /\ track.in_sync /\ SendsData(b) /\ Len(port.frame) + 1 = FrameBytes
                THEN Append(port.frame, b) ELSE track.due
           n == IF lost \/ track.since > FrameBytes THEN track.since ELSE track.since + 1
<1>3. Tracked(b, lost) =
        [whole |-> w, in_sync |-> ~lost /\ (track.in_sync \/ l), due |-> d, since |-> n]
  BY <1>1, <1>2 DEF Tracked
<1>4. w \in BOOLEAN /\ (~lost /\ (track.in_sync \/ l)) \in BOOLEAN
  BY DEF TrackOK
<1>5. d \in Seq(Bytes)
  BY DEF TrackOK, PortOK
<1>6. n \in Nat /\ n \in {track.since, track.since + 1}
      /\ (~lost /\ track.since <= FrameBytes => n = track.since + 1)
  BY SyncAssumption DEF TrackOK
<1>7. l <=> w /\ port.rest # << >> /\ FullEnds(port')
  OBVIOUS
<1>8. port.rest # << >> => ~StartsSync(b)
  BY <1>1
<1>9. ~lost /\ (track.in_sync \/ l) <=>
        ~lost /\ (track.in_sync \/ (track.whole /\ port.rest # << >> /\ FullEnds(port')))
  BY <1>8
<1> HIDE DEF w, l, d, n
<1>10. Tracked(b, lost) \in
         [in_sync : BOOLEAN, whole : BOOLEAN, due : Seq(Bytes), since : Nat]
  BY <1>3, <1>4, <1>5, <1>6
<1>11. Tracked(b, lost).whole = w
  BY <1>3
<1>12. Tracked(b, lost).in_sync = (~lost /\ (track.in_sync \/ l))
  BY <1>3
<1>13. Tracked(b, lost).due = d /\ Tracked(b, lost).since = n
  BY <1>3
<1>14. Tracked(b, lost).whole <=> ~lost /\ (StartsSync(b) \/ track.whole)
  BY <1>11 DEF w
<1>15. Tracked(b, lost).in_sync <=>
         ~lost /\ (track.in_sync \/ (track.whole /\ port.rest # << >> /\ FullEnds(port')))
  BY <1>9, <1>12
<1> QED
  BY <1>6, <1>10, <1>13, <1>14, <1>15 DEF d


-----------------------------------------------------------------------------
\* A byte arrives.
LEMMA ArriveKeeps ==
  ASSUME SyncInv, NEW b \in Bytes, Arrive(b)
  PROVE  SyncInv'
<1>1. PortOK /\ BufOK /\ TrackOK /\ InSyncInv /\ DueInv /\ WholeInv /\ SinceInv
  BY DEF SyncInv
<1>2. PortSends(b) /\ ~SyncValid /\ track' = Tracked(b, FALSE)
      /\ synced' = SyncedNext(<<b>>, FALSE) /\ buf' = Take(<<b>>)
  BY DEF Arrive, SyncStep
<1>3. InSyncBytes(b) \/ StartsSync(b) \/ SendsData(b)
  BY <1>1, <1>2, PortMoves
<1>4. PortOK'
  BY <1>1, <1>3, PortKeeps
<1>5. synced' <=> synced \/ IsSuffix(FullSync, buf \o <<b>>)
  BY <1>2 DEF SyncedNext
<1>6. BufOK'
  <2>1. synced' \in BOOLEAN
    BY <1>1, <1>2 DEF SyncedNext, BufOK
  <2> QED
    BY <1>1, <1>2, <2>1, TakeKeeps DEF BufOK
<1>7. track.due = << >>
  BY <1>1, <1>2 DEF DueInv, SyncValid
<1> DEFINE ends == SendsData(b) /\ Len(port.frame) + 1 = FrameBytes
<1>8. /\ track' \in [in_sync : BOOLEAN, whole : BOOLEAN, due : Seq(Bytes), since : Nat]
      /\ track'.whole <=> StartsSync(b) \/ track.whole
      /\ track'.in_sync <=>
           track.in_sync \/ (track.whole /\ port.rest # << >> /\ FullEnds(port'))
      /\ track'.due = IF track.in_sync /\ ends THEN Append(port.frame, b) ELSE << >>
      /\ track'.since \in {track.since, track.since + 1}
      /\ track.since <= FrameBytes => track'.since = track.since + 1
  BY <1>1, <1>2, <1>3, <1>7, TrackedIs
<1>9. track.in_sync =>
        /\ synced'
        /\ ends => Take(<<b>>) = Append(port.frame, b)
        /\ ~ends => Follows(Take(<<b>>), port')
  BY <1>1, <1>3, <1>5, <1>7, ArriveFollows DEF InSyncInv
<1>10. track.whole /\ port.rest # << >> /\ FullEnds(port') =>
         synced' /\ Follows(Take(<<b>>), port') /\ ~ends
  <2>1. port.rest # << >> => ~ends
    BY DEF SendsData
  <2> QED
    BY <1>1, <1>2, <1>3, <1>5, <2>1, WholeLocks
<1>11. ends => port'.frame = << >> /\ port'.rest = << >>
  BY DEF SendsData
<1>12. Append(port.frame, b) # << >> /\ Len(Append(port.frame, b)) = Len(port.frame) + 1
  <2>1. port.frame \in Seq(Bytes)
    BY <1>1 DEF PortOK
  <2>2. Append(port.frame, b) # << >>
    BY <2>1
  <2>3. Len(Append(port.frame, b)) = Len(port.frame) + 1
    BY <2>1
  <2> QED
    BY <2>2, <2>3
<1> HIDE DEF ends
<1>13. InSyncInv'
  BY <1>2, <1>8, <1>9, <1>10, <1>11, <1>12 DEF InSyncInv
<1>14. DueInv'
  <2>1. SUFFICES ASSUME track'.due # << >>
                 PROVE  synced' /\ buf' = track'.due /\ Len(buf') = FrameBytes
    BY DEF DueInv
  <2>2. track.in_sync /\ ends
    BY <1>8, <2>1
  <2> QED
    BY <1>2, <1>8, <1>9, <1>12, <2>2 DEF ends
<1>15. WholeInv'
  BY <1>1, <1>2, <1>3, <1>8, ArriveWhole DEF WholeInv
<1>16. SinceInv'
  <2>1. CASE synced
    <3>1. track.since > Len(buf) \/ track.since > FrameBytes
      BY <1>1, <2>1 DEF SinceInv
    <3>2. Len(buf) \in Nat /\ Len(buf') \in Nat /\ track.since \in Nat /\ FrameBytes \in Nat
      BY <1>1, <1>6, SyncAssumption DEF BufOK, TrackOK
    <3>3. Len(buf') <= Len(buf) + 1
      BY <1>1, <1>2, TakeKeeps
    <3>4. track'.since > Len(buf') \/ track'.since > FrameBytes
      BY <1>8, <3>1, <3>2, <3>3
    <3> QED
      BY <3>4 DEF SinceInv
  <2>2. CASE IsSuffix(FullSync, buf \o <<b>>)
    <3>1. buf' = << >>
      BY <1>2, <2>2 DEF Take
    <3>2. Len(buf') = 0
      BY <3>1
    <3> QED
      BY <1>1, <1>8, <3>2, SyncAssumption DEF SinceInv, TrackOK
  <2> QED
    BY <1>5, <2>1, <2>2 DEF SinceInv
<1>17. TrackOK'
  BY <1>8 DEF TrackOK
<1> QED
  BY <1>4, <1>6, <1>13, <1>14, <1>15, <1>16, <1>17 DEF SyncInv

\* A byte arrives in a clock of reset_sync.
LEMMA ResetArriveKeeps ==
  ASSUME SyncInv, NEW b \in Bytes, ResetArrive(b)
  PROVE  SyncInv'
<1>1. PortOK /\ BufOK /\ TrackOK /\ WholeInv
  BY DEF SyncInv
<1>2. PortSends(b) /\ synced' = FALSE /\ buf' = Take(<<b>>)
      /\ track' = [Tracked(b, FALSE) EXCEPT !.in_sync = FALSE, !.due = << >>, !.since = 0]
  BY DEF ResetArrive, SyncStep, SyncedNext
<1>3. InSyncBytes(b) \/ StartsSync(b) \/ SendsData(b)
  BY <1>1, <1>2, PortMoves
<1>4. PortOK'
  BY <1>1, <1>3, PortKeeps
<1>5. BufOK'
  BY <1>1, <1>2, TakeKeeps DEF BufOK
<1>6. /\ Tracked(b, FALSE) \in
           [in_sync : BOOLEAN, whole : BOOLEAN, due : Seq(Bytes), since : Nat]
      /\ Tracked(b, FALSE).whole <=> StartsSync(b) \/ track.whole
  BY <1>1, <1>3, TrackedIs
<1>7. /\ track' \in [in_sync : BOOLEAN, whole : BOOLEAN, due : Seq(Bytes), since : Nat]
      /\ track'.whole = Tracked(b, FALSE).whole /\ track'.in_sync = FALSE
      /\ track'.due = << >>
  <2> DEFINE t == Tracked(b, FALSE)
  <2>1. track' = [t EXCEPT !.in_sync = FALSE, !.due = << >>, !.since = 0]
    BY <1>2
  <2>2. t \in [in_sync : BOOLEAN, whole : BOOLEAN, due : Seq(Bytes), since : Nat]
    BY <1>6
  <2> HIDE DEF t
  <2>3. << >> \in Seq(Bytes)
    OBVIOUS
  <2>4. track' = [in_sync |-> FALSE, whole |-> t.whole, due |-> << >>, since |-> 0]
    BY <2>1, <2>2
  <2>5. track' \in [in_sync : BOOLEAN, whole : BOOLEAN, due : Seq(Bytes), since : Nat]
    BY <2>2, <2>3, <2>4
  <2>6. track'.whole = t.whole /\ track'.in_sync = FALSE /\ track'.due = << >>
    BY <2>4
  <2> QED
    BY <2>5, <2>6 DEF t
<1>8. WholeInv'
  BY <1>1, <1>2, <1>3, <1>6, <1>7, ArriveWhole DEF WholeInv
<1>9. InSyncInv' /\ DueInv' /\ SinceInv' /\ TrackOK'
  BY <1>2, <1>7 DEF InSyncInv, DueInv, SinceInv, TrackOK
<1> QED
  BY <1>4, <1>5, <1>8, <1>9 DEF SyncInv

\* A byte is lost.
LEMMA LoseKeeps ==
  ASSUME SyncInv, NEW b \in Bytes, Lose(b)
  PROVE  SyncInv'
<1>1. PortOK /\ BufOK /\ TrackOK /\ DueInv /\ SinceInv
  BY DEF SyncInv
<1>2. PortSends(b) /\ track' = Tracked(b, TRUE) /\ buf' = buf
      /\ synced' = SyncedNext(<< >>, FALSE)
  BY DEF Lose, SyncStep
<1>3. InSyncBytes(b) \/ StartsSync(b) \/ SendsData(b)
  BY <1>1, <1>2, PortMoves
<1>4. PortOK'
  BY <1>1, <1>3, PortKeeps
<1>5. synced' = synced
  BY <1>1, <1>2 DEF SyncedNext, BufOK
<1>6. BufOK'
  BY <1>1, <1>2, <1>5 DEF BufOK
<1>7. /\ track' \in [in_sync : BOOLEAN, whole : BOOLEAN, due : Seq(Bytes), since : Nat]
      /\ ~track'.whole /\ ~track'.in_sync /\ track'.due = track.due
      /\ track'.since \in {track.since, track.since + 1}
  BY <1>1, <1>2, <1>3, TrackedIs
<1>8. SinceInv'
  <2>1. Len(buf) \in Nat /\ track.since \in Nat /\ FrameBytes \in Nat
    BY <1>1, SyncAssumption DEF BufOK, TrackOK
  <2> QED
    <3>1. synced' => track.since > Len(buf) \/ track.since > FrameBytes
      BY <1>1, <1>5 DEF SinceInv
    <3>2. synced' => track'.since > Len(buf) \/ track'.since > FrameBytes
      BY <1>7, <2>1, <3>1
    <3> QED
      BY <1>2, <3>2 DEF SinceInv
<1>9. InSyncInv'
  BY <1>7 DEF InSyncInv
<1>10. DueInv'
  <2>1. track.due # << >> => synced' /\ buf = track.due /\ Len(buf) = FrameBytes
    BY <1>1, <1>5 DEF DueInv
  <2> QED
    BY <1>2, <1>7, <2>1 DEF DueInv
<1>11. WholeInv' /\ TrackOK'
  BY <1>7 DEF WholeInv, TrackOK
<1> QED
  BY <1>4, <1>6, <1>8, <1>9, <1>10, <1>11 DEF SyncInv

\* The reader takes the frame.
LEMMA ReadKeeps ==
  ASSUME SyncInv, Read
  PROVE  SyncInv'
<1>1. PortOK /\ BufOK /\ TrackOK /\ InSyncInv /\ DueInv /\ SinceInv
  BY DEF SyncInv
<1>2. /\ port' = port /\ buf' = << >> /\ synced' = SyncedNext(<< >>, FALSE)
      /\ SyncValid
      /\ track' = [track EXCEPT !.due = << >>, !.whole = @ /\ port.rest = << >>]
  BY DEF Read, SyncStep
<1>3. synced' = synced
  BY <1>1, <1>2 DEF SyncedNext, BufOK
<1>4. PortOK'
  BY <1>1, <1>2 DEF PortOK
<1>5. buf' \in Seq(Bytes) /\ Len(buf') = 0
  BY <1>2
<1>6. BufOK'
  BY <1>1, <1>3, <1>5, SyncAssumption DEF BufOK
<1>7. /\ track' \in [in_sync : BOOLEAN, whole : BOOLEAN, due : Seq(Bytes), since : Nat]
      /\ track'.in_sync = track.in_sync /\ track'.due = << >> /\ track'.since = track.since
      /\ track'.whole = (track.whole /\ port.rest = << >>)
  <2> DEFINE w == track.whole /\ port.rest = << >>
  <2>1. w \in BOOLEAN
    OBVIOUS
  <2>2. track' = [track EXCEPT !.due = << >>, !.whole = w]
    BY <1>1, <1>2 DEF TrackOK
  <2> HIDE DEF w
  <2>3. track' = [in_sync |-> track.in_sync, whole |-> w, due |-> << >>,
                  since |-> track.since]
    BY <1>1, <2>2 DEF TrackOK
  <2>4. track' \in [in_sync : BOOLEAN, whole : BOOLEAN, due : Seq(Bytes), since : Nat]
    BY <1>1, <1>2, <1>5, <2>1, <2>3 DEF TrackOK
  <2>5. /\ track'.in_sync = track.in_sync /\ track'.due = << >>
        /\ track'.since = track.since /\ track'.whole = w
    BY <2>3
  <2> QED
    BY <2>4, <2>5 DEF w
<1>8. track'.whole => port.rest = << >>
  BY <1>7
<1>9. track'.in_sync = track.in_sync /\ track'.due = << >>
  BY <1>7
<1>10. track.in_sync => port.frame = << >> /\ port.rest = << >>
  <2>1. track.in_sync => track.due # << >>
    BY <1>1, <1>2, SentIs, SyncAssumption DEF InSyncInv, Follows, SyncValid, PortOK
  <2> QED
    BY <1>1, <2>1 DEF InSyncInv
<1>11. port.frame = << >> /\ port.rest = << >> => Follows(<< >>, port)
  BY DEF Follows, Sent
<1>12. InSyncInv'
  <2>1. track'.in_sync => synced'
    BY <1>1, <1>3, <1>9 DEF InSyncInv
  <2>2. track'.in_sync => Follows(buf', port')
    BY <1>2, <1>9, <1>10, <1>11
  <2> QED
    BY <1>9, <2>1, <2>2 DEF InSyncInv
<1>13. SinceInv'
  <2>1. Len(buf) \in Nat /\ track.since \in Nat /\ FrameBytes \in Nat
    BY <1>1, SyncAssumption DEF BufOK, TrackOK
  <2>2. synced' => track.since > 0
    BY <1>1, <1>3, <2>1 DEF SinceInv
  <2>3. track'.since = track.since
    BY <1>7
  <2> QED
    BY <1>5, <2>2, <2>3 DEF SinceInv
<1>14. DueInv' /\ WholeInv' /\ TrackOK'
  BY <1>2, <1>7, <1>8 DEF DueInv, WholeInv, TrackOK
<1> QED
  BY <1>4, <1>6, <1>12, <1>13, <1>14 DEF SyncInv

\* reset_sync.
LEMMA ResetKeeps ==
  ASSUME SyncInv, Reset
  PROVE  SyncInv'
<1>1. PortOK /\ BufOK /\ TrackOK /\ WholeInv
  BY DEF SyncInv
<1>2. /\ port' = port /\ buf' \in {<< >>, buf} /\ synced' = FALSE
      /\ track' = [track EXCEPT !.in_sync = FALSE, !.due = << >>, !.since = 0,
                                !.whole = @ /\ port.rest = << >>]
  BY DEF Reset, SyncStep, SyncedNext
<1>3. PortOK'
  BY <1>1, <1>2 DEF PortOK
<1>4. << >> \in Seq(Bytes) /\ Len(<< >>) = 0
  OBVIOUS
<1>5. BufOK'
  <2>1. 0 <= FrameBytes
    BY SyncAssumption
  <2>2. CASE buf' = buf
    BY <1>1, <1>2, <2>2 DEF BufOK
  <2>3. CASE buf' = << >>
    BY <1>2, <1>4, <2>1, <2>3 DEF BufOK
  <2> QED
    BY <1>2, <2>2, <2>3
<1>6. (track.whole /\ port.rest = << >>) \in BOOLEAN
  OBVIOUS
<1>7. /\ track' \in [in_sync : BOOLEAN, whole : BOOLEAN, due : Seq(Bytes), since : Nat]
      /\ ~track'.in_sync /\ track'.due = << >>
  BY <1>1, <1>2, <1>4, <1>6 DEF TrackOK
<1>8. track'.whole => port.rest = << >>
  BY <1>1, <1>2 DEF TrackOK
<1>9. InSyncInv' /\ DueInv' /\ WholeInv' /\ SinceInv' /\ TrackOK'
  BY <1>2, <1>7, <1>8 DEF InSyncInv, DueInv, WholeInv, SinceInv, TrackOK
<1> QED
  BY <1>3, <1>5, <1>9 DEF SyncInv

-----------------------------------------------------------------------------
LEMMA SyncStarts == SyncInit => SyncInv
<1> SUFFICES ASSUME SyncInit PROVE SyncInv
  OBVIOUS
<1>1. /\ buf = << >> /\ synced = FALSE
      /\ port = [frame |-> << >>, sync |-> << >>, rest |-> << >>]
      /\ track = [in_sync |-> FALSE, whole |-> FALSE, due |-> << >>, since |-> 0]
  BY DEF SyncInit
<1>2. << >> \in Seq(Bytes) /\ Len(<< >>) = 0 /\ << >> \in Rests
  BY DEF Rests
<1>3. port \in [frame : Seq(Bytes), sync : {<< >>, HalfSync, FullSync}, rest : Rests]
      /\ port.frame = << >> /\ port.rest = << >>
  BY <1>1, <1>2
<1>4. PortOK
  BY <1>2, <1>3, SyncAssumption DEF PortOK
<1>5. BufOK
  <2>1. 0 <= FrameBytes
    BY SyncAssumption
  <2> QED
    BY <1>1, <1>2, <2>1 DEF BufOK
<1>6. TrackOK
  BY <1>1, <1>2 DEF TrackOK
<1>7. InSyncInv /\ DueInv /\ WholeInv /\ SinceInv
  BY <1>1 DEF InSyncInv, DueInv, WholeInv, SinceInv
<1> QED
  BY <1>4, <1>5, <1>6, <1>7 DEF SyncInv

\* The invariant holds in every state TPIUSync and its port reach.
THEOREM SyncInvHolds == SyncSpec => []SyncInv
<1>1. SyncInv /\ [SyncNext]_syncVars => SyncInv'
  <2> SUFFICES ASSUME SyncInv, [SyncNext]_syncVars PROVE SyncInv'
    OBVIOUS
  <2>1. CASE Read
    BY <2>1, ReadKeeps
  <2>2. CASE Reset
    BY <2>2, ResetKeeps
  <2>3. ASSUME NEW b \in Bytes, Arrive(b) PROVE SyncInv'
    BY <2>3, ArriveKeeps
  <2>4. ASSUME NEW b \in Bytes, Lose(b) PROVE SyncInv'
    BY <2>4, LoseKeeps
  <2>5. ASSUME NEW b \in Bytes, ResetArrive(b) PROVE SyncInv'
    BY <2>5, ResetArriveKeeps
  <2>6. CASE UNCHANGED syncVars
    BY <2>6 DEF syncVars, SyncInv, PortOK, BufOK, TrackOK, InSyncInv, DueInv, WholeInv,
                SinceInv, SyncValid
  <2> QED
    BY <2>1, <2>2, <2>3, <2>4, <2>5, <2>6 DEF SyncNext, Bytes
<1> QED
  BY <1>1, SyncStarts, PTL DEF SyncSpec

\* TPIUSync (tpiu.py) is locked from the first full sync that arrives whole; from then on
\* it hands out the port's frames and nothing else, until a byte is lost or it is reset;
\* and no frame it hands out holds a byte from before a reset.  For every frame length,
\* every set of byte values and every number of frames, syncs, losses and resets.
THEOREM SyncIsRight == SyncSpec => []SyncRight
<1>1. SyncInv => SyncRight
  <2> SUFFICES ASSUME SyncInv PROVE SyncRight
    OBVIOUS
  <2>1. PortOK /\ BufOK /\ TrackOK /\ InSyncInv /\ DueInv /\ SinceInv
    BY DEF SyncInv
  <2>2. LocksOnFullSync
    BY <2>1 DEF LocksOnFullSync, InSyncInv
  <2>3. track.in_sync /\ SyncValid => track.due # << >>
    BY <2>1, SentIs, SyncAssumption DEF InSyncInv, Follows, SyncValid, PortOK
  <2>4. SyncFramesRight
    BY <2>1, <2>3 DEF SyncFramesRight, DueInv, SyncValid
  <2>5. NoStaleFrame
    BY <2>1, SyncAssumption DEF NoStaleFrame, SinceInv, SyncValid, TrackOK
  <2> QED
    BY <2>2, <2>4, <2>5 DEF SyncRight
<1> QED
  BY <1>1, SyncInvHolds, PTL

-----------------------------------------------------------------------------
\* From here on: traceIF, which cuts the port's elements into words and frames.

Values == {"f", "7", "0"}

Frames == {f \in Seq(Words) : Len(f) <= FrameWords}

Marks == [sync : BOOLEAN, frame : Frames]

Samples == [v : Values, mark : Marks]

\* What the port sends at a time: its elements, the mark of the last one, the port's frame
\* while it is sent, and the words of that frame before it.
Items == [word : Seq(Values), mark : Marks, frame : Frames, before : Frames]

SyncMark == [NoMark EXCEPT !.sync = TRUE]

FrameMark(f) == [NoMark EXCEPT !.frame = f]

HalfItem(it) == it.word = HalfSyncElems /\ it.mark = NoMark /\ it.before = it.frame

FullItem(it) ==
  /\ it.word = FullSyncElems /\ it.mark = SyncMark
  /\ it.frame = << >> /\ it.before = << >>

\* A word of frame f, of which nothing after it was sent.
WordItem(it, f) ==
  /\ f # << >> /\ it.word = f[Len(f)] /\ it.before = SubSeq(f, 1, Len(f) - 1)
  /\ IF Len(f) < FrameWords THEN it.mark = NoMark /\ it.frame = f
     ELSE it.mark = FrameMark(f) /\ it.frame = << >>

IsItem(it) ==
  /\ Len(it.frame) < FrameWords
  /\ HalfItem(it) \/ FullItem(it) \/ \E f \in Frames : WordItem(it, f)

\* How many elements of the item were sampled.
Gone(it) == Len(it.word) - Len(pins.rest)

\* What is left of the item; after a fault the last element of the item before it may be
\* there as well.
RestOf(it) ==
  /\ pins.frame = it.frame
  /\ Gone(it) \in -1 .. Len(it.word) - 1
  /\ \A i \in 1 .. Len(pins.rest) :
       Gone(it) + i >= 1 => pins.rest[i] = Elems(it.word, it.mark)[Gone(it) + i]

\* The element that was sampled n before the last one of the clock is construct[Now - n].
Now == SyncElems + 1

Consumed(it) ==
  \A i \in 1 .. Len(it.word) :
    i <= Gone(it) /\ i > Gone(it) - watch.clean => construct[Now - Gone(it) + i] = it.word[i]

\* The elements before the last g are those of w.
EndsBefore(g, w) == \A i \in 1 .. Len(w) : construct[Now - g - Len(w) + i] = w[i]

\* Not all of the n elements before the last g are ones.
NotOnes(g, n) == \E i \in 1 .. n : construct[Now - g - n + i] # "f"

\* s was taken, and nothing of the frame after it.
Taken(s) ==
  /\ elemCount = FrameWords - 1 - Len(s)
  /\ \A k \in 1 .. Len(s) : cFrame[k] = s[k]

SyncEnd(it) ==
  /\ EndsBefore(Gone(it), FullSyncElems)
  /\ watch.due = NoFrame /\ it.before = << >>

HalfEnd(it) ==
  /\ EndsBefore(Gone(it), HalfSyncElems)
  /\ NotOnes(Gone(it) + WordElems, WordElems)
  /\ watch.due = NoFrame /\ Taken(it.before)

WordEnd(it) ==
  \E words \in Frames :
    /\ words # << >>
    /\ IF Len(words) = FrameWords THEN watch.due = words /\ it.before = << >>
       ELSE watch.due = NoFrame /\ it.before = words
    /\ EndsBefore(Gone(it), words[Len(words)])
    /\ Taken(SubSeq(words, 1, Len(words) - 1))

\* Elements of the word that were sampled; a full sync is two words.
InWord(it) == IF Gone(it) < WordElems THEN Gone(it) ELSE Gone(it) - WordElems

\* The words are cut on the port's edge and at its place.
Aligned(it) ==
  /\ isREsync <=> Gone(it) % 2 = 0
  /\ IF InWord(it) < 2 THEN remainingClocks = 0
     ELSE 2 * remainingClocks \in {WordElems - InWord(it), WordElems - InWord(it) + 1}

\* In sync: what was shifted in is what the port sent, and the words are cut as it sends them.
Following(it) ==
  /\ watch.clean = SyncElems /\ Gone(it) >= 0
  /\ Gone(it) < WordElems => NotOnes(Gone(it), WordElems)
  /\ \/ Gone(it) < 2 /\ SyncEnd(it)
     \/ Gone(it) < 2 /\ Aligned(it) /\ (HalfEnd(it) \/ WordEnd(it))
     \/ /\ Gone(it) >= 2 /\ Aligned(it) /\ watch.due = NoFrame
        /\ Gone(it) < WordElems + 2 => Taken(it.before)

PinsType ==
  /\ construct \in Seq(Values) /\ Len(construct) = Now
  /\ cFrame \in [1 .. FrameWords - 1 -> Seq(Values)]
  /\ remainingClocks \in 0 .. packetClocks
  /\ elemCount \in 0 .. FrameWords - 1
  /\ isREsync \in BOOLEAN
  /\ pins \in [rest : Seq(Samples), frame : Frames]
  /\ watch \in [in_sync : BOOLEAN, clean : 0 .. SyncElems, due : Frames, good : BOOLEAN]

\* Nothing of an item was sent.
Blank == pins.rest = << >> /\ ~watch.in_sync /\ Len(pins.frame) < FrameWords

PinsInv ==
  /\ PinsType /\ watch.good
  /\ \/ Blank
     \/ \E it \in Items :
          /\ IsItem(it) /\ RestOf(it) /\ Consumed(it)
          /\ Gone(it) < 0 => watch.clean = 0 /\ ~watch.in_sync
          /\ watch.in_sync => Following(it)

-----------------------------------------------------------------------------
\* The sizes of the port, as the provers need them.
LEMMA PinSizes ==
  /\ WordElems \in Nat /\ WordElems >= 4
  /\ FrameWords \in Nat /\ FrameWords >= 2
  /\ SyncElems \in Nat /\ SyncElems = WordElems + WordElems /\ Now = SyncElems + 1
  /\ packetClocks \in Nat /\ packetClocks + packetClocks = WordElems - 2
<1>1. /\ WordElems \in Nat /\ WordElems >= 4 /\ WordElems % 2 = 0
      /\ FrameWords \in Nat /\ FrameWords >= 2
  BY SizeAssumption
<1>2. WordElems \div 2 \in Int /\ WordElems = 2 * (WordElems \div 2) + (WordElems % 2)
  BY <1>1, DivModBy
<1> QED
  BY <1>1, <1>2 DEF SyncElems, Now, packetClocks

\* The syncs, by their elements.
LEMMA SyncsAreElems ==
  /\ HalfSyncElems \in Seq(Values) /\ Len(HalfSyncElems) = WordElems
  /\ \A i \in 1 .. WordElems : HalfSyncElems[i] = IF i = WordElems THEN "7" ELSE "f"
  /\ FullSyncElems \in Seq(Values) /\ Len(FullSyncElems) = SyncElems
  /\ \A i \in 1 .. SyncElems : FullSyncElems[i] = IF i = SyncElems THEN "7" ELSE "f"
  BY PinSizes DEF HalfSyncElems, FullSyncElems, Values

\* A word is no half sync, and not all ones.
LEMMA WordIs ==
  ASSUME NEW w \in Words
  PROVE  /\ w \in Seq(Values) /\ Len(w) = WordElems
         /\ \E i \in 1 .. WordElems - 2 : w[i] # "f"
         /\ w # HalfSyncElems
<1>1. w \in Seq(Values) /\ Len(w) = WordElems
  BY SizeAssumption DEF Values
<1>2. WordElems \div 2 = packetClocks + 1
  BY SizeAssumption, PinSizes DEF packetClocks
<1>3. PICK i \in 1 .. WordElems \div 2 : w[i] # "f"
  BY WordAssumption
<1>4. i \in 1 .. WordElems - 2
  BY <1>2, <1>3, PinSizes
<1>5. HalfSyncElems[i] = "f"
  BY <1>4, SyncsAreElems, PinSizes
<1> QED
  BY <1>1, <1>3, <1>4, <1>5

\* The words of a frame, or of the beginning of one.
LEMMA FrameIs ==
  ASSUME NEW f \in Frames
  PROVE  /\ f \in Seq(Words) /\ Len(f) \in Nat /\ Len(f) <= FrameWords
         /\ \A i \in 1 .. Len(f) : f[i] \in Words
         /\ f = << >> <=> Len(f) = 0
  BY EmptySeq, ElementOfSeq DEF Frames

\* A frame without its last word.
LEMMA FrontOfFrame ==
  ASSUME NEW f \in Frames, f # << >>
  PROVE  /\ SubSeq(f, 1, Len(f) - 1) \in Frames /\ Len(SubSeq(f, 1, Len(f) - 1)) = Len(f) - 1
         /\ \A i \in 1 .. Len(f) - 1 : SubSeq(f, 1, Len(f) - 1)[i] = f[i]
<1> DEFINE s == SubSeq(f, 1, Len(f) - 1)
           n == Len(f) - 1
<1>1. n \in Nat /\ n < FrameWords /\ Len(f) = n + 1 /\ \A i \in 1 .. n : f[i] \in Words
  BY FrameIs, PinSizes
<1>2. s = SubSeq(f, 1, n)
  OBVIOUS
<1> HIDE DEF s, n
<1>3. /\ s \in Seq(Words) /\ Len(s) = IF 1 <= n THEN n - 1 + 1 ELSE 0
      /\ \A i \in 1 .. n - 1 + 1 : s[i] = f[1 + i - 1]
  <2>1. 1 \in Int /\ n \in Int
    BY <1>1
  <2> QED
    BY <1>1, <1>2, <2>1, SubSeqProperties
<1>4. Len(s) = n
  BY <1>1, <1>3
<1>5. \A i \in 1 .. n : s[i] = f[i]
  BY <1>1, <1>3
<1>6. s \in Frames
  BY <1>1, <1>3, <1>4, PinSizes DEF Frames
<1> QED
  BY <1>4, <1>5, <1>6 DEF s, n

\* The elements of an item: its values, and the mark at its end.
LEMMA ElemsAre ==
  ASSUME NEW word \in Seq(Values), NEW mark \in Marks
  PROVE  /\ Elems(word, mark) \in Seq(Samples) /\ Len(Elems(word, mark)) = Len(word)
         /\ \A i \in 1 .. Len(word) :
              /\ Elems(word, mark)[i].v = word[i]
              /\ Elems(word, mark)[i].mark = IF i = Len(word) THEN mark ELSE NoMark
<1>1. Len(word) \in Nat /\ \A i \in 1 .. Len(word) : word[i] \in Values
  BY ElementOfSeq
<1>2. NoMark \in Marks
  BY EmptySeq, PinSizes DEF NoMark, Marks, Frames, NoFrame
<1>3. \A i \in 1 .. Len(word) :
        [v |-> word[i], mark |-> IF i = Len(word) THEN mark ELSE NoMark] \in Samples
  BY <1>1, <1>2 DEF Samples
<1> QED
  BY <1>1, <1>3 DEF Elems

-----------------------------------------------------------------------------
\* The marks.
LEMMA NoMarkIs == NoMark \in Marks /\ NoMark.frame = << >> /\ ~NoMark.sync
  BY EmptySeq, PinSizes DEF NoMark, Marks, Frames, NoFrame

\* The marks of a full sync and of a frame.
LEMMA MarksAre ==
  /\ SyncMark \in Marks /\ SyncMark.sync /\ SyncMark.frame = << >>
  /\ \A f \in Frames : FrameMark(f) \in Marks /\ ~FrameMark(f).sync /\ FrameMark(f).frame = f
<1>1. ASSUME NEW m, m = [NoMark EXCEPT !.sync = TRUE] PROVE m \in Marks /\ m.sync /\ m.frame = << >>
  BY <1>1, NoMarkIs DEF Marks
<1>2. ASSUME NEW f \in Frames, NEW m, m = [NoMark EXCEPT !.frame = f]
      PROVE  m \in Marks /\ ~m.sync /\ m.frame = f
  BY <1>2, NoMarkIs DEF Marks
<1> QED
  BY <1>1, <1>2 DEF SyncMark, FrameMark

\* Only a full sync has more elements than a word.
LEMMA ItemFacts ==
  ASSUME NEW it \in Items, IsItem(it)
  PROVE  /\ it.word \in Seq(Values) /\ it.mark \in Marks
         /\ it.frame \in Frames /\ it.before \in Frames
         /\ Len(it.frame) < FrameWords /\ Len(it.before) < FrameWords
         /\ FullItem(it) => Len(it.word) = SyncElems
         /\ ~FullItem(it) => Len(it.word) = WordElems
<1>1. it.word \in Seq(Values) /\ it.mark \in Marks /\ it.frame \in Frames /\ it.before \in Frames
  BY DEF Items
<1>2. Len(it.frame) < FrameWords
  BY DEF IsItem
<1>3. CASE HalfItem(it)
  <2>1. Len(it.word) = WordElems /\ Len(it.before) < FrameWords
    BY <1>2, <1>3, SyncsAreElems DEF HalfItem
  <2>2. ~FullItem(it)
    BY <1>3, SyncsAreElems, PinSizes DEF HalfItem, FullItem
  <2> QED
    BY <1>1, <1>2, <2>1, <2>2
<1>4. CASE FullItem(it)
  <2>1. Len(it.word) = SyncElems /\ Len(it.before) < FrameWords
    BY <1>4, SyncsAreElems, PinSizes, EmptySeq DEF FullItem
  <2> QED
    BY <1>1, <1>2, <1>4, <2>1
<1>5. ASSUME NEW f \in Frames, WordItem(it, f)
      PROVE  Len(it.word) = WordElems /\ Len(it.before) < FrameWords /\ ~FullItem(it)
  <2>1. f # << >> /\ it.word = f[Len(f)] /\ it.before = SubSeq(f, 1, Len(f) - 1)
    BY <1>5 DEF WordItem
  <2>2. Len(f) \in 1 .. FrameWords /\ f[Len(f)] \in Words
    BY <2>1, FrameIs, PinSizes
  <2>3. Len(it.word) = WordElems
    BY <2>1, <2>2, WordIs
  <2>4. Len(it.before) = Len(f) - 1
    BY <2>1, FrontOfFrame
  <2>5. ~FullItem(it)
    BY <2>3, SyncsAreElems, PinSizes DEF FullItem
  <2> QED
    BY <2>2, <2>3, <2>4, <2>5, PinSizes
<1> QED
  BY <1>1, <1>2, <1>3, <1>4, <1>5 DEF IsItem

\* An item has an even number of elements, at least four.
LEMMA ItemLen ==
  ASSUME NEW it \in Items, IsItem(it)
  PROVE  /\ Len(it.word) \in Nat /\ Len(it.word) >= 4 /\ Len(it.word) <= SyncElems
         /\ Len(it.word) % 2 = 0
<1>1. Len(it.word) = SyncElems \/ Len(it.word) = WordElems
  BY ItemFacts
<1>2. WordElems % 2 = 0
  BY SizeAssumption
<1>3. SyncElems % 2 = 0
  BY PinSizes DEF SyncElems
<1>4. /\ WordElems \in Nat /\ WordElems >= 4 /\ SyncElems \in Nat
      /\ SyncElems >= WordElems
  BY PinSizes
<1>5. CASE Len(it.word) = SyncElems
  BY <1>3, <1>4, <1>5
<1>6. CASE Len(it.word) = WordElems
  BY <1>2, <1>4, <1>6
<1> QED
  BY <1>1, <1>5, <1>6

\* What the port may send next is an item that follows its frame.
LEMMA NextItemIs ==
  ASSUME pins.frame \in Frames, Len(pins.frame) < FrameWords, NEW item \in NextItems
  PROVE  \E it \in Items :
           /\ IsItem(it) /\ it.before = pins.frame
           /\ item = [elems |-> Elems(it.word, it.mark), frame |-> it.frame]
<1>1. CASE item = [elems |-> Elems(HalfSyncElems, NoMark), frame |-> pins.frame]
  <2> DEFINE it == [word |-> HalfSyncElems, mark |-> NoMark, frame |-> pins.frame, before |-> pins.frame]
  <2>1. it \in Items
    BY NoMarkIs, SyncsAreElems DEF Items
  <2>2. IsItem(it)
    BY DEF IsItem, HalfItem
  <2> QED
    BY <1>1, <2>1, <2>2
<1>2. ASSUME pins.frame = << >>,
             item = [elems |-> Elems(FullSyncElems, SyncMark), frame |-> << >>]
      PROVE  \E it \in Items :
               /\ IsItem(it) /\ it.before = pins.frame
               /\ item = [elems |-> Elems(it.word, it.mark), frame |-> it.frame]
  <2> DEFINE it == [word |-> FullSyncElems, mark |-> SyncMark, frame |-> << >>, before |-> << >>]
  <2>2. it \in Items
    BY <1>2, SyncsAreElems, MarksAre DEF Items
  <2>3. IsItem(it)
    BY <1>2, SyncsAreElems DEF IsItem, FullItem
  <2> QED
    BY <1>2, <2>2, <2>3
<1>3. ASSUME NEW w \in Words,
             item = LET words == Append(pins.frame, w)
                    IN  IF Len(words) = FrameWords
                        THEN [elems |-> Elems(w, FrameMark(words)), frame |-> << >>]
                        ELSE [elems |-> Elems(w, NoMark), frame |-> words]
      PROVE  \E it \in Items :
               /\ IsItem(it) /\ it.before = pins.frame
               /\ item = [elems |-> Elems(it.word, it.mark), frame |-> it.frame]
  <2> DEFINE f == Append(pins.frame, w)
             m == FrameMark(f)
  <2>1. /\ f \in Seq(Words) /\ Len(f) = Len(pins.frame) + 1 /\ f # << >> /\ f[Len(f)] = w
        /\ \A i \in 1 .. Len(pins.frame) : f[i] = pins.frame[i]
    BY AppendProperties DEF Frames
  <2>2. f \in Frames
    BY <2>1, FrameIs, PinSizes DEF Frames
  <2>3. SubSeq(f, 1, Len(f) - 1) = pins.frame
    <3>1. /\ SubSeq(f, 1, Len(f) - 1) \in Frames /\ Len(SubSeq(f, 1, Len(f) - 1)) = Len(f) - 1
          /\ \A i \in 1 .. Len(f) - 1 : SubSeq(f, 1, Len(f) - 1)[i] = f[i]
      BY <2>1, <2>2, FrontOfFrame
    <3>2. Len(pins.frame) \in Nat /\ Len(f) - 1 = Len(pins.frame)
      BY <2>1, FrameIs
    <3> HIDE DEF f
    <3> QED
      BY <2>1, <3>1, <3>2, SeqEqual DEF Frames
  <2>4. w \in Seq(Values) /\ << >> \in Frames /\ m \in Marks
    <3>1. m \in Marks
      BY <2>2, MarksAre
    <3>2. w \in Seq(Values)
      BY WordIs
    <3> QED
      BY <3>1, <3>2, EmptySeq, PinSizes DEF Frames
  <2>6. CASE Len(f) = FrameWords
    <3> DEFINE it == [word |-> w, mark |-> m, frame |-> << >>, before |-> pins.frame]
    <3>1. it \in Items
      BY <2>4 DEF Items
    <3>2. WordItem(it, f)
      BY <2>1, <2>3, <2>6 DEF WordItem
    <3>3. Len(it.frame) < FrameWords
      BY EmptySeq, PinSizes
    <3> HIDE DEF it
    <3>4. IsItem(it)
      BY <2>2, <3>2, <3>3 DEF IsItem
    <3>5. item = [elems |-> Elems(w, m), frame |-> << >>]
      BY <1>3, <2>6
    <3> QED
      BY <3>1, <3>4, <3>5 DEF it
  <2>7. CASE Len(f) # FrameWords
    <3> DEFINE it == [word |-> w, mark |-> NoMark, frame |-> f, before |-> pins.frame]
    <3>1. it \in Items
      BY <2>2, <2>4, NoMarkIs DEF Items
    <3>2. Len(f) < FrameWords
      BY <2>2, <2>7, FrameIs, PinSizes
    <3>3. WordItem(it, f)
      BY <2>1, <2>3, <3>2 DEF WordItem
    <3>4. IsItem(it)
      BY <2>2, <3>2, <3>3 DEF IsItem
    <3>5. item = [elems |-> Elems(w, NoMark), frame |-> f]
      BY <1>3, <2>7
    <3> QED
      BY <3>1, <3>4, <3>5
  <2> QED
    BY <2>6, <2>7
<1> QED
  BY <1>1, <1>2, <1>3 DEF NextItems, SyncMark, FrameMark

-----------------------------------------------------------------------------
\* The port's elements from now on: h of the item it were sampled, or -h elements of the
\* item before it are to come first.
AheadOf(ahead, it, h) ==
  /\ ahead.elems \in Seq(Samples) /\ ahead.frame = it.frame
  /\ h \in -2 .. Len(it.word) - 3 /\ Len(ahead.elems) = Len(it.word) - h
  /\ \A i \in 1 .. Len(ahead.elems) :
       h + i >= 1 => ahead.elems[i] = Elems(it.word, it.mark)[h + i]

\* The item goes on.
LEMMA AheadSame ==
  ASSUME PinsType, NEW it \in Items, IsItem(it), RestOf(it), Len(pins.rest) > 2, NEW ahead \in Ahead
  PROVE  AheadOf(ahead, it, Gone(it))
<1>1. ahead = [elems |-> pins.rest, frame |-> pins.frame]
  BY DEF Ahead
<1>2. /\ ahead.elems = pins.rest /\ ahead.frame = pins.frame /\ pins.rest \in Seq(Samples)
      /\ Len(pins.rest) \in Nat
  BY <1>1 DEF PinsType
<1>3. Len(it.word) \in Nat
  BY ItemFacts
<1>4. Gone(it) = Len(it.word) - Len(pins.rest)
  BY DEF Gone
<1>5. /\ pins.frame = it.frame /\ Gone(it) \in -1 .. Len(it.word) - 1
      /\ \A i \in 1 .. Len(pins.rest) :
           Gone(it) + i >= 1 => pins.rest[i] = Elems(it.word, it.mark)[Gone(it) + i]
  BY DEF RestOf
<1>6. Gone(it) \in -2 .. Len(it.word) - 3 /\ Len(ahead.elems) = Len(it.word) - Gone(it)
  <2> DEFINE g == Gone(it)
             len == Len(it.word)
             n == Len(pins.rest)
  <2>1. len \in Nat /\ n \in Nat /\ g = len - n /\ g \in -1 .. len - 1 /\ n > 2
    BY <1>2, <1>3, <1>4, <1>5
  <2> HIDE DEF g, len, n
  <2>2. g \in -2 .. len - 3 /\ n = len - g
    BY <2>1
  <2> QED
    BY <1>2, <2>2 DEF g, len, n
<1> QED
  BY <1>2, <1>5, <1>6 DEF AheadOf

\* The item ends in this clock, and another one follows.
LEMMA AheadNext ==
  ASSUME PinsType, Len(pins.frame) < FrameWords, Len(pins.rest) <= 2, NEW ahead \in Ahead
  PROVE  \E it \in Items :
           /\ IsItem(it) /\ it.before = pins.frame /\ AheadOf(ahead, it, -Len(pins.rest))
           /\ \A i \in 1 .. Len(pins.rest) : ahead.elems[i] = pins.rest[i]
<1> DEFINE r == pins.rest
           n == Len(pins.rest)
<1>1. pins.frame \in Frames /\ r \in Seq(Samples)
  BY DEF PinsType
<1>11. n \in 0 .. 2
  <2>1. n \in Nat
    BY <1>1, LenProperties
  <2>2. n <= 2
    OBVIOUS
  <2> HIDE DEF n
  <2> QED
    BY <2>1, <2>2
<1>2. PICK item \in NextItems : ahead = [item EXCEPT !.elems = r \o @]
  <2>1. ~(Len(pins.rest) > 2)
    BY <1>11
  <2> QED
    BY <2>1, Zenon DEF Ahead
<1>3. PICK it \in Items :
        /\ IsItem(it) /\ it.before = pins.frame
        /\ item = [elems |-> Elems(it.word, it.mark), frame |-> it.frame]
  BY <1>1, NextItemIs
<1> DEFINE e == Elems(it.word, it.mark)
<1>4. it.word \in Seq(Values) /\ it.mark \in Marks /\ Len(it.word) \in Nat /\ Len(it.word) >= 4
  BY <1>3, ItemFacts, PinSizes
<1>5. e \in Seq(Samples) /\ Len(e) = Len(it.word)
  BY <1>4, ElemsAre
<1>6. ahead.elems = r \o e /\ ahead.frame = it.frame
  BY <1>2, <1>3
<1>7. /\ r \o e \in Seq(Samples) /\ Len(r \o e) = n + Len(e)
      /\ \A i \in 1 .. n + Len(e) : (r \o e)[i] = IF i <= n THEN r[i] ELSE e[i - n]
  <2> HIDE DEF e
  <2> QED
    BY <1>1, <1>5, ConcatProperties
<1> HIDE DEF e, r, n
<1>8. \A i \in 1 .. Len(ahead.elems) : i > n => ahead.elems[i] = e[i - n]
  <2>1. Len(ahead.elems) = n + Len(e) /\ Len(e) \in Nat
    BY <1>4, <1>5, <1>6, <1>7
  <2>2. ASSUME NEW i \in 1 .. Len(ahead.elems), i > n PROVE ahead.elems[i] = e[i - n]
    <3>1. i \in 1 .. n + Len(e) /\ ~(i <= n)
      BY <1>11, <2>1, <2>2
    <3> QED
      BY <1>6, <1>7, <3>1
  <2> QED
    BY <2>2
<1>9. \A i \in 1 .. n : ahead.elems[i] = r[i]
  BY <1>11, <1>4, <1>5, <1>6, <1>7
<1>10. AheadOf(ahead, it, -n)
  <2>1. \A i \in 1 .. Len(ahead.elems) : -n + i >= 1 => i > n /\ -n + i = i - n
    BY <1>11, <1>4, <1>5, <1>6, <1>7
  <2>2. -n \in -2 .. Len(it.word) - 3 /\ Len(ahead.elems) = Len(it.word) - (-n)
    <3> DEFINE len == Len(it.word)
    <3>1. len \in Nat /\ len >= 4 /\ Len(ahead.elems) = n + len
      BY <1>4, <1>5, <1>6, <1>7
    <3> HIDE DEF len
    <3>2. -n \in -2 .. len - 3 /\ n + len = len - (-n)
      BY <1>11, <3>1
    <3> QED
      BY <3>1, <3>2 DEF len
  <2> QED
    BY <1>6, <1>7, <1>8, <2>1, <2>2 DEF AheadOf, e
<1> QED
  BY <1>3, <1>9, <1>10 DEF n, r

\* The values and marks of the elements ahead.
LEMMA AheadElems ==
  ASSUME NEW it \in Items, IsItem(it), NEW ahead, NEW h \in Int, AheadOf(ahead, it, h),
         NEW i \in 1 .. 3
  PROVE  /\ i <= Len(ahead.elems) /\ ahead.elems[i] \in Samples /\ ahead.elems[i].v \in Values
         /\ h + i >= 1 =>
              /\ ahead.elems[i].v = it.word[h + i]
              /\ ahead.elems[i].mark = IF h + i = Len(it.word) THEN it.mark ELSE NoMark
<1>1. it.word \in Seq(Values) /\ it.mark \in Marks /\ Len(it.word) \in Nat
  BY ItemFacts
<1>2. /\ ahead.elems \in Seq(Samples) /\ h <= Len(it.word) - 3 /\ Len(ahead.elems) = Len(it.word) - h
      /\ \A k \in 1 .. Len(ahead.elems) :
           h + k >= 1 => ahead.elems[k] = Elems(it.word, it.mark)[h + k]
  BY <1>1 DEF AheadOf
<1>3. i \in 1 .. Len(ahead.elems)
  BY <1>1, <1>2
<1>4. ahead.elems[i] \in Samples
  BY <1>2, <1>3, ElementOfSeq
<1>5. h + i >= 1 => h + i \in 1 .. Len(it.word) /\ ahead.elems[i] = Elems(it.word, it.mark)[h + i]
  BY <1>1, <1>2, <1>3
<1>6. ahead.elems[i].v \in Values
  BY <1>4 DEF Samples
<1> QED
  BY <1>1, <1>3, <1>4, <1>5, <1>6, ElemsAre

\* The port goes on by n elements.
LEMMA RestMoves ==
  ASSUME NEW it \in Items, IsItem(it), NEW ahead, NEW h \in Int, AheadOf(ahead, it, h),
         NEW n \in 1 .. 3, h + n >= -1,
         pins' = [rest |-> SubSeq(ahead.elems, n + 1, Len(ahead.elems)), frame |-> ahead.frame]
  PROVE  /\ pins' \in [rest : Seq(Samples), frame : Frames] /\ pins'.frame = it.frame
         /\ IF h + n < Len(it.word) THEN RestOf(it)' /\ Gone(it)' = h + n ELSE pins'.rest = << >>
<1> DEFINE e == ahead.elems
           len == Len(it.word)
           r == SubSeq(e, n + 1, Len(e))
<1>1. len \in Nat /\ it.frame \in Frames
  BY ItemFacts
<1>2. /\ e \in Seq(Samples) /\ ahead.frame = it.frame /\ h \in -2 .. len - 3 /\ Len(e) = len - h
      /\ \A i \in 1 .. Len(e) : h + i >= 1 => e[i] = Elems(it.word, it.mark)[h + i]
  BY DEF AheadOf
<1>3. pins'.rest = r /\ pins'.frame = it.frame
  BY <1>2
<1>4. /\ r \in Seq(Samples)
      /\ Len(r) = IF n + 1 <= Len(e) THEN Len(e) - (n + 1) + 1 ELSE 0
      /\ \A i \in 1 .. Len(e) - (n + 1) + 1 : r[i] = e[n + 1 + i - 1]
  <2>1. n + 1 \in Int /\ Len(e) \in Int
    BY <1>1, <1>2
  <2> HIDE DEF e
  <2>2. \A i \in n + 1 .. Len(e) : i \in 1 .. Len(e)
    BY <2>1
  <2>3. \A i \in n + 1 .. Len(e) : e[i] \in Samples
    BY <1>2, <2>2, ElementOfSeq
  <2> QED
    BY <2>1, <2>3, SubSeqProperties
<1> HIDE DEF e, len, r
<1>5. n <= Len(e) /\ Len(r) = len - (h + n)
  <2>1. h \in Int /\ len \in Int /\ h <= len - 3 /\ Len(e) = len - h /\ n \in 1 .. 3
    BY <1>1, <1>2
  <2>2. Len(r) = IF n + 1 <= Len(e) THEN Len(e) - (n + 1) + 1 ELSE 0
    BY <1>4
  <2> QED
    BY <2>1, <2>2
<1>6. \A i \in 1 .. Len(r) : r[i] = e[n + i]
  BY <1>1, <1>2, <1>4, <1>5
<1>7. ASSUME h + n < len PROVE RestOf(it)' /\ Gone(it)' = h + n
  <2>1. Gone(it)' = h + n
    <3>1. Gone(it)' = len - Len(r)
      BY <1>3, Zenon DEF Gone, len
    <3> QED
      BY <1>1, <1>2, <1>5, <3>1
  <2>2. \A i \in 1 .. Len(r) : h + n + i >= 1 => r[i] = Elems(it.word, it.mark)[h + n + i]
    <3> SUFFICES ASSUME NEW i \in 1 .. Len(r), h + n + i >= 1
                 PROVE  r[i] = Elems(it.word, it.mark)[h + n + i]
      OBVIOUS
    <3>1. n + i \in 1 .. Len(e) /\ h + (n + i) >= 1 /\ h + (n + i) = h + n + i
      BY <1>1, <1>2, <1>5
    <3>2. e[n + i] = Elems(it.word, it.mark)[h + (n + i)]
      BY <1>2, <3>1
    <3> QED
      BY <1>6, <3>1, <3>2
  <2>3. h + n \in -1 .. len - 1
    BY <1>1, <1>2, <1>7
  <2> QED
    BY <1>3, <2>1, <2>2, <2>3 DEF RestOf, len
<1>8. ASSUME ~(h + n < len) PROVE r = << >>
  BY <1>1, <1>2, <1>4, <1>5, <1>8, EmptySeq
<1> QED
  BY <1>1, <1>3, <1>4, <1>7, <1>8 DEF r, len, e

-----------------------------------------------------------------------------
\* The elements are shifted by two.
LEMMA Shifted ==
  ASSUME PinsType, NEW a \in Values, NEW b \in Values, CaptureStep(a, b)
  PROVE  /\ construct' \in Seq(Values) /\ Len(construct') = Now
         /\ \A k \in 1 .. SyncElems - 1 : construct'[k] = construct[k + 2]
         /\ construct'[SyncElems] = a /\ construct'[SyncElems + 1] = b
<1> DEFINE s == construct \o <<a, b>>
<1>1. construct \in Seq(Values) /\ Len(construct) = SyncElems + 1 /\ SyncElems \in Nat
  BY PinSizes DEF PinsType
<1>2. /\ s \in Seq(Values) /\ Len(s) = SyncElems + 3
      /\ \A k \in 1 .. SyncElems + 1 : s[k] = construct[k]
      /\ s[SyncElems + 2] = a /\ s[SyncElems + 3] = b
  BY <1>1
<1>3. construct' = SubSeq(s, 3, SyncElems + 3)
  BY DEF CaptureStep
<1> HIDE DEF s
<1>4. /\ construct' \in Seq(Values)
      /\ Len(construct') = IF 3 <= SyncElems + 3 THEN SyncElems + 3 - 3 + 1 ELSE 0
      /\ \A k \in 1 .. SyncElems + 3 - 3 + 1 : construct'[k] = s[3 + k - 1]
  <2>1. \A k \in 3 .. SyncElems + 3 : k \in 1 .. Len(s)
    BY <1>1, <1>2
  <2>2. \A k \in 3 .. SyncElems + 3 : s[k] \in Values
    BY <1>2, <2>1, ElementOfSeq
  <2> QED
    BY <1>1, <1>3, <2>2, SubSeqProperties
<1>5. Len(construct') = SyncElems + 1
  BY <1>1, <1>4
<1>6. \A k \in 1 .. SyncElems + 1 : construct'[k] = s[k + 2]
  <2> SUFFICES ASSUME NEW k \in 1 .. SyncElems + 1 PROVE construct'[k] = s[k + 2]
    OBVIOUS
  <2>1. k \in 1 .. SyncElems + 3 - 3 + 1 /\ 3 + k - 1 = k + 2
    BY <1>1
  <2> QED
    BY <1>4, <2>1
<1>7. \A k \in 1 .. SyncElems - 1 : construct'[k] = construct[k + 2]
  <2> SUFFICES ASSUME NEW k \in 1 .. SyncElems - 1 PROVE construct'[k] = construct[k + 2]
    OBVIOUS
  <2>1. k \in 1 .. SyncElems + 1 /\ k + 2 \in 1 .. SyncElems + 1
    BY <1>1
  <2> QED
    BY <1>2, <1>6, <2>1
<1>8. construct'[SyncElems] = a /\ construct'[SyncElems + 1] = b
  <2>1. /\ SyncElems \in 1 .. SyncElems + 1 /\ SyncElems + 1 \in 1 .. SyncElems + 1
        /\ SyncElems + 1 + 2 = SyncElems + 3
    BY <1>1, PinSizes
  <2> QED
    BY <1>2, <1>6, <2>1
<1> QED
  BY <1>4, <1>5, <1>7, <1>8, PinSizes

\* A prefix, by its elements.
LEMMA PrefixIs ==
  ASSUME NEW s \in Seq(Values), NEW t \in Seq(Values)
  PROVE  IsPrefix(s, t) <=> Len(s) <= Len(t) /\ \A i \in 1 .. Len(s) : s[i] = t[i]
<1>1. Len(s) \in Nat /\ Len(t) \in Nat /\ SubSeq(s, 1, Len(s)) = s
  BY SubSeqFull
<1>2. ASSUME Len(s) <= Len(t)
      PROVE  s = SubSeq(t, 1, Len(s)) <=> \A i \in 1 .. Len(s) : s[i] = t[i]
  <2> DEFINE n == Len(s)
             u == SubSeq(t, 1, n)
  <2>1. n \in Nat /\ n <= Len(t) /\ Len(s) = n
    BY <1>1, <1>2
  <2>2. \A i \in 1 .. n : i \in 1 .. Len(t)
    BY <1>1, <2>1
  <2> HIDE DEF n
  <2>3. \A i \in 1 .. n : t[i] \in Values
    BY <2>2, ElementOfSeq
  <2>4. /\ u \in Seq(Values) /\ Len(u) = IF 1 <= n THEN n - 1 + 1 ELSE 0
        /\ \A i \in 1 .. n - 1 + 1 : u[i] = t[1 + i - 1]
    <3>1. 1 \in Int /\ n \in Int
      BY <2>1
    <3> QED
      BY <2>3, <3>1, SubSeqProperties
  <2> HIDE DEF u
  <2>5. Len(u) = n /\ \A i \in 1 .. n : u[i] = t[i]
    BY <2>1, <2>4
  <2>6. (\A i \in 1 .. n : s[i] = t[i]) => s = u
    BY <2>1, <2>4, <2>5, SeqEqual
  <2>7. s = u => \A i \in 1 .. n : s[i] = t[i]
    BY <2>5
  <2> QED
    BY <2>6, <2>7 DEF u, n
<1> QED
  BY <1>1, <1>2 DEF IsPrefix

\* A full sync ends with the falling edge's element, or with the one before it.
LEMMA SyncsByElems ==
  ASSUME PinsType
  PROVE  /\ FEsyncPacket <=> construct[SyncElems] = "7" /\ \A k \in 1 .. SyncElems - 1 : construct[k] = "f"
         /\ REsyncPacket <=> construct[SyncElems + 1] = "7" /\ \A k \in 2 .. SyncElems : construct[k] = "f"
<1>1. construct \in Seq(Values) /\ Len(construct) = SyncElems + 1 /\ SyncElems \in Nat /\ SyncElems >= 8
  BY PinSizes DEF PinsType
<1>2. /\ FullSyncElems \in Seq(Values) /\ Len(FullSyncElems) = SyncElems
      /\ FullSyncElems[SyncElems] = "7" /\ \A i \in 1 .. SyncElems - 1 : FullSyncElems[i] = "f"
  BY <1>1, SyncsAreElems
<1>3. FEsyncPacket <=> \A i \in 1 .. SyncElems : FullSyncElems[i] = construct[i]
  BY <1>1, <1>2, PrefixIs DEF FEsyncPacket
<1>4. FEsyncPacket <=> construct[SyncElems] = "7" /\ \A k \in 1 .. SyncElems - 1 : construct[k] = "f"
  BY <1>1, <1>2, <1>3
<1> DEFINE s == Reverse(FullSyncElems)
           t == Reverse(construct)
<1>5. /\ s \in Seq(Values) /\ Len(s) = SyncElems
      /\ \A i \in 1 .. SyncElems : s[i] = FullSyncElems[SyncElems - i + 1]
  BY <1>1, <1>2 DEF Reverse
<1>6. /\ t \in Seq(Values) /\ Len(t) = SyncElems + 1
      /\ \A i \in 1 .. SyncElems + 1 : t[i] = construct[SyncElems + 1 - i + 1]
  BY <1>1 DEF Reverse
<1>7. REsyncPacket <=> IsPrefix(s, t)
  BY DEF REsyncPacket, IsSuffix
<1> HIDE DEF s, t
<1>8. REsyncPacket <=> \A i \in 1 .. SyncElems : s[i] = t[i]
  <2>1. IsPrefix(s, t) <=> Len(s) <= Len(t) /\ \A i \in 1 .. Len(s) : s[i] = t[i]
    BY <1>5, <1>6, PrefixIs
  <2>2. Len(s) = SyncElems /\ Len(s) <= Len(t)
    BY <1>1, <1>5, <1>6
  <2> QED
    BY <1>7, <2>1, <2>2
<1>9. \A i \in 1 .. SyncElems : t[i] = construct[SyncElems + 2 - i]
  BY <1>1, <1>6
<1>10. s[1] = "7" /\ \A i \in 2 .. SyncElems : s[i] = "f"
  BY <1>1, <1>2, <1>5
<1>11. ASSUME REsyncPacket
       PROVE  construct[SyncElems + 1] = "7" /\ \A k \in 2 .. SyncElems : construct[k] = "f"
  <2>1. construct[SyncElems + 1] = "7"
    BY <1>1, <1>8, <1>9, <1>10, <1>11
  <2>2. ASSUME NEW k \in 2 .. SyncElems PROVE construct[k] = "f"
    <3>1. SyncElems + 2 - k \in 2 .. SyncElems /\ SyncElems + 2 - (SyncElems + 2 - k) = k
      BY <1>1
    <3> QED
      BY <1>1, <1>8, <1>9, <1>10, <1>11, <3>1
  <2> QED
    BY <2>1, <2>2
<1>12. ASSUME construct[SyncElems + 1] = "7", \A k \in 2 .. SyncElems : construct[k] = "f"
       PROVE  REsyncPacket
  <2>1. ASSUME NEW i \in 1 .. SyncElems PROVE s[i] = t[i]
    <3>1. CASE i = 1
      <4>1. t[1] = construct[SyncElems + 1]
        BY <1>1, <1>9
      <4> QED
        BY <1>10, <1>12, <3>1, <4>1
    <3>2. CASE i # 1
      <4>1. i \in 2 .. SyncElems /\ SyncElems + 2 - i \in 2 .. SyncElems
        BY <1>1, <3>2
      <4> QED
        BY <1>9, <1>10, <1>12, <4>1
    <3> QED
      BY <3>1, <3>2
  <2> QED
    BY <1>8, <2>1
<1> QED
  BY <1>4, <1>11, <1>12

\* The word that is cut is the one before the last g elements.
LEMMA PacketIs ==
  ASSUME PinsType, NEW g \in {0, 1}, isREsync <=> g = 0
  PROVE  /\ packet \in Seq(Values)
         /\ \A w \in Seq(Values) : Len(w) = WordElems /\ EndsBefore(g, w) => packet = w
<1> DEFINE m == Now - g - WordElems + 1
           n == Now - g
<1>1. construct \in Seq(Values) /\ Len(construct) = Now /\ WordElems \in Nat /\ Now \in Nat /\ Now > WordElems + 1
  BY PinSizes DEF PinsType
<1>2. packet = SubSeq(construct, m, n)
  <2>1. CASE g = 0
    <3>1. m = SyncElems + 1 - WordElems + 1 /\ n = SyncElems + 1
      BY <2>1, PinSizes
    <3> QED
      BY <2>1, <3>1 DEF packet
  <2>2. CASE g = 1
    <3>1. m = SyncElems - WordElems + 1 /\ n = SyncElems
      BY <2>2, PinSizes
    <3>2. ~isREsync
      BY <2>2
    <3> HIDE DEF m, n
    <3> QED
      BY <3>1, <3>2 DEF packet
  <2> QED
    BY <2>1, <2>2
<1>3. m \in Int /\ n \in Int /\ n - m + 1 = WordElems /\ 1 <= m /\ n <= Now
  BY <1>1
<1> HIDE DEF m, n
<1>4. /\ packet \in Seq(Values) /\ Len(packet) = IF m <= n THEN n - m + 1 ELSE 0
      /\ \A i \in 1 .. n - m + 1 : packet[i] = construct[m + i - 1]
  <2>1. \A k \in m .. n : k \in 1 .. Len(construct)
    BY <1>1, <1>3
  <2>2. \A k \in m .. n : construct[k] \in Values
    BY <1>1, <2>1, ElementOfSeq
  <2> QED
    BY <1>2, <1>3, <2>2, SubSeqProperties
<1>5. Len(packet) = WordElems
  BY <1>1, <1>3, <1>4
<1>6. ASSUME NEW w \in Seq(Values), Len(w) = WordElems, EndsBefore(g, w) PROVE packet = w
  <2>1. ASSUME NEW i \in 1 .. WordElems PROVE packet[i] = w[i]
    <3>1. packet[i] = construct[m + i - 1]
      BY <1>3, <1>4
    <3>2. w[i] = construct[Now - g - WordElems + i]
      BY <1>6 DEF EndsBefore
    <3>3. m + i - 1 = Now - g - WordElems + i
      BY <1>1 DEF m
    <3> QED
      BY <3>1, <3>2, <3>3
  <2> QED
    BY <1>4, <1>5, <1>6, <2>1, SeqEqual
<1> QED
  BY <1>4, <1>6

-----------------------------------------------------------------------------
\* In sync, all of the item that was sampled is in construct.
LEMMA InSyncFacts ==
  ASSUME PinsType, NEW it \in Items, IsItem(it), RestOf(it), Consumed(it), Following(it)
  PROVE  /\ Gone(it) \in 0 .. Len(it.word) - 1 /\ Gone(it) < SyncElems
         /\ \A i \in 1 .. Gone(it) : construct[Now - Gone(it) + i] = it.word[i]
         /\ Gone(it) >= WordElems => FullItem(it)
<1> DEFINE g == Gone(it)
           len == Len(it.word)
<1>1. /\ len \in Nat
      /\ FullItem(it) => len = SyncElems
      /\ ~FullItem(it) => len = WordElems
  BY ItemFacts
<1>2. g \in 0 .. len - 1 /\ watch.clean = SyncElems
  BY <1>1 DEF RestOf, Following
<1>3. \A i \in 1 .. len : i <= g /\ i > g - SyncElems => construct[Now - g + i] = it.word[i]
  BY <1>2 DEF Consumed
<1> HIDE DEF g, len
<1>11. WordElems \in Nat /\ SyncElems \in Nat /\ SyncElems = WordElems + WordElems
  BY PinSizes
<1>4. g < SyncElems /\ (g >= WordElems => FullItem(it))
  <2>1. CASE FullItem(it)
    BY <1>1, <1>2, <1>11, <2>1
  <2>2. CASE ~FullItem(it)
    <3>1. len = WordElems /\ g < len
      BY <1>1, <1>2, <2>2
    <3> QED
      BY <1>2, <1>11, <3>1
  <2> QED
    BY <2>1, <2>2
<1>5. \A i \in 1 .. g : construct[Now - g + i] = it.word[i]
  <2>1. \A i \in 1 .. g : i \in 1 .. len /\ i <= g /\ i > g - SyncElems
    BY <1>1, <1>2, <1>4, <1>11
  <2> QED
    BY <1>3, <2>1
<1> QED
  BY <1>2, <1>4, <1>5 DEF g, len

\* The words are cut by the port's edge and place: no data is taken for a full sync.
LEMMA NoFalseSync ==
  ASSUME PinsType, NEW it \in Items, IsItem(it), RestOf(it), Consumed(it), Following(it),
         Gone(it) < 2 => HalfEnd(it) \/ WordEnd(it)
  PROVE  ~REsyncPacket /\ ~FEsyncPacket
<1> DEFINE g == Gone(it)
<1>1. /\ g \in Nat /\ g < SyncElems /\ (g >= WordElems => FullItem(it))
      /\ \A i \in 1 .. g : construct[Now - g + i] = it.word[i]
  BY InSyncFacts, ItemFacts
<1>2. g < WordElems => NotOnes(g, WordElems)
  BY DEF Following
<1>3. g < 2 => HalfEnd(it) \/ WordEnd(it)
  OBVIOUS
<1>4. HalfEnd(it) => EndsBefore(g, HalfSyncElems) /\ NotOnes(g + WordElems, WordElems)
  BY DEF HalfEnd
<1>5. WordEnd(it) => \E w \in Words : EndsBefore(g, w)
  <2> SUFFICES ASSUME NEW f \in Frames, f # << >>, EndsBefore(g, f[Len(f)])
               PROVE  \E w \in Words : EndsBefore(g, w)
    BY DEF WordEnd
  <2>1. f[Len(f)] \in Words
    BY FrameIs
  <2> QED
    BY <2>1
<1>6. /\ WordElems \in Nat /\ WordElems >= 4 /\ SyncElems = WordElems + WordElems /\ Now = SyncElems + 1
  BY PinSizes
<1> HIDE DEF g
<1>7. ASSUME \E k \in 2 .. SyncElems - 1 : construct[k] # "f" PROVE ~REsyncPacket /\ ~FEsyncPacket
  <2> PICK k \in 2 .. SyncElems - 1 : construct[k] # "f"
    BY <1>7
  <2>1. k \in 1 .. SyncElems - 1 /\ k \in 2 .. SyncElems
    BY <1>6
  <2> QED
    BY <2>1, SyncsByElems
<1>8. CASE g >= WordElems
  <2>1. it.word = FullSyncElems
    BY <1>1, <1>8 DEF FullItem
  <2>2. g \in 1 .. g /\ g - 1 \in 1 .. g /\ Now - g + g = SyncElems + 1 /\ Now - g + (g - 1) = SyncElems
    BY <1>1, <1>6, <1>8
  <2>3. construct[SyncElems + 1] = FullSyncElems[g] /\ construct[SyncElems] = FullSyncElems[g - 1]
    BY <1>1, <2>1, <2>2
  <2>4. g \in 1 .. SyncElems /\ g - 1 \in 1 .. SyncElems /\ g # SyncElems /\ g - 1 # SyncElems
    BY <1>1, <1>6, <1>8
  <2>5. FullSyncElems[g] = "f" /\ FullSyncElems[g - 1] = "f"
    BY <2>4, SyncsAreElems
  <2> QED
    BY <2>3, <2>5, SyncsByElems
<1>9. CASE 2 <= g /\ g < WordElems
  <2>1. PICK i \in 1 .. WordElems : construct[Now - g - WordElems + i] # "f"
    BY <1>2, <1>9 DEF NotOnes
  <2>2. Now - g - WordElems + i \in 2 .. SyncElems - 1
    BY <1>1, <1>6, <1>9
  <2> QED
    BY <1>7, <2>1, <2>2
<1>10. CASE g < 2 /\ WordEnd(it)
  <2>1. PICK w \in Words : EndsBefore(g, w)
    BY <1>5, <1>10
  <2>2. PICK i \in 1 .. WordElems - 2 : w[i] # "f"
    BY WordIs
  <2>3. construct[Now - g - WordElems + i] = w[i]
    <3>1. i \in 1 .. Len(w) /\ Len(w) = WordElems
      BY <1>6, WordIs
    <3> QED
      BY <2>1, <3>1 DEF EndsBefore
  <2>4. Now - g - WordElems + i \in 2 .. SyncElems - 1
    BY <1>1, <1>6, <1>10
  <2> QED
    BY <1>7, <2>2, <2>3, <2>4
<1>11. CASE g < 2 /\ HalfEnd(it)
  <2>1. PICK i \in 1 .. WordElems : construct[Now - (g + WordElems) - WordElems + i] # "f"
    BY <1>4, <1>11 DEF NotOnes
  <2>2. Now - (g + WordElems) - WordElems + i = 1 - g + i
    BY <1>1, <1>6
  <2>3. \A k \in 1 .. WordElems :
          construct[Now - g - WordElems + k] = IF k = WordElems THEN "7" ELSE "f"
    BY <1>4, <1>11, SyncsAreElems DEF EndsBefore
  <2>4. CASE g = 0
    <3>1. 1 - g + i \in 2 .. SyncElems
      BY <1>6, <2>4
    <3>2. Now - g - WordElems + (WordElems - 1) = SyncElems /\ WordElems - 1 \in 1 .. WordElems /\ WordElems - 1 # WordElems
      BY <1>6, <2>4
    <3>3. construct[SyncElems] = "f"
      BY <2>3, <3>2
    <3> QED
      BY <2>1, <2>2, <3>1, <3>3, SyncsByElems
  <2>5. CASE g = 1
    <3>1. 1 - g + i \in 1 .. SyncElems - 1
      BY <1>6, <2>5
    <3>2. Now - g - WordElems + WordElems = SyncElems /\ WordElems \in 1 .. WordElems /\ SyncElems \in 2 .. SyncElems
      BY <1>6, <2>5
    <3>3. construct[SyncElems] = "7"
      BY <2>3, <3>2
    <3> QED
      BY <2>1, <2>2, <3>1, <3>2, <3>3, SyncsByElems
  <2> QED
    BY <1>1, <1>11, <2>4, <2>5
<1> QED
  BY <1>1, <1>3, <1>6, <1>8, <1>9, <1>10, <1>11 DEF g

\* A full sync is seen on the edge its last element was sampled on.
LEMMA SyncSeen ==
  ASSUME PinsType, NEW g \in {0, 1}, EndsBefore(g, FullSyncElems)
  PROVE  /\ g = 0 => REsyncPacket /\ ~FEsyncPacket
         /\ g = 1 => FEsyncPacket
<1>1. /\ WordElems \in Nat /\ WordElems >= 4 /\ SyncElems = WordElems + WordElems /\ Now = SyncElems + 1
      /\ SyncElems \in Nat
  BY PinSizes
<1>2. \A k \in 1 .. SyncElems :
        construct[Now - g - SyncElems + k] = IF k = SyncElems THEN "7" ELSE "f"
  BY SyncsAreElems DEF EndsBefore
<1>3. \A k \in 1 .. SyncElems : Now - g - SyncElems + k = 1 - g + k
  BY <1>1
<1>4. \A k \in 1 .. SyncElems : construct[1 - g + k] = IF k = SyncElems THEN "7" ELSE "f"
  BY <1>2, <1>3
<1>5. CASE g = 0
  <2>1. \A k \in 2 .. SyncElems + 1 : k - 1 \in 1 .. SyncElems /\ 1 - g + (k - 1) = k
    BY <1>1, <1>5
  <2>2. \A k \in 2 .. SyncElems + 1 : construct[k] = IF k - 1 = SyncElems THEN "7" ELSE "f"
    BY <1>4, <2>1
  <2>3. construct[SyncElems + 1] = "7" /\ \A k \in 2 .. SyncElems : construct[k] = "f"
    BY <1>1, <2>2
  <2>4. construct[SyncElems] = "f"
    BY <1>1, <2>3
  <2> QED
    BY <1>5, <2>3, <2>4, SyncsByElems
<1>6. CASE g = 1
  <2>1. \A k \in 1 .. SyncElems : 1 - g + k = k
    BY <1>1, <1>6
  <2>2. construct[SyncElems] = "7" /\ \A k \in 1 .. SyncElems - 1 : construct[k] = "f"
    <3>1. \A k \in 1 .. SyncElems : construct[k] = IF k = SyncElems THEN "7" ELSE "f"
      BY <1>4, <2>1
    <3>2. SyncElems \in 1 .. SyncElems /\ \A k \in 1 .. SyncElems - 1 : k \in 1 .. SyncElems /\ k # SyncElems
      BY <1>1
    <3> QED
      BY <3>1, <3>2
  <2> QED
    BY <1>6, <2>2, SyncsByElems
<1> QED
  BY <1>5, <1>6

-----------------------------------------------------------------------------
CFrameNext ==
  IF WordTaken /\ elemCount > 0 THEN [cFrame EXCEPT ![FrameWords - elemCount] = packet] ELSE cFrame

\* s will have been taken, and nothing of the frame after it.
TakenNext(s) ==
  /\ ElemCountNext = FrameWords - 1 - Len(s)
  /\ \A k \in 1 .. Len(s) : CFrameNext[k] = s[k]

EdgeNext == IF FEsyncPacket THEN FALSE ELSE isREsync \/ REsyncPacket

\* What the clock does in sync.
ClockRight(it) ==
  /\ Emitted = watch.due
  /\ EdgeNext <=> Gone(it) % 2 = 0
  /\ InWord(it) < 2 => RemainingNext = packetClocks
  /\ InWord(it) >= 2 =>
       /\ 2 * remainingClocks \in {WordElems - InWord(it), WordElems - InWord(it) + 1}
       /\ RemainingNext = remainingClocks - 1
  /\ Gone(it) < WordElems => TakenNext(it.before)

\* The clock after a full sync.
LEMMA AtSync ==
  ASSUME PinsType, NEW it \in Items, IsItem(it), Gone(it) \in {0, 1}, SyncEnd(it)
  PROVE  ClockRight(it)
<1> DEFINE g == Gone(it)
<1>1. EndsBefore(g, FullSyncElems) /\ watch.due = NoFrame /\ it.before = << >>
  BY DEF SyncEnd
<1>2. g \in {0, 1} /\ g \in Nat /\ InWord(it) = g
  BY PinSizes DEF InWord
<1>3. (g = 0 => REsyncPacket /\ ~FEsyncPacket) /\ (g = 1 => FEsyncPacket)
  BY <1>1, <1>2, SyncSeen
<1>4. Synced /\ ~WordTaken
  BY <1>2, <1>3 DEF Synced, WordTaken
<1>5. Emitted = NoFrame /\ ElemCountNext = FrameWords - 1 /\ RemainingNext = packetClocks
  BY <1>4 DEF Emitted, ElemCountNext, RemainingNext
<1>6. EdgeNext <=> g = 0
  BY <1>2, <1>3 DEF EdgeNext
<1>7. g % 2 = 0 <=> g = 0
  BY <1>2
<1>8. Len(it.before) = 0 /\ FrameWords \in Nat
  BY <1>1, PinSizes
<1>9. TakenNext(it.before)
  BY <1>5, <1>8 DEF TakenNext
<1> HIDE DEF g
<1>10. g < 2
  BY <1>2
<1> QED
  BY <1>1, <1>2, <1>5, <1>6, <1>7, <1>9, <1>10 DEF ClockRight, g

\* The clock after a half sync: nothing is taken.
LEMMA AtHalf ==
  ASSUME PinsType, NEW it \in Items, IsItem(it), RestOf(it), Consumed(it), Following(it),
         Gone(it) \in {0, 1}, Aligned(it), HalfEnd(it)
  PROVE  ClockRight(it)
<1> DEFINE g == Gone(it)
<1>1. g \in {0, 1} /\ g \in Nat /\ g < 2 /\ InWord(it) = g
  BY PinSizes DEF InWord
<1>2. ~REsyncPacket /\ ~FEsyncPacket
  BY NoFalseSync
<1>3. (isREsync <=> g % 2 = 0) /\ remainingClocks = 0
  BY <1>1 DEF Aligned
<1>4. (g % 2 = 0 <=> g = 0) /\ isREsync \in BOOLEAN
  <2>1. g % 2 = 0 <=> g = 0
    BY <1>1
  <2> QED
    BY <2>1 DEF PinsType
<1>5. EndsBefore(g, HalfSyncElems) /\ watch.due = NoFrame /\ Taken(it.before)
  BY DEF HalfEnd
<1>6. packet = HalfSyncElems
  BY <1>1, <1>3, <1>4, <1>5, PacketIs, SyncsAreElems
<1>7. ~Synced /\ ~WordTaken
  BY <1>2, <1>6 DEF Synced, WordTaken
<1>8. /\ Emitted = NoFrame /\ ElemCountNext = elemCount /\ RemainingNext = packetClocks
      /\ CFrameNext = cFrame
  BY <1>3, <1>7 DEF Emitted, ElemCountNext, RemainingNext, CFrameNext
<1>9. EdgeNext <=> g % 2 = 0
  BY <1>2, <1>3, <1>4 DEF EdgeNext
<1>10. TakenNext(it.before)
  BY <1>5, <1>8 DEF TakenNext, Taken
<1> HIDE DEF g
<1>11. ~(g >= 2)
  BY <1>1
<1> QED
  BY <1>1, <1>5, <1>8, <1>9, <1>10, <1>11 DEF ClockRight, g

\* The clock after a word: it is taken, and with the last one of a frame the frame is there.
LEMMA AtWord ==
  ASSUME PinsType, NEW it \in Items, IsItem(it), RestOf(it), Consumed(it), Following(it),
         Gone(it) \in {0, 1}, Aligned(it), WordEnd(it)
  PROVE  ClockRight(it)
<1> DEFINE g == Gone(it)
<1>1. g \in {0, 1} /\ g \in Nat /\ g < 2 /\ InWord(it) = g
  BY PinSizes DEF InWord
<1>2. ~REsyncPacket /\ ~FEsyncPacket
  BY NoFalseSync
<1>3. (isREsync <=> g % 2 = 0) /\ remainingClocks = 0
  BY <1>1 DEF Aligned
<1>4. (g % 2 = 0 <=> g = 0) /\ isREsync \in BOOLEAN
  <2>1. g % 2 = 0 <=> g = 0
    BY <1>1
  <2> QED
    BY <2>1 DEF PinsType
<1>5. PICK f \in Frames :
        /\ f # << >>
        /\ IF Len(f) = FrameWords THEN watch.due = f /\ it.before = << >>
           ELSE watch.due = NoFrame /\ it.before = f
        /\ EndsBefore(g, f[Len(f)])
        /\ Taken(SubSeq(f, 1, Len(f) - 1))
  BY DEF WordEnd
<1> DEFINE n == Len(f)
           s == SubSeq(f, 1, Len(f) - 1)
<1>6. n \in 1 .. FrameWords /\ FrameWords \in Nat /\ FrameWords >= 2
  BY <1>5, FrameIs, PinSizes
<1>7. f[n] \in Words
  BY <1>6, FrameIs
<1>8. f[n] \in Seq(Values) /\ Len(f[n]) = WordElems /\ f[n] # HalfSyncElems
  BY <1>7, WordIs
<1>9. packet = f[n]
  BY <1>1, <1>3, <1>4, <1>5, <1>8, PacketIs
<1>10. ~Synced /\ WordTaken
  BY <1>2, <1>3, <1>8, <1>9 DEF Synced, WordTaken
<1>11. RemainingNext = packetClocks
  BY <1>3 DEF RemainingNext
<1>12. EdgeNext <=> g % 2 = 0
  BY <1>2, <1>3, <1>4 DEF EdgeNext
<1>13. elemCount = FrameWords - n /\ \A k \in 1 .. n - 1 : cFrame[k] = f[k]
  <2>1. Len(s) = n - 1 /\ \A k \in 1 .. n - 1 : s[k] = f[k]
    BY <1>5, FrontOfFrame
  <2>2. elemCount = FrameWords - 1 - Len(s) /\ \A k \in 1 .. Len(s) : cFrame[k] = s[k]
    BY <1>5 DEF Taken
  <2> HIDE DEF s, n
  <2> QED
    BY <1>6, <2>1, <2>2
<1>14. cFrame \in [1 .. FrameWords - 1 -> Seq(Values)]
  BY DEF PinsType
<1> HIDE DEF n
<1>15. CASE n = FrameWords
  <2>1. elemCount = 0
    BY <1>6, <1>13, <1>15
  <2>2. Emitted = Append(cFrame, f[n])
    BY <1>9, <1>10, <2>1 DEF Emitted
  <2>3. f \in Seq(Seq(Values)) /\ Len(f) = FrameWords
    <3>1. Words \subseteq Seq(Values)
      BY WordIs
    <3>2. f \in Seq(Seq(Values))
      BY <3>1, FrameIs, SeqMonotonic
    <3> QED
      BY <3>2, <1>15 DEF n
  <2>4. cFrame \in Seq(Seq(Values)) /\ Len(cFrame) = FrameWords - 1
    <3>1. FrameWords - 1 \in Nat
      BY <1>6
    <3> QED
      BY <1>14, <3>1
  <2>5. /\ Append(cFrame, f[n]) \in Seq(Seq(Values)) /\ Len(Append(cFrame, f[n])) = FrameWords
        /\ \A k \in 1 .. FrameWords - 1 : Append(cFrame, f[n])[k] = cFrame[k]
        /\ Append(cFrame, f[n])[FrameWords] = f[n]
    BY <1>6, <1>8, <2>4, AppendProperties
  <2>6. \A k \in 1 .. FrameWords : Append(cFrame, f[n])[k] = f[k]
    BY <1>6, <1>13, <1>15, <2>5
  <2>7. Append(cFrame, f[n]) = f
    BY <2>3, <2>5, <2>6, SeqEqual
  <2>8. watch.due = f /\ it.before = << >>
    BY <1>5, <1>15 DEF n
  <2>9. ElemCountNext = FrameWords - 1
    <3>1. elemCount - 1 = -1 /\ -1 \in Int /\ -FrameWords <= -1 /\ FrameWords >= 1
      BY <1>6, <2>1
    <3>2. (elemCount - 1) % FrameWords = -1 + FrameWords
      BY <1>6, <3>1, ModNear
    <3> QED
      BY <1>6, <1>10, <3>2 DEF ElemCountNext
  <2>10. TakenNext(it.before)
    BY <1>6, <2>8, <2>9 DEF TakenNext
  <2> HIDE DEF g
  <2>11. ~(g >= 2)
    BY <1>1
  <2> QED
    BY <1>1, <1>11, <1>12, <2>2, <2>7, <2>8, <2>10, <2>11 DEF ClockRight, g
<1>16. CASE n # FrameWords
  <2>1. elemCount \in 1 .. FrameWords - 1 /\ FrameWords - elemCount = n /\ n \in 1 .. FrameWords - 1
    BY <1>6, <1>13, <1>16
  <2>2. Emitted = NoFrame
    BY <2>1 DEF Emitted
  <2>3. watch.due = NoFrame /\ it.before = f
    BY <1>5, <1>16 DEF n
  <2>4. ElemCountNext = FrameWords - 1 - n
    <3>1. elemCount - 1 \in Int /\ 0 <= elemCount - 1 /\ elemCount - 1 < FrameWords /\ FrameWords >= 1
      BY <1>6, <2>1
    <3>2. (elemCount - 1) % FrameWords = elemCount - 1
      BY <1>6, <3>1, ModNear
    <3>3. ElemCountNext = elemCount - 1
      BY <1>10, <3>2 DEF ElemCountNext
    <3> QED
      BY <1>6, <1>13, <3>3
  <2>5. CFrameNext = [cFrame EXCEPT ![n] = f[n]]
    <3>1. elemCount > 0
      BY <2>1
    <3> QED
      BY <1>9, <1>10, <2>1, <3>1 DEF CFrameNext
  <2>6. \A k \in 1 .. n : CFrameNext[k] = f[k]
    <3>1. \A k \in 1 .. n : k \in 1 .. FrameWords - 1
      BY <1>6, <2>1
    <3>2. \A k \in 1 .. n : k # n => k \in 1 .. n - 1
      BY <1>6, <2>1
    <3> QED
      BY <1>13, <1>14, <2>5, <3>1, <3>2
  <2>7. TakenNext(it.before)
    BY <2>3, <2>4, <2>6 DEF TakenNext, n
  <2> HIDE DEF g
  <2>8. ~(g >= 2)
    BY <1>1
  <2> QED
    BY <1>1, <1>11, <1>12, <2>2, <2>3, <2>7, <2>8 DEF ClockRight, g
<1> QED
  BY <1>15, <1>16

\* Within a word no data is taken, but the first half of a full sync is, as the first word.
LEMMA WithinItem ==
  ASSUME PinsType, NEW it \in Items, IsItem(it), RestOf(it), Consumed(it), Following(it),
         Gone(it) >= 2
  PROVE  ClockRight(it)
<1> DEFINE g == Gone(it)
           r == InWord(it)
<1>1. /\ g \in Nat /\ g >= 2 /\ g < SyncElems
      /\ g >= WordElems => FullItem(it)
  BY InSyncFacts, ItemFacts
<1>2. ~REsyncPacket /\ ~FEsyncPacket
  <2>1. ~(Gone(it) < 2)
    BY <1>1
  <2> QED
    BY <2>1, NoFalseSync
<1>3. /\ Aligned(it) /\ watch.due = NoFrame
      /\ g < WordElems + 2 => Taken(it.before)
  <2>1. ~(g < 2)
    BY <1>1
  <2> QED
    BY <2>1 DEF Following
<1>4. r = IF g < WordElems THEN g ELSE g - WordElems
  BY DEF InWord
<1>5. /\ isREsync <=> g % 2 = 0
      /\ IF r < 2 THEN remainingClocks = 0
         ELSE 2 * remainingClocks \in {WordElems - r, WordElems - r + 1}
  BY <1>3 DEF Aligned
<1>6. remainingClocks \in Nat /\ elemCount \in 0 .. FrameWords - 1 /\ isREsync \in BOOLEAN
  BY PinSizes DEF PinsType
<1>7. /\ WordElems \in Nat /\ WordElems >= 4 /\ SyncElems = WordElems + WordElems
      /\ FrameWords \in Nat /\ FrameWords >= 2
  BY PinSizes
<1> HIDE DEF g, r
<1>8. r \in Nat /\ r < WordElems
  BY <1>1, <1>4, <1>7
<1>9. ~Synced
  BY <1>2 DEF Synced
<1>10. r >= 2 => remainingClocks # 0
  BY <1>5, <1>6, <1>7, <1>8
<1>11. r < 2 => g < WordElems + 2 /\ g >= WordElems
  BY <1>1, <1>4, <1>7
<1>12. EdgeNext <=> g % 2 = 0
  BY <1>2, <1>5, <1>6 DEF EdgeNext
<1>13. Emitted = NoFrame
  <2>1. CASE r >= 2
    BY <1>10, <2>1 DEF Emitted, WordTaken
  <2>2. CASE r < 2
    <3>1. it.before = << >> /\ Taken(it.before)
      BY <1>1, <1>3, <1>11, <2>2 DEF FullItem
    <3>2. elemCount # 0
      BY <1>7, <3>1 DEF Taken
    <3> QED
      BY <3>2 DEF Emitted
  <2> QED
    BY <1>8, <2>1, <2>2
<1>14. r < 2 => RemainingNext = packetClocks
  BY <1>5 DEF RemainingNext
<1>15. r >= 2 => RemainingNext = remainingClocks - 1
  BY <1>9, <1>10 DEF RemainingNext
<1>16. ASSUME g < WordElems PROVE TakenNext(it.before)
  <2>1. r >= 2 /\ Taken(it.before)
    BY <1>1, <1>3, <1>4, <1>7, <1>16
  <2>2. ~WordTaken
    BY <1>10, <2>1 DEF WordTaken
  <2>3. ElemCountNext = elemCount /\ CFrameNext = cFrame
    BY <1>9, <2>2 DEF ElemCountNext, CFrameNext
  <2> QED
    BY <2>1, <2>3 DEF Taken, TakenNext
<1>17. r >= 2 => 2 * remainingClocks \in {WordElems - r, WordElems - r + 1}
  BY <1>5, <1>8
<1> QED
  BY <1>3, <1>12, <1>13, <1>14, <1>15, <1>16, <1>17 DEF ClockRight, g, r

\* In sync, every clock does what it should.
LEMMA ClockIs ==
  ASSUME PinsType, NEW it \in Items, IsItem(it), RestOf(it), Consumed(it), Following(it)
  PROVE  ClockRight(it)
<1>1. Gone(it) \in Nat
  BY InSyncFacts, ItemFacts
<1>2. CASE Gone(it) < 2
  <2>1. Gone(it) \in {0, 1} /\ ~(Gone(it) >= 2)
    BY <1>1, <1>2
  <2>2. SyncEnd(it) \/ (Aligned(it) /\ (HalfEnd(it) \/ WordEnd(it)))
    BY <2>1 DEF Following
  <2> QED
    BY <2>1, <2>2, AtSync, AtHalf, AtWord
<1>3. CASE ~(Gone(it) < 2)
  <2>1. Gone(it) >= 2
    BY <1>1, <1>3
  <2> QED
    BY <2>1, WithinItem
<1> QED
  BY <1>2, <1>3

-----------------------------------------------------------------------------
Watches == [in_sync : BOOLEAN, clean : 0 .. SyncElems, due : Frames, good : BOOLEAN]

\* What the history is to be before the elements of a clock are sampled.
WatchOK == watch.good /\ (watch.in_sync => Emitted = watch.due)

\* The history between the clocks.
LEMMA CheckedIs ==
  ASSUME PinsType, WatchOK
  PROVE  /\ Checked \in Watches /\ Checked.in_sync = watch.in_sync /\ Checked.clean = watch.clean
         /\ Checked.due = NoFrame /\ Checked.good
<1>1. watch \in Watches
  BY DEF PinsType, Watches
<1>2. watch.good /\ (watch.in_sync => Emitted = watch.due)
  BY DEF WatchOK
<1>3. NoFrame \in Frames
  BY EmptySeq, PinSizes DEF NoFrame, Frames
<1>4. ASSUME NEW c,
             c = [watch EXCEPT !.good = @ /\ (watch.in_sync => Emitted = watch.due), !.due = NoFrame]
      PROVE  /\ c \in Watches /\ c.in_sync = watch.in_sync /\ c.clean = watch.clean
             /\ c.due = NoFrame /\ c.good
  <2>1. c = [watch EXCEPT !.good = TRUE, !.due = NoFrame]
    BY <1>1, <1>2, <1>4 DEF Watches
  <2> QED
    BY <1>1, <1>3, <2>1 DEF Watches
<1> QED
  BY <1>4 DEF Checked

\* The history after one element.
LEMMA SampledIs ==
  ASSUME NEW t \in Watches, NEW e \in Samples
  PROVE  /\ Sampled(t, e) \in Watches
         /\ Sampled(t, e).in_sync <=> t.in_sync \/ (e.mark.sync /\ t.clean >= SyncElems - 1)
         /\ Sampled(t, e).clean = IF t.clean < SyncElems THEN t.clean + 1 ELSE t.clean
         /\ Sampled(t, e).due = IF t.in_sync /\ e.mark.frame # NoFrame THEN e.mark.frame ELSE t.due
         /\ Sampled(t, e).good = t.good
<1>1. SyncElems \in Nat
  BY PinSizes
<1>2. /\ t.in_sync \in BOOLEAN /\ t.clean \in 0 .. SyncElems /\ t.due \in Frames /\ t.good \in BOOLEAN
      /\ e.mark.sync \in BOOLEAN /\ e.mark.frame \in Frames
  BY DEF Watches, Samples, Marks
<1>3. (IF t.clean < SyncElems THEN t.clean + 1 ELSE t.clean) \in 0 .. SyncElems
  BY <1>1, <1>2
<1> QED
  BY <1>1, <1>2, <1>3 DEF Sampled, Watches

\* The history after a clock without a fault.
LEMMA ClockWatch ==
  ASSUME PinsType, WatchOK, NEW e1 \in Samples, NEW e2 \in Samples,
         watch' = Sampled(Sampled(Checked, e1), e2)
  PROVE  /\ watch' \in Watches /\ watch'.good
         /\ watch'.clean = IF watch.clean <= SyncElems - 2 THEN watch.clean + 2 ELSE SyncElems
         /\ watch.in_sync => watch'.in_sync
         /\ watch'.in_sync /\ ~watch.in_sync =>
              /\ \/ e1.mark.sync /\ watch.clean >= SyncElems - 1
                 \/ e2.mark.sync /\ watch.clean >= SyncElems - 2
              /\ e2.mark.frame = << >> => watch'.due = NoFrame
         /\ watch.in_sync =>
              watch'.due = IF e2.mark.frame # << >> THEN e2.mark.frame
                           ELSE IF e1.mark.frame # << >> THEN e1.mark.frame ELSE NoFrame
<1> DEFINE c == Checked
           s == Sampled(c, e1)
           t == Sampled(s, e2)
<1>1. /\ c \in Watches /\ c.in_sync = watch.in_sync /\ c.clean = watch.clean /\ c.due = NoFrame /\ c.good
  BY CheckedIs
<1>2. /\ s \in Watches
      /\ s.in_sync <=> c.in_sync \/ (e1.mark.sync /\ c.clean >= SyncElems - 1)
      /\ s.clean = IF c.clean < SyncElems THEN c.clean + 1 ELSE c.clean
      /\ s.due = IF c.in_sync /\ e1.mark.frame # NoFrame THEN e1.mark.frame ELSE c.due
      /\ s.good = c.good
  <2> HIDE DEF c
  <2> QED
    BY <1>1, SampledIs
<1>3. /\ t \in Watches
      /\ t.in_sync <=> s.in_sync \/ (e2.mark.sync /\ s.clean >= SyncElems - 1)
      /\ t.clean = IF s.clean < SyncElems THEN s.clean + 1 ELSE s.clean
      /\ t.due = IF s.in_sync /\ e2.mark.frame # NoFrame THEN e2.mark.frame ELSE s.due
      /\ t.good = s.good
  <2> HIDE DEF s
  <2> QED
    BY <1>2, SampledIs
<1>4. watch' = t
  OBVIOUS
<1>5. SyncElems \in Nat /\ SyncElems >= 8 /\ watch.clean \in 0 .. SyncElems /\ watch.in_sync \in BOOLEAN
  BY PinSizes DEF PinsType
<1> HIDE DEF c, s, t
<1>6. t.clean = IF watch.clean <= SyncElems - 2 THEN watch.clean + 2 ELSE SyncElems
  BY <1>1, <1>2, <1>3, <1>5
<1>7. s.clean >= SyncElems - 1 => watch.clean >= SyncElems - 2
  BY <1>1, <1>2, <1>5
<1>8. watch.in_sync => t.in_sync
  BY <1>1, <1>2, <1>3
<1>9. ASSUME t.in_sync, ~watch.in_sync
      PROVE  /\ \/ e1.mark.sync /\ watch.clean >= SyncElems - 1
                \/ e2.mark.sync /\ watch.clean >= SyncElems - 2
             /\ e2.mark.frame = << >> => t.due = NoFrame
  <2>1. s.in_sync \/ (e2.mark.sync /\ watch.clean >= SyncElems - 2)
    BY <1>3, <1>7, <1>9
  <2>2. s.in_sync => e1.mark.sync /\ watch.clean >= SyncElems - 1
    BY <1>1, <1>2, <1>9
  <2>3. s.due = NoFrame
    BY <1>1, <1>2, <1>9
  <2> QED
    BY <1>3, <2>1, <2>2, <2>3 DEF NoFrame
<1>10. ASSUME watch.in_sync
       PROVE  t.due = IF e2.mark.frame # << >> THEN e2.mark.frame
                      ELSE IF e1.mark.frame # << >> THEN e1.mark.frame ELSE NoFrame
  BY <1>1, <1>2, <1>3, <1>10 DEF NoFrame
<1> QED
  BY <1>1, <1>2, <1>3, <1>4, <1>6, <1>8, <1>9, <1>10

\* The registers of the receiver.
LEMMA RegsAre ==
  ASSUME NEW a, NEW b, CaptureStep(a, b)
  PROVE  /\ elemCount' = ElemCountNext /\ cFrame' = CFrameNext
         /\ isREsync' = EdgeNext /\ remainingClocks' = RemainingNext
  BY DEF CaptureStep, CFrameNext, EdgeNext

\* A clock keeps the types.
LEMMA TypeKeeps ==
  ASSUME PinsType, NEW a \in Values, NEW b \in Values, CaptureStep(a, b),
         pins' \in [rest : Seq(Samples), frame : Frames], watch' \in Watches
  PROVE  PinsType'
<1>1. construct' \in Seq(Values) /\ Len(construct') = Now
  BY Shifted
<1>2. /\ cFrame \in [1 .. FrameWords - 1 -> Seq(Values)] /\ remainingClocks \in 0 .. packetClocks
      /\ elemCount \in 0 .. FrameWords - 1 /\ isREsync \in BOOLEAN
  BY DEF PinsType
<1>3. packet \in Seq(Values)
  <2>1. isREsync => packet \in Seq(Values)
    BY PacketIs
  <2>2. ~isREsync => packet \in Seq(Values)
    BY PacketIs
  <2> QED
    BY <2>1, <2>2
<1>4. cFrame' \in [1 .. FrameWords - 1 -> Seq(Values)]
  BY <1>2, <1>3, RegsAre DEF CFrameNext
<1>5. remainingClocks' \in 0 .. packetClocks
  BY <1>2, RegsAre, PinSizes DEF RemainingNext
<1>6. elemCount' \in 0 .. FrameWords - 1
  <2>1. FrameWords \in Nat /\ FrameWords >= 1 /\ elemCount - 1 \in Int
    BY <1>2, PinSizes
  <2>2. (elemCount - 1) % FrameWords \in 0 .. FrameWords - 1
    BY <2>1, DivModBy
  <2> QED
    BY <1>2, <2>1, <2>2, RegsAre, SMTT(30) DEF ElemCountNext
<1>7. isREsync' \in BOOLEAN
  BY <1>2, RegsAre DEF EdgeNext, REsyncPacket, IsSuffix, IsPrefix
<1> QED
  BY <1>1, <1>4, <1>5, <1>6, <1>7 DEF PinsType, Watches, Now, SyncElems, packetClocks, Frames, Samples, Marks, Values

\* Taken stays so through the clock.
LEMMA TakenIs ==
  ASSUME NEW s, NEW a, NEW b, CaptureStep(a, b), TakenNext(s)
  PROVE  Taken(s)'
  BY RegsAre DEF Taken, TakenNext

-----------------------------------------------------------------------------
\* Two more elements of the same item.
LEMMA SameConsumed ==
  ASSUME PinsType, NEW it \in Items, IsItem(it), RestOf(it), Consumed(it),
         NEW a \in Values, NEW b \in Values, CaptureStep(a, b),
         Gone(it)' = Gone(it) + 2, Gone(it) + 2 < Len(it.word),
         Gone(it) >= 0 => a = it.word[Gone(it) + 1], b = it.word[Gone(it) + 2],
         Gone(it) < 0 => watch.clean = 0,
         watch'.clean = IF watch.clean <= SyncElems - 2 THEN watch.clean + 2 ELSE SyncElems
  PROVE  Consumed(it)'
<1> DEFINE g == Gone(it)
           len == Len(it.word)
           c == watch.clean
           d == watch'.clean
<1>1. /\ SyncElems \in Nat /\ SyncElems >= 8 /\ Now = SyncElems + 1 /\ c \in 0 .. SyncElems
      /\ len \in Nat /\ len <= SyncElems
  <2>1. c \in 0 .. SyncElems
    BY DEF PinsType
  <2>2. len \in Nat /\ len <= SyncElems
    BY ItemLen
  <2> QED
    BY <2>1, <2>2, PinSizes
<1>2. g \in -1 .. len - 1
  BY DEF RestOf
<1>3. \A i \in 1 .. len : i <= g /\ i > g - c => construct[Now - g + i] = it.word[i]
  BY DEF Consumed
<1>4. /\ \A k \in 1 .. SyncElems - 1 : construct'[k] = construct[k + 2]
      /\ construct'[SyncElems] = a /\ construct'[SyncElems + 1] = b
  BY Shifted
<1>5. /\ Gone(it)' = g + 2 /\ g + 2 < len
      /\ g >= 0 => a = it.word[g + 1]
      /\ b = it.word[g + 2]
      /\ g < 0 => c = 0
      /\ d = IF c <= SyncElems - 2 THEN c + 2 ELSE SyncElems
  OBVIOUS
<1> HIDE DEF g, len, c, d
<1>6. ASSUME NEW i \in 1 .. len, i <= g + 2, i > g + 2 - d
      PROVE  construct'[Now - (g + 2) + i] = it.word[i]
  <2>1. CASE i <= g
    <3>1. i > g - c
      BY <1>1, <1>2, <1>5, <1>6, <2>1
    <3>2. /\ Now - (g + 2) + i \in 1 .. SyncElems - 1
          /\ Now - (g + 2) + i + 2 = Now - g + i
      BY <1>1, <1>2, <1>5, <2>1
    <3> QED
      BY <1>3, <1>4, <2>1, <3>1, <3>2
  <2>2. CASE i = g + 1
    <3>1. Now - (g + 2) + i = SyncElems /\ g >= 0
      BY <1>1, <1>2, <2>2
    <3> QED
      BY <1>4, <1>5, <2>2, <3>1
  <2>3. CASE i = g + 2
    <3>1. Now - (g + 2) + i = SyncElems + 1
      BY <1>1, <1>2, <2>3
    <3> QED
      BY <1>4, <1>5, <2>3, <3>1
  <2> QED
    BY <1>1, <1>2, <1>6, <2>1, <2>2, <2>3
<1>7. Now' = Now
  BY DEF Now, SyncElems
<1>8. \A i \in 1 .. len :
        i <= Gone(it)' /\ i > Gone(it)' - d => construct'[Now' - Gone(it)' + i] = it.word[i]
  <2>1. Gone(it)' = g + 2 /\ Now' = Now /\ g \in Int
    BY <1>2, <1>5, <1>7
  <2>3. d \in Int /\ len \in Nat
    BY <1>1, <1>5
  <2>2. ASSUME NEW i \in 1 .. len, i <= Gone(it)', i > Gone(it)' - d
        PROVE  construct'[Now' - Gone(it)' + i] = it.word[i]
    <3>1. i <= g + 2 /\ i > g + 2 - d
      BY <2>1, <2>2, <2>3
    <3> QED
      BY <1>6, <2>1, <3>1
  <2> QED
    BY <2>2
<1> QED
  BY <1>8, Zenon DEF Consumed, d, len

\* The first elements of the next item.
LEMMA NextConsumed ==
  ASSUME PinsType, NEW it \in Items, IsItem(it), NEW n \in 0 .. 2,
         NEW a \in Values, NEW b \in Values, CaptureStep(a, b),
         Gone(it)' = 2 - n,
         n = 0 => a = it.word[1] /\ b = it.word[2], n = 1 => b = it.word[1]
  PROVE  Consumed(it)'
<1>1. /\ SyncElems \in Nat /\ SyncElems >= 8 /\ Now = SyncElems + 1
      /\ construct'[SyncElems] = a /\ construct'[SyncElems + 1] = b
  BY Shifted, PinSizes
<1>2. ASSUME NEW i \in 1 .. Len(it.word), i <= 2 - n
      PROVE  construct'[Now - (2 - n) + i] = it.word[i]
  <2>0. Len(it.word) \in Nat
    BY ItemFacts
  <2>1. CASE n = 0 /\ i = 1
    <3>1. Now - (2 - n) + i = SyncElems
      BY <1>1, <2>1
    <3> QED
      BY <1>1, <2>1, <3>1
  <2>2. CASE n = 0 /\ i = 2
    <3>1. Now - (2 - n) + i = SyncElems + 1
      BY <1>1, <2>2
    <3> QED
      BY <1>1, <2>2, <3>1
  <2>3. CASE n = 1 /\ i = 1
    <3>1. Now - (2 - n) + i = SyncElems + 1
      BY <1>1, <2>3
    <3> QED
      BY <1>1, <2>3, <3>1
  <2> QED
    BY <1>2, <2>0, <2>1, <2>2, <2>3
<1>3. Now' = Now
  BY DEF Now, SyncElems
<1> QED
  BY <1>2, <1>3 DEF Consumed

\* The item ended in this clock: its elements are there, 2 - n of the next item behind them.
LEMMA ItemEnds ==
  ASSUME PinsType, NEW it \in Items, IsItem(it), RestOf(it), Consumed(it),
         NEW n \in 1 .. 2, Gone(it) = Len(it.word) - n, watch.clean >= Gone(it),
         NEW a \in Values, NEW b \in Values, CaptureStep(a, b),
         a = it.word[Gone(it) + 1], n = 2 => b = it.word[Gone(it) + 2]
  PROVE  /\ EndsBefore(2 - n, it.word)'
         /\ \A k \in 1 .. SyncElems - 1 : construct'[k] = construct[k + 2]
<1> DEFINE g == Gone(it)
           len == Len(it.word)
           c == watch.clean
<1>1. /\ SyncElems \in Nat /\ SyncElems >= 8 /\ Now = SyncElems + 1
      /\ len \in Nat /\ len <= SyncElems /\ len >= 4
  <2>1. len \in Nat /\ len <= SyncElems /\ len >= 4
    BY ItemLen
  <2> QED
    BY <2>1, PinSizes
<1>2. g = len - n /\ c >= g /\ c \in 0 .. SyncElems /\ a = it.word[g + 1]
  BY DEF PinsType
<1>3. \A i \in 1 .. len : i <= g /\ i > g - c => construct[Now - g + i] = it.word[i]
  BY DEF Consumed
<1>4. /\ \A k \in 1 .. SyncElems - 1 : construct'[k] = construct[k + 2]
      /\ construct'[SyncElems] = a /\ construct'[SyncElems + 1] = b
  BY Shifted
<1>5. n = 2 => b = it.word[g + 2]
  OBVIOUS
<1> HIDE DEF g, len, c
<1>6. ASSUME NEW i \in 1 .. len PROVE construct'[Now - (2 - n) - len + i] = it.word[i]
  <2>1. CASE i <= g
    <3>1. i > g - c
      BY <1>1, <1>2
    <3>2. /\ Now - (2 - n) - len + i \in 1 .. SyncElems - 1
          /\ Now - (2 - n) - len + i + 2 = Now - g + i
      BY <1>1, <1>2, <2>1
    <3> QED
      BY <1>3, <1>4, <2>1, <3>1, <3>2
  <2>2. CASE i = g + 1
    <3>1. Now - (2 - n) - len + i = SyncElems
      <4>1. g = len - n /\ len \in Nat /\ SyncElems \in Nat /\ Now = SyncElems + 1
        BY <1>1, <1>2
      <4> QED
        BY <2>2, <4>1
    <3> QED
      BY <1>2, <1>4, <2>2, <3>1
  <2>3. CASE i = g + 2
    <3>1. Now - (2 - n) - len + i = SyncElems + 1 /\ n = 2
      BY <1>1, <1>2, <2>3
    <3> QED
      BY <1>4, <1>5, <2>3, <3>1
  <2>4. i <= g \/ i = g + 1 \/ i = g + 2
    <3>1. len \in Nat /\ g = len - n
      BY <1>1, <1>2
    <3> QED
      BY <3>1
  <2> QED
    BY <2>1, <2>2, <2>3, <2>4
<1>7. Now' = Now
  BY DEF Now, SyncElems
<1> QED
  BY <1>4, <1>6, <1>7 DEF EndsBefore, len

\* In sync, and the item goes on.
LEMMA SameFollows ==
  ASSUME PinsType, NEW it \in Items, IsItem(it), RestOf(it), Consumed(it), Following(it),
         NEW a \in Values, NEW b \in Values, CaptureStep(a, b),
         Gone(it)' = Gone(it) + 2, Gone(it) + 2 < Len(it.word),
         watch'.clean = SyncElems, watch'.due = NoFrame
  PROVE  Following(it)'
<1> DEFINE g == Gone(it)
           q == InWord(it)
           p == InWord(it)'
<1>1. /\ WordElems \in Nat /\ WordElems >= 4 /\ SyncElems = WordElems + WordElems
      /\ Now = SyncElems + 1 /\ SyncElems \in Nat
      /\ packetClocks \in Nat /\ packetClocks + packetClocks = WordElems - 2
      /\ WordElems % 2 = 0
  BY PinSizes, SizeAssumption
<1>2. g \in Nat /\ g < SyncElems
  BY InSyncFacts, ItemFacts
<1>3. /\ Gone(it)' = g + 2
      /\ g < WordElems => NotOnes(g, WordElems)
  BY DEF Following
<1>4. ClockRight(it)
  BY ClockIs
<1>5. isREsync' <=> g % 2 = 0
  BY <1>4, RegsAre DEF ClockRight
<1>6. /\ q < 2 => remainingClocks' = packetClocks
      /\ q >= 2 => /\ 2 * remainingClocks \in {WordElems - q, WordElems - q + 1}
                   /\ remainingClocks' = remainingClocks - 1
  BY <1>4, RegsAre DEF ClockRight
<1>7. g < WordElems => Taken(it.before)'
  BY <1>4, TakenIs DEF ClockRight
<1>8. q = IF g < WordElems THEN g ELSE g - WordElems
  BY DEF InWord
<1>9. p = IF g + 2 < WordElems THEN g + 2 ELSE g + 2 - WordElems
  <2>1. p = IF Gone(it)' < WordElems THEN Gone(it)' ELSE Gone(it)' - WordElems
    BY Zenon DEF InWord
  <2> HIDE DEF p, g
  <2> QED
    BY <1>1, <1>2, <1>3, <2>1
<1>10. \A k \in 1 .. SyncElems - 1 : construct'[k] = construct[k + 2]
  BY Shifted
<1>11. remainingClocks \in Nat
  BY <1>1 DEF PinsType
<1>12. g + 2 < Len(it.word) /\ Len(it.word) \in Nat /\ Len(it.word) <= SyncElems
  BY ItemLen
<1> HIDE DEF g, q, p
<1>13. (g + 2) % 2 = 0 <=> g % 2 = 0
  BY <1>2
<1>14. IF p < 2 THEN remainingClocks' = 0
       ELSE 2 * remainingClocks' \in {WordElems - p, WordElems - p + 1}
  <2>1. CASE q < 2
    <3>1. q \in {0, 1} /\ p = q + 2
      BY <1>1, <1>2, <1>8, <1>9, <2>1, <1>12
    <3> QED
      BY <1>1, <1>6, <2>1, <3>1
  <2>2. CASE q >= 2
    <3>1. q \in Nat /\ q < WordElems /\ p = IF q + 2 < WordElems THEN q + 2 ELSE q + 2 - WordElems
      BY <1>1, <1>2, <1>8, <1>9, <1>12, <2>2
    <3>2. CASE q + 2 < WordElems
      <4>1. p = q + 2
        BY <3>1, <3>2
      <4>2. 2 * remainingClocks' = 2 * remainingClocks - 2
        BY <1>6, <1>11, <2>2
      <4> QED
        BY <1>1, <1>6, <2>2, <3>1, <4>1, <4>2
    <3>3. CASE ~(q + 2 < WordElems)
      <4>1. p = q + 2 - WordElems /\ p < 2 /\ WordElems - q \in {1, 2}
        BY <1>1, <3>1, <3>3
      <4>2. remainingClocks = 1
        BY <1>1, <1>6, <1>11, <2>2, <3>1, <4>1
      <4> QED
        BY <1>6, <2>2, <4>1, <4>2
    <3> QED
      BY <3>2, <3>3
  <2> QED
    BY <1>1, <1>2, <1>8, <2>1, <2>2
<1>15. Now' = Now /\ WordElems' = WordElems /\ SyncElems' = SyncElems /\ NoFrame' = NoFrame
  BY DEF Now, SyncElems, NoFrame
<1>16. Aligned(it)'
  BY <1>3, <1>5, <1>13, <1>14 DEF Aligned, p
<1>17. g + 2 < WordElems => NotOnes(Gone(it), WordElems)'
  <2> SUFFICES ASSUME g + 2 < WordElems PROVE NotOnes(Gone(it), WordElems)'
    OBVIOUS
  <2>1. PICK i \in 1 .. WordElems : construct[Now - g - WordElems + i] # "f"
    BY <1>1, <1>2, <1>3 DEF NotOnes
  <2>2. /\ Now - (g + 2) - WordElems + i \in 1 .. SyncElems - 1
        /\ Now - (g + 2) - WordElems + i + 2 = Now - g - WordElems + i
    BY <1>1, <1>2
  <2>3. construct'[Now - (g + 2) - WordElems + i] # "f"
    BY <1>10, <2>1, <2>2
  <2>4. \E k \in 1 .. WordElems : construct'[Now' - Gone(it)' - WordElems + k] # "f"
    BY <1>3, <1>15, <2>3
  <2> QED
    BY <2>4, Zenon DEF NotOnes
<1>18. g + 2 < WordElems + 2 => g < WordElems
  BY <1>1, <1>2
<1>19. g + 2 >= 2 /\ g + 2 >= 0
  BY <1>2
<1> QED
  BY <1>2, <1>3, <1>7, <1>15, <1>16, <1>17, <1>18, <1>19 DEF Following

-----------------------------------------------------------------------------
\* A full sync that was sampled whole has ended.
LEMMA SyncEnds ==
  ASSUME PinsType, NEW it \in Items, IsItem(it), RestOf(it), Consumed(it), FullItem(it),
         NEW n \in 1 .. 2, Gone(it) = Len(it.word) - n, watch.clean >= Gone(it),
         NEW a \in Values, NEW b \in Values, CaptureStep(a, b),
         a = it.word[Gone(it) + 1], n = 2 => b = it.word[Gone(it) + 2],
         NEW next, next.before = << >>, Gone(next)' = 2 - n,
         watch'.clean = SyncElems, watch'.due = NoFrame
  PROVE  Following(next)'
<1>1. /\ SyncElems \in Nat /\ WordElems \in Nat /\ WordElems >= 4 /\ SyncElems = WordElems + WordElems
      /\ Now = SyncElems + 1
  BY PinSizes
<1>2. it.word = FullSyncElems
  BY DEF FullItem
<1>3. EndsBefore(2 - n, FullSyncElems)'
  BY <1>2, ItemEnds
<1>4. \A i \in 1 .. SyncElems :
        construct'[Now - (2 - n) - SyncElems + i] = IF i = SyncElems THEN "7" ELSE "f"
  <2>1. Len(FullSyncElems) = SyncElems /\ Now' = Now /\ FullSyncElems' = FullSyncElems
    BY SyncsAreElems DEF Now, SyncElems, FullSyncElems
  <2>2. \A i \in 1 .. SyncElems : construct'[Now - (2 - n) - SyncElems + i] = FullSyncElems[i]
    BY <1>3, <2>1 DEF EndsBefore
  <2> QED
    BY <2>2, SyncsAreElems
<1>5. construct'[Now - (2 - n) - WordElems + WordElems] # "f"
  <2>1. Now - (2 - n) - WordElems + WordElems = Now - (2 - n) - SyncElems + SyncElems
    BY <1>1
  <2>2. SyncElems \in 1 .. SyncElems
    BY <1>1
  <2> QED
    BY <1>4, <2>1, <2>2
<1>6. NotOnes(Gone(next), WordElems)'
  <2>1. Now' = Now /\ WordElems \in 1 .. WordElems
    BY <1>1 DEF Now, SyncElems
  <2>2. \E k \in 1 .. WordElems : construct'[Now' - Gone(next)' - WordElems + k] # "f"
    BY <1>5, <2>1
  <2> QED
    BY <2>2, Zenon DEF NotOnes
<1>7. EndsBefore(Gone(next), FullSyncElems)'
  BY <1>3 DEF EndsBefore
<1>8. SyncEnd(next)'
  BY <1>7 DEF SyncEnd, NoFrame
<1>9. Gone(next)' < 2 /\ Gone(next)' >= 0
  OBVIOUS
<1>10. SyncElems' = SyncElems
  BY DEF SyncElems
<1> QED
  BY <1>6, <1>8, <1>9, <1>10 DEF Following

\* In sync, and the item has ended: the next one is followed.
LEMMA NextFollows ==
  ASSUME PinsType, NEW it \in Items, IsItem(it), RestOf(it), Consumed(it), Following(it),
         NEW n \in 1 .. 2, Gone(it) = Len(it.word) - n,
         NEW a \in Values, NEW b \in Values, CaptureStep(a, b),
         a = it.word[Gone(it) + 1], n = 2 => b = it.word[Gone(it) + 2],
         NEW next \in Items, IsItem(next), next.before = it.frame, Gone(next)' = 2 - n,
         watch'.clean = SyncElems, watch'.due = it.mark.frame
  PROVE  Following(next)'
<1>1. /\ SyncElems \in Nat /\ WordElems \in Nat /\ WordElems >= 4 /\ SyncElems = WordElems + WordElems
      /\ Now = SyncElems + 1
  BY PinSizes
<1>2. watch.clean >= Gone(it)
  BY InSyncFacts, <1>1 DEF Following
<1>3. CASE FullItem(it)
  <2>1. it.frame = << >> /\ it.mark.frame = NoFrame
    BY <1>3, MarksAre DEF FullItem, NoFrame
  <2> QED
    BY <1>2, <1>3, <2>1, SyncEnds
<1>4. CASE ~FullItem(it)
  <2> DEFINE g == Gone(it)
  <2>1. Len(it.word) = WordElems /\ g = WordElems - n
    BY <1>4, ItemFacts
  <2>2. g \in Nat /\ g >= 2 /\ g < WordElems /\ InWord(it) = g
    BY <1>1, <2>1 DEF InWord
  <2>3. ClockRight(it)
    BY ClockIs
  <2>4. TakenNext(it.before) /\ (EdgeNext <=> g % 2 = 0)
    BY <2>2, <2>3 DEF ClockRight
  <2>5. 2 * remainingClocks \in {WordElems - g, WordElems - g + 1} /\ RemainingNext = remainingClocks - 1
    BY <2>2, <2>3 DEF ClockRight
  <2>6. Taken(it.before)' /\ (isREsync' <=> g % 2 = 0) /\ remainingClocks' = remainingClocks - 1
    BY <2>4, <2>5, RegsAre, TakenIs
  <2>7. EndsBefore(2 - n, it.word)' /\ \A k \in 1 .. SyncElems - 1 : construct'[k] = construct[k + 2]
    BY <1>2, ItemEnds
  <2>8. NotOnes(g, WordElems)
    BY <2>2 DEF Following
  <2>9. remainingClocks \in Nat /\ WordElems % 2 = 0
    BY PinSizes, SizeAssumption DEF PinsType
  <2>10. Now' = Now /\ NoFrame' = NoFrame /\ SyncElems' = SyncElems
    BY DEF Now, SyncElems, NoFrame
  <2> HIDE DEF g
  <2>11. remainingClocks' = 0
    <3>1. remainingClocks = 1
      <4>1. WordElems - g = n
        BY <1>1, <2>1
      <4>2. 2 * remainingClocks = n \/ 2 * remainingClocks = n + 1
        BY <2>5, <4>1
      <4>3. n = 1 \/ n = 2
        OBVIOUS
      <4> QED
        BY <2>9, <4>2, <4>3
    <3> QED
      BY <2>6, <3>1
  <2>12. isREsync' <=> Gone(next)' % 2 = 0
    <3>1. g % 2 = 0 <=> (2 - n) % 2 = 0
      <4>1. CASE n = 1
        <5>1. g + 1 = WordElems /\ 2 - n = 1
          BY <1>1, <2>1, <2>2, <4>1
        <5> QED
          BY <2>2, <2>9, <5>1
      <4>2. CASE n = 2
        <5>1. g + 2 = WordElems /\ 2 - n = 0
          BY <1>1, <2>1, <2>2, <4>2
        <5> QED
          BY <2>2, <2>9, <5>1
      <4> QED
        BY <4>1, <4>2
    <3> QED
      BY <2>6, <3>1
  <2>13. Gone(next)' \in {0, 1} /\ Gone(next)' < 2 /\ Gone(next)' >= 0
    OBVIOUS
  <2>14. Aligned(next)'
    <3>1. InWord(next)' = Gone(next)'
      <4>1. Gone(next)' < WordElems
        BY <1>1, <2>13
      <4> QED
        BY <4>1 DEF InWord
    <3> QED
      BY <2>11, <2>12, <2>13, <3>1 DEF Aligned
  <2>15. ASSUME NEW k \in 1 .. WordElems, it.word[k] # "f" PROVE NotOnes(Gone(next), WordElems)'
    <3>1. construct'[Now' - (2 - n) - Len(it.word) + k] = it.word[k]
      BY <2>1, <2>7 DEF EndsBefore
    <3>2. construct'[Now' - Gone(next)' - WordElems + k] # "f"
      BY <2>1, <2>15, <3>1
    <3>3. \E i \in 1 .. WordElems : construct'[Now' - Gone(next)' - WordElems + i] # "f"
      BY <3>2
    <3> QED
      BY <3>3, Zenon DEF NotOnes
  <2>16. EndsBefore(Gone(next), it.word)'
    BY <2>7 DEF EndsBefore
  <2>17. CASE HalfItem(it)
    <3>1. it.word = HalfSyncElems /\ it.mark.frame = NoFrame /\ it.before = it.frame
      BY <2>17, NoMarkIs DEF HalfItem, NoFrame
    <3>2. NotOnes(Gone(next), WordElems)'
      <4>1. WordElems \in 1 .. WordElems /\ it.word[WordElems] # "f"
        BY <1>1, <3>1, SyncsAreElems
      <4> QED
        BY <2>15, <4>1
    <3>3. NotOnes(Gone(next) + WordElems, WordElems)'
      <4>1. PICK i \in 1 .. WordElems : construct[Now - g - WordElems + i] # "f"
        BY <2>8 DEF NotOnes
      <4>2. /\ Now - (2 - n + WordElems) - WordElems + i \in 1 .. SyncElems - 1
            /\ Now - (2 - n + WordElems) - WordElems + i + 2 = Now - g - WordElems + i
        BY <1>1, <2>1, <2>2
      <4>3. construct'[Now - (2 - n + WordElems) - WordElems + i] # "f"
        BY <2>7, <4>1, <4>2
      <4>4. \E k \in 1 .. WordElems :
              construct'[Now' - (Gone(next)' + WordElems) - WordElems + k] # "f"
        BY <2>10, <4>3
      <4> QED
        BY <4>4, Zenon DEF NotOnes
    <3>4. EndsBefore(Gone(next), HalfSyncElems)'
      BY <2>16, <3>1 DEF EndsBefore, HalfSyncElems
    <3>5. Taken(next.before)'
      BY <2>6, <3>1 DEF Taken
    <3>6. HalfEnd(next)'
      BY <2>10, <3>1, <3>3, <3>4, <3>5 DEF HalfEnd
    <3> QED
      BY <2>10, <2>13, <2>14, <3>2, <3>6 DEF Following
  <2>18. ASSUME NEW f \in Frames, WordItem(it, f) PROVE Following(next)'
    <3>1. /\ f # << >> /\ it.word = f[Len(f)] /\ it.before = SubSeq(f, 1, Len(f) - 1)
          /\ IF Len(f) < FrameWords THEN it.mark = NoMark /\ it.frame = f
             ELSE it.mark = FrameMark(f) /\ it.frame = << >>
      BY <2>18 DEF WordItem
    <3>2. Len(f) \in 1 .. FrameWords /\ f[Len(f)] \in Words
      BY <3>1, FrameIs, PinSizes
    <3>3. NotOnes(Gone(next), WordElems)'
      <4>1. PICK k \in 1 .. WordElems - 2 : it.word[k] # "f"
        BY <3>1, <3>2, WordIs
      <4>2. k \in 1 .. WordElems
        BY <1>1
      <4> QED
        BY <2>15, <4>1, <4>2
    <3>4. IF Len(f) = FrameWords THEN watch'.due = f /\ next.before = << >>
          ELSE watch'.due = NoFrame /\ next.before = f
      <4>1. CASE Len(f) = FrameWords
        <5>1. ~(Len(f) < FrameWords)
          BY <4>1, PinSizes
        <5> QED
          BY <3>1, <4>1, <5>1, MarksAre
      <4>2. CASE Len(f) # FrameWords
        <5>1. Len(f) < FrameWords
          BY <3>2, <4>2, PinSizes
        <5> QED
          BY <3>1, <4>2, <5>1, NoMarkIs DEF NoFrame
      <4> QED
        BY <4>1, <4>2
    <3>5. EndsBefore(Gone(next), f[Len(f)])'
      BY <2>16, <3>1 DEF EndsBefore
    <3>6. Taken(SubSeq(f, 1, Len(f) - 1))'
      BY <2>6, <3>1 DEF Taken
    <3>7. WordEnd(next)'
      <4>1. f \in Frames' /\ NoFrame' = NoFrame
        BY DEF Frames, NoFrame
      <4> QED
        BY <3>1, <3>4, <3>5, <3>6, <4>1 DEF WordEnd
    <3> QED
      BY <2>10, <2>13, <2>14, <3>3, <3>7 DEF Following
  <2> QED
    BY <1>4, <2>17, <2>18 DEF IsItem
<1> QED
  BY <1>3, <1>4

-----------------------------------------------------------------------------
\* What is known of the item that is being sent.
ItemInv(it) ==
  /\ IsItem(it) /\ RestOf(it) /\ Consumed(it)
  /\ Gone(it) < 0 => watch.clean = 0 /\ ~watch.in_sync
  /\ watch.in_sync => Following(it)

\* The cases of the invariant; what becomes available now is right.
LEMMA InvCases ==
  ASSUME PinsInv
  PROVE  /\ PinsType /\ WatchOK /\ Len(pins.frame) < FrameWords
         /\ Blank \/ \E it \in Items : ItemInv(it)
<1>1. PinsType /\ watch.good /\ (Blank \/ \E it \in Items : ItemInv(it))
  BY DEF PinsInv, ItemInv
<1>2. CASE Blank
  BY <1>1, <1>2 DEF WatchOK, Blank
<1>3. ASSUME NEW it \in Items, ItemInv(it) PROVE WatchOK /\ Len(pins.frame) < FrameWords
  <2>1. IsItem(it) /\ RestOf(it) /\ Consumed(it) /\ (watch.in_sync => Following(it))
    BY <1>3 DEF ItemInv
  <2>2. watch.in_sync => Emitted = watch.due
    BY <1>1, <2>1, ClockIs DEF ClockRight
  <2>3. Len(pins.frame) < FrameWords
    BY <2>1, ItemFacts DEF RestOf
  <2> QED
    BY <1>1, <2>2, <2>3 DEF WatchOK
<1> QED
  BY <1>1, <1>2, <1>3

\* The item goes on in a clock without a fault.
LEMMA SameClock ==
  ASSUME PinsType, WatchOK, NEW it \in Items, ItemInv(it), Len(pins.rest) > 2, NEW ahead \in Ahead,
         CaptureStep(ahead.elems[1].v, ahead.elems[2].v),
         pins' = [rest |-> SubSeq(ahead.elems, 3, Len(ahead.elems)), frame |-> ahead.frame],
         watch' = Sampled(Sampled(Checked, ahead.elems[1]), ahead.elems[2])
  PROVE  PinsType' /\ watch'.good /\ ItemInv(it)'
<1> DEFINE e1 == ahead.elems[1]
           e2 == ahead.elems[2]
           g == Gone(it)
<1>1. /\ IsItem(it) /\ RestOf(it) /\ Consumed(it)
      /\ g < 0 => watch.clean = 0 /\ ~watch.in_sync
      /\ watch.in_sync => Following(it)
  BY DEF ItemInv
<1>2. AheadOf(ahead, it, g)
  BY <1>1, AheadSame
<1>3. g \in -1 .. Len(it.word) - 1 /\ Len(it.word) \in Nat
  BY <1>1, ItemLen DEF RestOf
<1>4. g \in Int /\ g >= -1 /\ g + 2 < Len(it.word)
  <2>1. g \in -2 .. Len(it.word) - 3
    BY <1>2 DEF AheadOf
  <2> HIDE DEF g
  <2> QED
    BY <1>3, <2>1
<1>5. /\ e1 \in Samples /\ e1.v \in Values
      /\ g >= 0 => e1.v = it.word[g + 1] /\ e1.mark = NoMark
  <2>1. /\ e1 \in Samples /\ e1.v \in Values
        /\ g + 1 >= 1 => /\ e1.v = it.word[g + 1]
                         /\ e1.mark = IF g + 1 = Len(it.word) THEN it.mark ELSE NoMark
    BY <1>1, <1>2, <1>4, AheadElems
  <2> HIDE DEF g, e1
  <2> QED
    BY <1>3, <1>4, <2>1
<1>6. e2 \in Samples /\ e2.v \in Values /\ e2.v = it.word[g + 2] /\ e2.mark = NoMark
  <2>1. /\ e2 \in Samples /\ e2.v \in Values
        /\ g + 2 >= 1 => /\ e2.v = it.word[g + 2]
                         /\ e2.mark = IF g + 2 = Len(it.word) THEN it.mark ELSE NoMark
    BY <1>1, <1>2, <1>4, AheadElems
  <2> HIDE DEF g, e2
  <2> QED
    BY <1>3, <1>4, <2>1
<1>7. pins' \in [rest : Seq(Samples), frame : Frames] /\ RestOf(it)' /\ Gone(it)' = g + 2
  <2>1. pins' = [rest |-> SubSeq(ahead.elems, 2 + 1, Len(ahead.elems)), frame |-> ahead.frame]
    OBVIOUS
  <2>2. 2 \in 1 .. 3 /\ g + 2 >= -1
    BY <1>4
  <2> QED
    BY <1>1, <1>2, <1>4, <2>1, <2>2, RestMoves
<1>8. watch' = Sampled(Sampled(Checked, e1), e2) /\ CaptureStep(e1.v, e2.v)
  OBVIOUS
<1>9. watch.clean \in 0 .. SyncElems /\ watch.in_sync \in BOOLEAN /\ SyncElems \in Nat /\ SyncElems >= 8
  BY PinSizes DEF PinsType
<1> HIDE DEF e1, e2
<1>10. /\ watch' \in Watches /\ watch'.good
       /\ watch'.clean = IF watch.clean <= SyncElems - 2 THEN watch.clean + 2 ELSE SyncElems
       /\ watch'.in_sync /\ ~watch.in_sync =>
            \/ e1.mark.sync /\ watch.clean >= SyncElems - 1
            \/ e2.mark.sync /\ watch.clean >= SyncElems - 2
       /\ watch.in_sync =>
            watch'.due = IF e2.mark.frame # << >> THEN e2.mark.frame
                         ELSE IF e1.mark.frame # << >> THEN e1.mark.frame ELSE NoFrame
  BY <1>5, <1>6, <1>8, ClockWatch
<1>11. PinsType'
  BY <1>5, <1>6, <1>7, <1>8, <1>10, TypeKeeps
<1>12. Consumed(it)'
  BY <1>1, <1>4, <1>5, <1>6, <1>7, <1>8, <1>10, SameConsumed
<1>13. watch'.in_sync => watch.in_sync
  <2> SUFFICES ASSUME watch'.in_sync, ~watch.in_sync PROVE FALSE
    BY <1>9
  <2>1. e1.mark.sync /\ watch.clean >= SyncElems - 1
    BY <1>6, <1>10, NoMarkIs
  <2>2. g < 0 => watch.clean = 0
    BY <1>1
  <2> HIDE DEF g
  <2>3. g >= 0
    BY <1>4, <1>9, <2>1, <2>2
  <2> QED
    BY <1>5, <2>1, <2>3, NoMarkIs
<1>14. ASSUME watch.in_sync PROVE Following(it)'
  <2>1. watch.clean = SyncElems /\ g >= 0
    BY <1>1, <1>14 DEF Following
  <2>2. watch'.clean = SyncElems
    BY <1>9, <1>10, <2>1
  <2>3. watch'.due = NoFrame
    BY <1>5, <1>6, <1>10, <1>14, <2>1, NoMarkIs
  <2> QED
    BY <1>1, <1>4, <1>5, <1>6, <1>7, <1>8, <1>14, <2>2, <2>3, SameFollows
<1>15. ~(Gone(it)' < 0)
  BY <1>4, <1>7
<1>16. IsItem(it)'
  BY <1>1 DEF IsItem, HalfItem, FullItem, WordItem, HalfSyncElems, FullSyncElems, SyncElems,
              NoMark, SyncMark, FrameMark, NoFrame, Frames
<1> QED
  BY <1>7, <1>10, <1>11, <1>12, <1>13, <1>14, <1>15, <1>16 DEF ItemInv

\* The item has ended, or there was none.
LEMMA NextClock ==
  ASSUME PinsType, WatchOK, Len(pins.frame) < FrameWords,
         Blank \/ \E it \in Items : ItemInv(it),
         Len(pins.rest) <= 2, NEW ahead \in Ahead,
         CaptureStep(ahead.elems[1].v, ahead.elems[2].v),
         pins' = [rest |-> SubSeq(ahead.elems, 3, Len(ahead.elems)), frame |-> ahead.frame],
         watch' = Sampled(Sampled(Checked, ahead.elems[1]), ahead.elems[2])
  PROVE  PinsType' /\ watch'.good /\ \E next \in Items : ItemInv(next)'
<1> DEFINE e1 == ahead.elems[1]
           e2 == ahead.elems[2]
           n == Len(pins.rest)
<1>1. n \in 0 .. 2 /\ pins.rest \in Seq(Samples)
  <2>1. pins.rest \in Seq(Samples)
    BY DEF PinsType
  <2>2. n \in Nat /\ n <= 2
    BY <2>1, LenProperties
  <2> HIDE DEF n
  <2> QED
    BY <2>1, <2>2
<1>2. PICK next \in Items :
        /\ IsItem(next) /\ next.before = pins.frame /\ AheadOf(ahead, next, -n)
        /\ \A i \in 1 .. n : ahead.elems[i] = pins.rest[i]
  BY AheadNext
<1>3. Len(next.word) \in Nat /\ Len(next.word) >= 4
  BY <1>2, ItemLen
<1>4. -n \in Int
  <2> HIDE DEF n
  <2> QED
    BY <1>1
<1>5. /\ e1 \in Samples /\ e1.v \in Values
      /\ n = 0 => e1.v = next.word[1] /\ e1.mark = NoMark
  <2>1. /\ e1 \in Samples /\ e1.v \in Values
        /\ (-n) + 1 >= 1 => /\ e1.v = next.word[(-n) + 1]
                            /\ e1.mark = IF (-n) + 1 = Len(next.word) THEN next.mark ELSE NoMark
    BY <1>2, <1>4, AheadElems
  <2> HIDE DEF n, e1
  <2> QED
    BY <1>1, <1>3, <2>1
<1>6. /\ e2 \in Samples /\ e2.v \in Values
      /\ n = 0 => e2.v = next.word[2] /\ e2.mark = NoMark
      /\ n = 1 => e2.v = next.word[1] /\ e2.mark = NoMark
  <2>1. /\ e2 \in Samples /\ e2.v \in Values
        /\ (-n) + 2 >= 1 => /\ e2.v = next.word[(-n) + 2]
                            /\ e2.mark = IF (-n) + 2 = Len(next.word) THEN next.mark ELSE NoMark
    BY <1>2, <1>4, AheadElems
  <2> HIDE DEF n, e2
  <2> QED
    BY <1>1, <1>3, <2>1
<1>7. pins' \in [rest : Seq(Samples), frame : Frames] /\ RestOf(next)' /\ Gone(next)' = 2 - n
  <2>1. pins' = [rest |-> SubSeq(ahead.elems, 2 + 1, Len(ahead.elems)), frame |-> ahead.frame]
    OBVIOUS
  <2>2. 2 \in 1 .. 3 /\ (-n) + 2 >= -1 /\ (-n) + 2 < Len(next.word) /\ (-n) + 2 = 2 - n
    <3> HIDE DEF n
    <3> QED
      BY <1>1, <1>3
  <2>3. pins' \in [rest : Seq(Samples), frame : Frames] /\ RestOf(next)' /\ Gone(next)' = (-n) + 2
    BY <1>2, <1>4, <2>1, <2>2, RestMoves
  <2> HIDE DEF n
  <2> QED
    BY <2>2, <2>3
<1>8. watch' = Sampled(Sampled(Checked, e1), e2) /\ CaptureStep(e1.v, e2.v)
  OBVIOUS
<1>9. /\ watch.clean \in 0 .. SyncElems /\ watch.in_sync \in BOOLEAN /\ SyncElems \in Nat /\ SyncElems >= 8
  BY PinSizes DEF PinsType
<1>10. \A i \in 1 .. n : ahead.elems[i] = pins.rest[i]
  BY <1>2
<1>11. (n >= 1 => e1 = pins.rest[1]) /\ (n = 2 => e2 = pins.rest[2])
  BY <1>1, <1>10
<1> HIDE DEF e1, e2
<1>12. /\ watch' \in Watches /\ watch'.good
       /\ watch'.clean = IF watch.clean <= SyncElems - 2 THEN watch.clean + 2 ELSE SyncElems
       /\ watch'.in_sync /\ ~watch.in_sync =>
            /\ \/ e1.mark.sync /\ watch.clean >= SyncElems - 1
               \/ e2.mark.sync /\ watch.clean >= SyncElems - 2
            /\ e2.mark.frame = << >> => watch'.due = NoFrame
       /\ watch.in_sync =>
            watch'.due = IF e2.mark.frame # << >> THEN e2.mark.frame
                         ELSE IF e1.mark.frame # << >> THEN e1.mark.frame ELSE NoFrame
  BY <1>5, <1>6, <1>8, ClockWatch
<1>13. PinsType'
  BY <1>5, <1>6, <1>7, <1>8, <1>12, TypeKeeps
<1>14. Consumed(next)'
  BY <1>1, <1>2, <1>5, <1>6, <1>7, <1>8, NextConsumed
<1>15. ASSUME Blank PROVE ~watch'.in_sync
  <2>1. n = 0 /\ ~watch.in_sync
    BY <1>15 DEF Blank
  <2> QED
    BY <1>5, <1>6, <1>12, <2>1, NoMarkIs
<1>16. ASSUME NEW it \in Items, ItemInv(it), watch'.in_sync PROVE Following(next)'
  <2> DEFINE g == Gone(it)
  <2>1. /\ IsItem(it) /\ RestOf(it) /\ Consumed(it) /\ (watch.in_sync => Following(it))
    BY <1>16 DEF ItemInv
  <2>2. /\ g \in -1 .. Len(it.word) - 1 /\ g = Len(it.word) - n /\ pins.frame = it.frame
        /\ \A i \in 1 .. n : g + i >= 1 => pins.rest[i] = Elems(it.word, it.mark)[g + i]
    BY <2>1 DEF RestOf, Gone
  <2>3. Len(it.word) \in Nat /\ Len(it.word) >= 4
    BY <2>1, ItemLen
  <2>4. it.word \in Seq(Values) /\ it.mark \in Marks
    BY <2>1, ItemFacts
  <2>5. \A i \in 1 .. Len(it.word) :
          /\ Elems(it.word, it.mark)[i].v = it.word[i]
          /\ Elems(it.word, it.mark)[i].mark = IF i = Len(it.word) THEN it.mark ELSE NoMark
    BY <2>4, ElemsAre
  <2>6. /\ n \in 1 .. 2 /\ e1.v = it.word[g + 1]
        /\ e1.mark = IF n = 1 THEN it.mark ELSE NoMark
        /\ n = 2 => e2.v = it.word[g + 2] /\ e2.mark = it.mark
    <3> HIDE DEF g, n
    <3>1. n \in 1 .. 2 /\ g + 1 >= 1 /\ g + 1 \in 1 .. Len(it.word) /\ (g + 1 = Len(it.word) <=> n = 1)
      BY <1>1, <2>2, <2>3
    <3>2. n = 2 => g + 2 = Len(it.word) /\ g + 2 \in 1 .. Len(it.word) /\ g + 2 >= 1
      BY <1>1, <2>2, <2>3
    <3>3. e1 = Elems(it.word, it.mark)[g + 1]
      BY <1>11, <2>2, <3>1
    <3>4. n = 2 => e2 = Elems(it.word, it.mark)[g + 2]
      BY <1>11, <2>2, <3>1, <3>2
    <3> QED
      BY <2>5, <3>1, <3>2, <3>3, <3>4
  <2>7. e2.mark = IF n = 2 THEN it.mark ELSE NoMark
    BY <1>6, <2>6
  <2>8. next.before = it.frame
    BY <1>2, <2>2
  <2>9. CASE watch.in_sync
    <3>1. watch.clean = SyncElems /\ Following(it)
      BY <2>1, <2>9 DEF Following
    <3>2. watch'.clean = SyncElems
      BY <1>9, <1>12, <3>1
    <3>3. watch'.due = it.mark.frame
      <4>1. n = 1 \/ n = 2
        BY <2>6
      <4> HIDE DEF n
      <4>2. CASE n = 1
        BY <1>12, <2>6, <2>7, <2>9, <4>2, NoMarkIs DEF NoFrame
      <4>3. CASE n = 2
        BY <1>12, <2>6, <2>7, <2>9, <4>3, NoMarkIs DEF NoFrame
      <4> QED
        BY <4>1, <4>2, <4>3
    <3>4. n = 2 => e2.v = it.word[g + 2]
      BY <2>6
    <3> QED
      BY <1>2, <1>5, <1>6, <1>7, <1>8, <2>1, <2>2, <2>6, <2>8, <3>1, <3>2, <3>3, <3>4, NextFollows
  <2>10. CASE ~watch.in_sync
    <3>1. /\ \/ e1.mark.sync /\ watch.clean >= SyncElems - 1
             \/ e2.mark.sync /\ watch.clean >= SyncElems - 2
          /\ e2.mark.frame = << >> => watch'.due = NoFrame
      BY <1>12, <1>16, <2>10
    <3>2. it.mark.sync /\ watch.clean >= SyncElems - n
      <4>1. n = 1 \/ n = 2
        BY <2>6
      <4> HIDE DEF n
      <4>2. CASE n = 1
        BY <1>9, <2>6, <2>7, <3>1, <4>2, NoMarkIs
      <4>3. CASE n = 2
        BY <1>9, <2>6, <2>7, <3>1, <4>3, NoMarkIs
      <4> QED
        BY <4>1, <4>2, <4>3
    <3>3. FullItem(it)
      <4>1. ~HalfItem(it)
        BY <3>2, NoMarkIs DEF HalfItem
      <4>2. ASSUME NEW f \in Frames, WordItem(it, f) PROVE FALSE
        BY <3>2, <4>2, NoMarkIs, MarksAre DEF WordItem
      <4> QED
        BY <2>1, <4>1, <4>2 DEF IsItem
    <3>4. it.frame = << >> /\ it.mark.frame = << >> /\ Len(it.word) = SyncElems
      BY <2>1, <3>3, MarksAre, ItemFacts DEF FullItem
    <3>5. watch.clean >= g
      BY <2>2, <3>2, <3>4
    <3>6. watch'.clean = SyncElems
      <4>1. n \in 1 .. 2
        BY <2>6
      <4>2. watch'.clean = IF watch.clean <= SyncElems - 2 THEN watch.clean + 2 ELSE SyncElems
        BY <1>12
      <4> HIDE DEF n
      <4>3. watch.clean <= SyncElems - 2 => watch.clean + 2 = SyncElems
        BY <1>9, <3>2, <4>1
      <4> QED
        BY <4>2, <4>3
    <3>7. watch'.due = NoFrame
      <4>1. e2.mark.frame = << >>
        BY <2>7, <3>4, NoMarkIs
      <4> QED
        BY <3>1, <4>1
    <3>8. n = 2 => e2.v = it.word[g + 2]
      BY <2>6
    <3> QED
      BY <1>5, <1>6, <1>7, <1>8, <2>1, <2>2, <2>6, <2>8, <3>3, <3>4, <3>5, <3>6, <3>7, <3>8, SyncEnds
  <2> QED
    BY <1>9, <2>9, <2>10
<1>17. watch'.in_sync => Following(next)'
  BY <1>15, <1>16
<1>18. ~(Gone(next)' < 0)
  <2> HIDE DEF n
  <2> QED
    BY <1>1, <1>7
<1>19. IsItem(next)'
  BY <1>2 DEF IsItem, HalfItem, FullItem, WordItem, HalfSyncElems, FullSyncElems, SyncElems,
              NoMark, SyncMark, FrameMark, NoFrame, Frames
<1>20. ItemInv(next)'
  BY <1>7, <1>14, <1>17, <1>18, <1>19 DEF ItemInv
<1> QED
  BY <1>12, <1>13, <1>20

\* After a fault nothing is known but what the port has left of an item.
LEMMA FaultLeaves ==
  ASSUME PinsType, WatchOK, NEW it \in Items, IsItem(it), NEW ahead, NEW h \in Int, AheadOf(ahead, it, h),
         NEW i \in 1 .. 3, NEW j \in 1 .. 3, NEW n \in 1 .. 3, h + n >= -1,
         CaptureStep(ahead.elems[i].v, ahead.elems[j].v),
         pins' = [rest |-> SubSeq(ahead.elems, n + 1, Len(ahead.elems)), frame |-> ahead.frame],
         watch' = [Checked EXCEPT !.in_sync = FALSE, !.clean = 0]
  PROVE  PinsInv'
<1>1. ahead.elems[i].v \in Values /\ ahead.elems[j].v \in Values
  BY AheadElems
<1>2. Checked \in Watches /\ Checked.good
  BY CheckedIs
<1>3. watch' \in Watches /\ watch'.good /\ ~watch'.in_sync /\ watch'.clean = 0
  <2>1. 0 \in 0 .. SyncElems
    BY PinSizes
  <2> QED
    BY <1>2, <2>1 DEF Watches
<1>4. /\ pins' \in [rest : Seq(Samples), frame : Frames] /\ pins'.frame = it.frame
      /\ IF h + n < Len(it.word) THEN RestOf(it)' /\ Gone(it)' = h + n ELSE pins'.rest = << >>
  BY RestMoves
<1>5. PinsType'
  BY <1>1, <1>3, <1>4, TypeKeeps
<1>6. CASE h + n < Len(it.word)
  <2>1. Consumed(it)'
    <3>1. \A k \in 1 .. Len(it.word) : ~(k <= Gone(it)' /\ k > Gone(it)' - 0)
      BY <1>4, <1>6, ItemLen
    <3> QED
      BY <1>3, <3>1 DEF Consumed
  <2>2. IsItem(it)'
    BY DEF IsItem, HalfItem, FullItem, WordItem, HalfSyncElems, FullSyncElems, SyncElems,
           NoMark, SyncMark, FrameMark, NoFrame, Frames
  <2>3. it \in Items'
    BY DEF Items, Frames, Marks, Values
  <2> QED
    BY <1>3, <1>4, <1>5, <1>6, <2>1, <2>2, <2>3 DEF PinsInv
<1>7. CASE ~(h + n < Len(it.word))
  <2>1. Blank'
    <3>1. pins'.rest = << >> /\ pins'.frame = it.frame
      BY <1>4, <1>7
    <3>2. Len(it.frame) < FrameWords
      BY ItemFacts
    <3> QED
      BY <1>3, <3>1, <3>2 DEF Blank
  <2> QED
    BY <1>3, <1>5, <2>1 DEF PinsInv
<1> QED
  BY <1>6, <1>7

\* A clock with a fault keeps the invariant.
LEMMA FaultKeeps ==
  ASSUME PinsInv, NEW i \in 1 .. 3, NEW j \in 1 .. 3, NEW n \in 1 .. 3, Fault(i, j, n)
  PROVE  PinsInv'
<1>1. /\ PinsType /\ WatchOK /\ Len(pins.frame) < FrameWords
      /\ Blank \/ \E it \in Items : ItemInv(it)
  BY InvCases
<1>2. PICK ahead \in Ahead :
        /\ CaptureStep(ahead.elems[i].v, ahead.elems[j].v)
        /\ pins' = [rest |-> SubSeq(ahead.elems, n + 1, Len(ahead.elems)), frame |-> ahead.frame]
        /\ watch' = [Checked EXCEPT !.in_sync = FALSE, !.clean = 0]
  BY DEF Fault
<1>3. watch.clean # 0 /\ pins.rest \in Seq(Samples)
  BY <1>1, PinSizes DEF Fault, PinsType
<1>4. CASE Len(pins.rest) > 2
  <2>1. ~Blank
    BY <1>4, EmptySeq DEF Blank
  <2>2. PICK it \in Items : ItemInv(it)
    BY <1>1, <2>1
  <2>3. IsItem(it) /\ RestOf(it) /\ ~(Gone(it) < 0)
    BY <1>3, <2>2 DEF ItemInv
  <2>4. Gone(it) \in Int /\ Gone(it) + n >= -1
    BY <2>3, ItemLen DEF RestOf
  <2>5. AheadOf(ahead, it, Gone(it))
    BY <1>1, <1>4, <2>3, AheadSame
  <2> QED
    BY <1>1, <1>2, <2>3, <2>4, <2>5, FaultLeaves
<1>5. CASE ~(Len(pins.rest) > 2)
  <2> DEFINE m == Len(pins.rest)
  <2>1. m \in Nat /\ m <= 2
    BY <1>3, <1>5, LenProperties
  <2>2. PICK it \in Items : IsItem(it) /\ AheadOf(ahead, it, -m)
    BY <1>1, <2>1, AheadNext
  <2>3. -m \in Int /\ (-m) + n >= -1
    <3> HIDE DEF m
    <3> QED
      BY <2>1
  <2> HIDE DEF m
  <2> QED
    BY <1>1, <1>2, <2>2, <2>3, FaultLeaves
<1> QED
  BY <1>4, <1>5

\* A clock without a fault keeps the invariant.
LEMMA ClockKeeps ==
  ASSUME PinsInv, PinsClock
  PROVE  PinsInv'
<1>1. /\ PinsType /\ WatchOK /\ Len(pins.frame) < FrameWords
      /\ Blank \/ \E it \in Items : ItemInv(it)
  BY InvCases
<1>2. PICK ahead \in Ahead :
        /\ CaptureStep(ahead.elems[1].v, ahead.elems[2].v)
        /\ pins' = [rest |-> SubSeq(ahead.elems, 3, Len(ahead.elems)), frame |-> ahead.frame]
        /\ watch' = Sampled(Sampled(Checked, ahead.elems[1]), ahead.elems[2])
  BY DEF PinsClock
<1>3. PinsType' /\ watch'.good /\ \E it \in Items : ItemInv(it)'
  <2>1. CASE Len(pins.rest) > 2
    <3>1. ~Blank
      BY <2>1, EmptySeq DEF Blank
    <3>2. PICK it \in Items : ItemInv(it)
      BY <1>1, <3>1
    <3> QED
      BY <1>1, <1>2, <2>1, <3>2, SameClock
  <2>2. CASE ~(Len(pins.rest) > 2)
    <3>1. Len(pins.rest) <= 2
      <4>1. Len(pins.rest) \in Nat
        BY <1>1, LenProperties DEF PinsType
      <4> QED
        BY <2>2, <4>1
    <3> QED
      BY <1>1, <1>2, <3>1, NextClock
  <2> QED
    BY <2>1, <2>2
<1>4. PICK it \in Items : ItemInv(it)'
  BY <1>3
<1>5. it \in Items'
  BY DEF Items, Frames, Marks, Values
<1> QED
  BY <1>3, <1>4, <1>5 DEF PinsInv, ItemInv

\* The invariant holds when the port and the receiver start.
LEMMA PinsStarts == PinsInit => PinsInv
<1> SUFFICES ASSUME PinsInit PROVE PinsInv
  OBVIOUS
<1>1. PinsType
  <2>1. << >> \in Frames /\ << >> \in Seq(Samples) /\ << >> \in Seq(Values) /\ "0" \in Values
    BY EmptySeq, PinSizes DEF Frames, Values
  <2>2. construct \in Seq(Values) /\ Len(construct) = Now
    BY <2>1, PinSizes DEF PinsInit, Now
  <2>3. cFrame \in [1 .. FrameWords - 1 -> Seq(Values)]
    BY <2>1 DEF PinsInit
  <2>4. remainingClocks \in 0 .. packetClocks /\ elemCount \in 0 .. FrameWords - 1 /\ isREsync \in BOOLEAN
    <3>1. /\ packetClocks \in Nat /\ FrameWords \in Nat /\ FrameWords >= 2
          /\ 0 \in 0 .. packetClocks /\ FrameWords - 1 \in 0 .. FrameWords - 1
      BY PinSizes
    <3> QED
      BY <3>1 DEF PinsInit
  <2>5. pins \in [rest : Seq(Samples), frame : Frames]
    BY <2>1 DEF PinsInit
  <2>6. watch \in [in_sync : BOOLEAN, clean : 0 .. SyncElems, due : Frames, good : BOOLEAN]
    BY <2>1, PinSizes DEF PinsInit, NoFrame
  <2> QED
    BY <2>2, <2>3, <2>4, <2>5, <2>6 DEF PinsType
<1>2. Blank
  BY EmptySeq, PinSizes DEF PinsInit, Blank
<1>3. watch.good
  BY DEF PinsInit
<1> QED
  BY <1>1, <1>2, <1>3 DEF PinsInv

\* The invariant holds in every state of the port and the receiver.
THEOREM PinsInvHolds == PinsSpec => []PinsInv
<1>1. PinsInv /\ [PinsNext]_pinsVars => PinsInv'
  <2> SUFFICES ASSUME PinsInv, [PinsNext]_pinsVars PROVE PinsInv'
    OBVIOUS
  <2>1. CASE PinsClock
    BY <2>1, ClockKeeps
  <2>2. CASE Fault(1, 1, 1) \/ Fault(1, 3, 3) \/ Fault(2, 3, 3)
    <3>1. 1 \in 1 .. 3 /\ 2 \in 1 .. 3 /\ 3 \in 1 .. 3
      OBVIOUS
    <3> QED
      BY <2>2, <3>1, FaultKeeps
  <2>3. CASE UNCHANGED pinsVars
    <3>1. PinsType' /\ watch'.good
      BY <2>3 DEF PinsInv, PinsType, pinsVars, Now, SyncElems, packetClocks, Frames, Samples, Marks, Values
    <3>2. Blank => Blank'
      BY <2>3 DEF Blank, pinsVars
    <3>3. ASSUME NEW it \in Items, ItemInv(it) PROVE it \in Items' /\ ItemInv(it)'
      <4>1. /\ construct' = construct /\ cFrame' = cFrame /\ remainingClocks' = remainingClocks
            /\ elemCount' = elemCount /\ isREsync' = isREsync /\ pins' = pins /\ watch' = watch
        BY <2>3 DEF pinsVars
      <4>2. Gone(it)' = Gone(it) /\ InWord(it)' = InWord(it)
        BY <4>1 DEF Gone, InWord
      <4>3. Now' = Now /\ SyncElems' = SyncElems /\ NoFrame' = NoFrame /\ it \in Items' /\ Frames' = Frames
        BY DEF Now, SyncElems, NoFrame, Items, Frames, Marks, Values
      <4>4. IsItem(it)' = IsItem(it)
        BY DEF IsItem, HalfItem, FullItem, WordItem, HalfSyncElems, FullSyncElems, SyncElems,
               NoMark, SyncMark, FrameMark, NoFrame, Frames
      <4>5. RestOf(it)' = RestOf(it)
        BY <4>1, <4>2 DEF RestOf, Elems, NoMark, NoFrame
      <4>6. Consumed(it)' = Consumed(it)
        BY <4>1, <4>2, <4>3 DEF Consumed
      <4>7. /\ NotOnes(Gone(it), WordElems)' = NotOnes(Gone(it), WordElems)
            /\ NotOnes(Gone(it) + WordElems, WordElems)' = NotOnes(Gone(it) + WordElems, WordElems)
        BY <4>1, <4>2, <4>3 DEF NotOnes
      <4>8. SyncEnd(it)' = SyncEnd(it)
        BY <4>1, <4>2, <4>3 DEF SyncEnd, EndsBefore, FullSyncElems
      <4>9. HalfEnd(it)' = HalfEnd(it)
        BY <4>1, <4>2, <4>3, <4>7 DEF HalfEnd, EndsBefore, HalfSyncElems, Taken
      <4>10. WordEnd(it)' = WordEnd(it)
        BY <4>1, <4>2, <4>3 DEF WordEnd, EndsBefore, Taken
      <4>11. Aligned(it)' = Aligned(it) /\ Taken(it.before)' = Taken(it.before)
        BY <4>1, <4>2 DEF Aligned, Taken
      <4>12. Following(it)' = Following(it)
        BY <4>1, <4>2, <4>3, <4>7, <4>8, <4>9, <4>10, <4>11 DEF Following
      <4> QED
        BY <3>3, <4>1, <4>2, <4>3, <4>4, <4>5, <4>6, <4>12 DEF ItemInv
    <3> QED
      BY <3>1, <3>2, <3>3 DEF PinsInv, ItemInv
  <2> QED
    BY <2>1, <2>2, <2>3 DEF PinsNext
<1> QED
  BY <1>1, PinsStarts, PTL DEF PinsSpec

\* From the first full sync that was sampled without a fault until the next fault every
\* frame of the port becomes available as soon as its last element was sampled, and nothing
\* else does (traceIF.v).
THEOREM PinsAreRight == PinsSpec => []PinsFramesRight
<1>1. PinsInv => PinsFramesRight
  BY DEF PinsInv, PinsFramesRight
<1> QED
  BY <1>1, PinsInvHolds, PTL

-----------------------------------------------------------------------------
(***************************************************************************)
(* TPIUDemux.                                                              *)
(***************************************************************************)
\* The byte at place i is still under the old channel: the ID before it is a delayed one.
Waits(fr, i) == i % 2 = 1 /\ IsIdByte(fr.bytes[i - 1]) /\ fr.aux[(i - 1) \div 2] = 1

\* An ID at place i counts at once.
Counts(fr, i) == i % 2 = 0 /\ IsIdByte(fr.bytes[i]) /\ fr.aux[i \div 2] = 0

\* TrackStream is where it has to be when the byte at place i is next.
TrackedTo(i) ==
  /\ ts.channel = ChannelAt(frame, i, expect.before)
  /\ ts.next_valid <=> Waits(frame, i)
  /\ ts.next_valid => ts.next = frame.bytes[i - 1] \div 2

\* The ID at place idx may have been seen although it has not been taken.
TrackInv ==
  IF frame = << >> THEN idx = 0 /\ ts.channel = expect.before /\ ~ts.next_valid /\ expect.left = {}
  ELSE /\ frame \in TpiuFrames
       /\ expect.left = {p \in Yields(frame, expect.before) : p >= idx}
       /\ TrackedTo(idx) \/ (Unmangled(idx).is_id /\ TrackedTo(idx + 1))

RegistersOK ==
  /\ idx \in 0 .. FrameLen - 1
  /\ ts = [channel |-> ts.channel, next |-> ts.next, next_valid |-> ts.next_valid]
  /\ ts.next_valid \in BOOLEAN /\ ts.channel \in Nat /\ ts.next \in Nat
  /\ pk.state \in {"HEADER", "DATA", "END"}
  /\ pk.byte_cnt \in 0 .. max_size - 1
  /\ pk.timeout_cnt \in 0 .. Timeout

\* The packet its reader is in is the one that was begun, and one byte is kept back.
PacketInv ==
  /\ rx = [channel |-> rx.channel, size |-> rx.size, good |-> TRUE]
  /\ rx.size \in 0 .. max_size
  /\ IF pk.state = "HEADER" THEN owed = << >> /\ rx.channel = None
     ELSE /\ owed = <<[channel |-> pk.channel, data |-> pk.data]>>
          /\ rx.channel = pk.channel /\ rx.channel # None /\ rx.size = pk.byte_cnt

DemuxInv == RegistersOK /\ TrackInv /\ PacketInv /\ bypass \in BOOLEAN /\ expect.good = TRUE

-----------------------------------------------------------------------------
LEMMA DemuxConstants ==
  /\ FrameLen \in Nat /\ FrameLen % 2 = 1 /\ FrameLen >= 1
  /\ Timeout \in Nat /\ max_size \in Nat /\ max_size >= 2
  /\ Bypass \subseteq BOOLEAN
  /\ << >> \notin TpiuFrames
  BY FrameAssumption, PacketizerAssumption

LEMMA Halves ==
  ASSUME NEW i \in Nat
  PROVE  /\ i % 2 \in {0, 1} /\ i \div 2 \in Nat /\ i = 2 * (i \div 2) + (i % 2)
         /\ (i + 1) % 2 = 1 - (i % 2)
         /\ i % 2 = 0 => (i + 1) \div 2 = i \div 2
<1>0. \A M \in Nat : M >= 1 => i \div M \in Int /\ i % M \in 0 .. M - 1 /\ i = M * (i \div M) + (i % M)
  <2>1. SUFFICES ASSUME NEW M \in Nat, M >= 1
                 PROVE  i \div M \in Int /\ i % M \in 0 .. M - 1 /\ i = M * (i \div M) + (i % M)
    OBVIOUS
  <2> QED
    BY <2>1
<1>1. i % 2 \in 0 .. 1 /\ i = 2 * (i \div 2) + (i % 2) /\ i \div 2 \in Int
  <2>1. 2 \in Nat /\ 2 >= 1
    OBVIOUS
  <2>2. i \div 2 \in Int /\ i % 2 \in 0 .. 2 - 1 /\ i = 2 * (i \div 2) + (i % 2)
    BY <1>0, <2>1, Zenon
  <2> QED
    BY <2>2
<1>2. i \div 2 \in Nat
  BY <1>1
<1>3. CASE i % 2 = 0
  <2>1. i + 1 = 2 * (i \div 2) + 1 /\ i + 1 \in Int
    BY <1>1, <1>3
  <2>2. (i + 1) % 2 = 1 /\ (i + 1) \div 2 = i \div 2
    BY <1>2, <2>1
  <2> QED
    BY <1>1, <1>2, <1>3, <2>2
<1>4. CASE i % 2 = 1
  <2>1. i + 1 = 2 * (i \div 2 + 1) + 0 /\ i + 1 \in Int
    BY <1>1, <1>4
  <2>2. (i + 1) % 2 = 0
    BY <1>2, <2>1
  <2> QED
    BY <1>1, <1>2, <1>4, <2>2
<1> QED
  BY <1>1, <1>3, <1>4

LEMMA FrameFacts ==
  ASSUME NEW fr \in TpiuFrames, NEW i \in 0 .. FrameLen - 1
  PROVE  /\ fr.bytes[i] \in Nat
         /\ i % 2 = 0 => fr.aux[i \div 2] \in {0, 1}
         /\ fr.bytes[i] \div 2 \in Nat
         /\ i = FrameLen - 1 => i % 2 = 0
         /\ i = FrameLen - 1 /\ IsIdByte(fr.bytes[i]) => fr.aux[i \div 2] = 0
<1>1. fr.bytes \in [0 .. FrameLen - 1 -> Nat] /\ fr.aux \in [0 .. FrameLen \div 2 -> {0, 1}]
      /\ (fr.bytes[FrameLen - 1] % 2 = 1 => fr.aux[FrameLen \div 2] = 0)
  BY FrameAssumption
<1>2. fr.bytes[i] \in Nat /\ fr.bytes[i] \div 2 \in Nat
  BY <1>1, Halves
<1>3. i \div 2 \in 0 .. FrameLen \div 2
  BY DemuxConstants, Halves
<1>4. i = FrameLen - 1 => i % 2 = 0 /\ FrameLen \div 2 = i \div 2
  BY DemuxConstants, Halves
<1> QED
  BY <1>1, <1>2, <1>3, <1>4 DEF IsIdByte

\* What the trace port says of the byte after place i.
LEMMA IdsNext ==
  ASSUME NEW fr \in TpiuFrames, NEW i \in 0 .. FrameLen - 1
  PROVE  Ids(fr, i + 1) = Ids(fr, i) \cup {j \in 0 .. i : j = i /\ Counts(fr, i)}
                            \cup {j \in 0 .. i : j = i - 1 /\ Waits(fr, i)}
<1>1. ASSUME NEW j \in 0 .. i - 1, j # i - 1
      PROVE  j \in Ids(fr, i + 1) <=> j \in Ids(fr, i)
  BY <1>1 DEF Ids
<1>2. ASSUME i - 1 \in 0 .. i
      PROVE  i - 1 \in Ids(fr, i + 1) <=> i - 1 \in Ids(fr, i) \/ Waits(fr, i)
  <2>1. i - 1 \in Nat /\ i - 1 \in 0 .. FrameLen - 1 /\ i = (i - 1) + 1
    BY <1>2, DemuxConstants
  <2>2. (i - 1) % 2 \in {0, 1} /\ i % 2 = 1 - ((i - 1) % 2)
    BY <2>1, Halves
  <2>3. (i - 1) % 2 = 0 => fr.aux[(i - 1) \div 2] \in {0, 1}
    BY <2>1, FrameFacts
  <2>4. i % 2 = 1 <=> (i - 1) % 2 = 0
    BY <2>2
  <2>5. i - 1 \in Ids(fr, i + 1) <=> (i - 1) % 2 = 0 /\ IsIdByte(fr.bytes[i - 1])
    BY <2>1 DEF Ids
  <2>6. i - 1 \in Ids(fr, i) <=> (i - 1) % 2 = 0 /\ IsIdByte(fr.bytes[i - 1]) /\ fr.aux[(i - 1) \div 2] # 1
    BY <2>1 DEF Ids
  <2> QED
    BY <2>3, <2>4, <2>5, <2>6 DEF Waits
<1>3. i \in Ids(fr, i + 1) <=> Counts(fr, i)
  <2>1. i % 2 = 0 => fr.aux[i \div 2] \in {0, 1}
    BY FrameFacts
  <2>2. i \in Ids(fr, i + 1) <=> i % 2 = 0 /\ IsIdByte(fr.bytes[i]) /\ fr.aux[i \div 2] # 1
    BY DEF Ids
  <2> QED
    BY <2>1, <2>2 DEF Counts
<1>4. Ids(fr, i + 1) \subseteq 0 .. i /\ Ids(fr, i) \subseteq 0 .. i - 1
  BY DEF Ids
<1>5. ASSUME NEW j \in 0 .. i
      PROVE  j \in Ids(fr, i + 1) <=> \/ j \in Ids(fr, i)
                                      \/ j = i /\ Counts(fr, i)
                                      \/ j = i - 1 /\ Waits(fr, i)
  <2>1. CASE j = i
    BY <2>1, <1>3, <1>4
  <2>2. CASE j = i - 1
    BY <2>2, <1>2
  <2>3. CASE j # i /\ j # i - 1
    BY <2>3, <1>1
  <2> QED
    BY <2>1, <2>2, <2>3
<1> QED
  BY <1>4, <1>5

LEMMA MaxIs ==
  ASSUME NEW S, S \subseteq Nat, NEW m \in S, \A x \in S : m >= x
  PROVE  Max(S) = m
<1> DEFINE t == CHOOSE x \in S : \A y \in S : x >= y
<1>1. t \in S /\ \A y \in S : t >= y
  OBVIOUS
<1> HIDE DEF t
<1>2. t >= m /\ m >= t /\ t \in Nat /\ m \in Nat
  BY <1>1
<1>3. t = m
  BY <1>2
<1> QED
  BY <1>3 DEF t, Max

LEMMA MinIs ==
  ASSUME NEW S, S \subseteq Nat, NEW m \in S, \A x \in S : m <= x
  PROVE  Min(S) = m
<1> DEFINE t == CHOOSE x \in S : \A y \in S : x =< y
<1>1. t \in S /\ \A y \in S : t =< y
  OBVIOUS
<1> HIDE DEF t
<1>2. t <= m /\ m <= t /\ t \in Nat /\ m \in Nat
  BY <1>1
<1>3. t = m
  BY <1>2
<1> QED
  BY <1>3 DEF t, Min

LEMMA ChannelNext ==
  ASSUME NEW fr \in TpiuFrames, NEW i \in 0 .. FrameLen - 1, NEW b
  PROVE  /\ Counts(fr, i) => ChannelAt(fr, i + 1, b) = fr.bytes[i] \div 2
         /\ Waits(fr, i) => ChannelAt(fr, i + 1, b) = fr.bytes[i - 1] \div 2
         /\ ~Counts(fr, i) /\ ~Waits(fr, i) => ChannelAt(fr, i + 1, b) = ChannelAt(fr, i, b)
         /\ ~(Counts(fr, i) /\ Waits(fr, i))
<1> DEFINE I == Ids(fr, i + 1)
<1>0. I = Ids(fr, i) \cup {j \in 0 .. i : j = i /\ Counts(fr, i)}
            \cup {j \in 0 .. i : j = i - 1 /\ Waits(fr, i)}
      /\ Ids(fr, i) \subseteq 0 .. i - 1 /\ I \subseteq 0 .. i
  BY IdsNext DEF Ids
<1>1. ~(Counts(fr, i) /\ Waits(fr, i))
  BY DEF Counts, Waits
<1>2. ASSUME Counts(fr, i) PROVE ChannelAt(fr, i + 1, b) = fr.bytes[i] \div 2
  <2>1. i \in I
    BY <1>0, <1>2
  <2>2. Max(I) = i
    BY <1>0, <2>1, MaxIs
  <2> QED
    BY <2>1, <2>2 DEF ChannelAt
<1>3. ASSUME Waits(fr, i) PROVE ChannelAt(fr, i + 1, b) = fr.bytes[i - 1] \div 2
  <2>1. i >= 1
    BY <1>3, Halves DEF Waits
  <2>2. i - 1 \in I /\ i \notin I
    BY <1>0, <1>1, <1>3, <2>1
  <2>3. Max(I) = i - 1
    BY <1>0, <2>2, MaxIs
  <2> QED
    BY <2>2, <2>3 DEF ChannelAt
<1>4. ASSUME ~Counts(fr, i), ~Waits(fr, i) PROVE ChannelAt(fr, i + 1, b) = ChannelAt(fr, i, b)
  <2>1. I = Ids(fr, i)
    BY <1>0, <1>4
  <2> QED
    BY <2>1 DEF ChannelAt
<1> QED
  BY <1>1, <1>2, <1>3, <1>4

LEMMA ChannelFirst ==
  ASSUME NEW fr, NEW b
  PROVE  ChannelAt(fr, 0, b) = b /\ ~Waits(fr, 0)
<1>1. Ids(fr, 0) = {}
  BY DEF Ids
<1>2. ~(0 % 2 = 1)
  BY Halves
<1> QED
  BY <1>1, <1>2 DEF ChannelAt, Waits

-----------------------------------------------------------------------------
LEMMA DemuxStarts == DemuxInit => DemuxInv
<1> SUFFICES ASSUME DemuxInit PROVE DemuxInv
  OBVIOUS
<1>1. RegistersOK
  BY DemuxConstants DEF DemuxInit, RegistersOK
<1>2. TrackInv
  BY <1>1 DEF DemuxInit, TrackInv
<1>3. PacketInv
  BY DemuxConstants DEF DemuxInit, PacketInv
<1> QED
  BY <1>1, <1>2, <1>3, DemuxConstants DEF DemuxInit, DemuxInv

\* What the Packetizer is offered has a channel.
LEMMA PkInOK ==
  ASSUME DemuxInv, NEW in \in DemuxInputs
  PROVE  PkIn(in).valid \in BOOLEAN /\ (PkIn(in).valid => PkIn(in).channel \in Nat)
         /\ in.ready \in BOOLEAN /\ in.bypass \in BOOLEAN /\ in.load \in TpiuFrames \cup {<< >>}
<1>1. in.ready \in BOOLEAN /\ in.bypass \in BOOLEAN /\ in.load \in TpiuFrames \cup {<< >>}
  BY DemuxConstants DEF DemuxInputs
<1>2. ts.channel \in Nat
  BY DEF DemuxInv, RegistersOK
<1> QED
  BY <1>1, <1>2 DEF PkIn, StripValid, TrackValid

\* The packets.
LEMMA PacketKeeps ==
  ASSUME DemuxInv, NEW in \in DemuxInputs, PacketizerStep(in), HistoryStep(in)
  PROVE  /\ PacketInv'
         /\ pk'.state \in {"HEADER", "DATA", "END"}
         /\ pk'.byte_cnt \in 0 .. max_size - 1
         /\ pk'.timeout_cnt \in 0 .. Timeout
<1> DEFINE V == PkIn(in).valid
           C == PkIn(in).channel
           D == PkIn(in).data
           S == StartNewPacket(in)
           sent == PkOut(in).valid /\ in.ready
<1>0. pk.state \in {"HEADER", "DATA", "END"} /\ pk.byte_cnt \in 0 .. max_size - 1
      /\ pk.timeout_cnt \in 0 .. Timeout /\ PacketInv
  BY DEF DemuxInv, RegistersOK
<1>1. V \in BOOLEAN /\ (V => C \in Nat) /\ in.ready \in BOOLEAN /\ S \in BOOLEAN
  BY PkInOK DEF StartNewPacket
<1>2. pk'.timeout_cnt \in 0 .. Timeout
  BY <1>0, DemuxConstants DEF PacketizerStep, CountDown
<1>3. CASE pk.state = "HEADER" /\ ~(in.ready /\ V)
  <2>1. ~PkTakes(in) /\ ~sent
    BY <1>3, <1>1 DEF PkTakes, PkReady, PkOut
  <2>2. pk'.state = "HEADER" /\ pk'.byte_cnt = pk.byte_cnt /\ rx' = rx
    BY <1>3, <2>1 DEF PacketizerStep, HistoryStep
  <2>3. owed' = << >>
    BY <1>0, <1>3, <2>1 DEF HistoryStep, PacketInv
  <2> QED
    BY <1>0, <1>2, <1>3, <2>2, <2>3 DEF PacketInv
<1>4. CASE pk.state = "HEADER" /\ in.ready /\ V
  <2>1. PkTakes(in) /\ sent /\ PkOut(in).data = C /\ C \in Nat
    BY <1>4, <1>1 DEF PkTakes, PkReady, PkOut
  <2>2. pk'.state = "DATA" /\ pk'.byte_cnt = 0 /\ pk'.channel = C /\ pk'.data = D
    BY <1>4, <2>1 DEF PacketizerStep
  <2>3. rx.channel = None /\ owed = << >> /\ rx = [channel |-> rx.channel, size |-> rx.size, good |-> TRUE]
    BY <1>0, <1>4 DEF PacketInv
  <2>a. rx' = [rx EXCEPT !.channel = C, !.size = 0]
    BY <2>1, <2>3 DEF HistoryStep
  <2>4. rx' = [channel |-> C, size |-> 0, good |-> TRUE]
    <3>1. DOMAIN rx = {"channel", "size", "good"} /\ rx.good = TRUE
      BY <2>3
    <3>2. DOMAIN rx' = {"channel", "size", "good"} /\ rx'.channel = C /\ rx'.size = 0 /\ rx'.good = TRUE
      BY <2>a, <3>1
    <3>3. rx' = [x \in {"channel", "size", "good"} |-> rx'[x]]
      BY <2>a, <3>1
    <3> HIDE DEF V, C, D, S, sent
    <3> QED
      BY <3>2, <3>3
  <2>5. owed' = <<[channel |-> C, data |-> D]>>
    BY <2>1, <2>3 DEF HistoryStep
  <2> QED
    BY <1>2, <2>1, <2>2, <2>4, <2>5, DemuxConstants DEF PacketInv, None
<1>5. CASE pk.state = "DATA" /\ (S \/ ~(in.ready /\ V))
  <2>1. ~PkTakes(in) /\ ~sent
    BY <1>5, <1>1 DEF PkTakes, PkReady, PkOut
  <2>2. pk'.state \in {"DATA", "END"} /\ pk'.byte_cnt = pk.byte_cnt /\ rx' = rx
        /\ pk'.channel = pk.channel /\ pk'.data = pk.data
    BY <1>5, <2>1 DEF PacketizerStep, HistoryStep
  <2>3. owed' = owed \o << >>
    BY <2>1 DEF HistoryStep
  <2>4. owed = <<[channel |-> pk.channel, data |-> pk.data]>>
    BY <1>0, <1>5 DEF PacketInv
  <2>5. owed' = owed
    BY <2>3, <2>4
  <2> QED
    BY <1>0, <1>2, <1>5, <2>2, <2>5 DEF PacketInv
<1>6. CASE pk.state = "DATA" /\ ~S /\ in.ready /\ V
  <2>1. PkTakes(in) /\ sent /\ PkOut(in).data = pk.data /\ PkOut(in).last = FALSE
    BY <1>6, <1>1 DEF PkTakes, PkReady, PkOut
  <2>2. C = pk.channel /\ pk.byte_cnt < max_size - 1
    BY <1>0, <1>6, DemuxConstants DEF StartNewPacket
  <2>3. owed = <<[channel |-> pk.channel, data |-> pk.data]>> /\ rx.channel = pk.channel
        /\ rx.channel # None /\ rx.size = pk.byte_cnt
        /\ rx = [channel |-> rx.channel, size |-> rx.size, good |-> TRUE]
    BY <1>0, <1>6 DEF PacketInv
  <2>4. (pk.byte_cnt + 1) % max_size = pk.byte_cnt + 1
    <3>1. pk.byte_cnt + 1 \in Int /\ 0 <= pk.byte_cnt + 1 /\ pk.byte_cnt + 1 < max_size
      BY <1>0, <2>2, DemuxConstants
    <3> QED
      BY <3>1, DemuxConstants, ModNear
  <2>5. pk'.state = "DATA" /\ pk'.byte_cnt = pk.byte_cnt + 1 /\ pk'.channel = pk.channel /\ pk'.data = D
    BY <1>6, <2>1, <2>4 DEF PacketizerStep
  <2>6. rx' = [channel |-> rx.channel, size |-> rx.size + 1, good |-> TRUE]
    <3>1. Head(owed) = [channel |-> rx.channel, data |-> PkOut(in).data] /\ owed # << >>
      BY <2>1, <2>3
    <3>2. rx.good = TRUE
      BY <2>3
    <3> QED
      BY <2>1, <2>3, <3>1, <3>2 DEF HistoryStep
  <2>7. owed' = <<[channel |-> C, data |-> D]>>
    <3>1. owed # << >> /\ Tail(owed) = << >>
      BY <2>3
    <3>2. owed' = << >> \o <<[channel |-> C, data |-> D]>>
      BY <2>1, <2>3, <3>1 DEF HistoryStep
    <3> QED
      BY <3>2
  <2> QED
    BY <1>0, <1>2, <2>2, <2>3, <2>5, <2>6, <2>7, DemuxConstants DEF PacketInv
<1>7. CASE pk.state = "END"
  <2>1. ~PkTakes(in) /\ PkOut(in).valid /\ PkOut(in).data = pk.data /\ PkOut(in).last = TRUE
    BY <1>7 DEF PkTakes, PkReady, PkOut
  <2>2. owed = <<[channel |-> pk.channel, data |-> pk.data]>> /\ rx.channel = pk.channel
        /\ rx.channel # None /\ rx.size = pk.byte_cnt
        /\ rx = [channel |-> rx.channel, size |-> rx.size, good |-> TRUE]
    BY <1>0, <1>7 DEF PacketInv
  <2>3. pk'.byte_cnt = pk.byte_cnt /\ pk'.channel = pk.channel /\ pk'.data = pk.data
        /\ pk'.state = IF in.ready THEN "HEADER" ELSE "END"
    BY <1>7, <2>1 DEF PacketizerStep
  <2>4. CASE in.ready
    <3>1. rx' = [channel |-> None, size |-> rx.size + 1, good |-> TRUE]
      <4>1. Head(owed) = [channel |-> rx.channel, data |-> PkOut(in).data] /\ owed # << >>
        BY <2>1, <2>2
      <4>2. rx.good = TRUE
        BY <2>2
      <4> QED
        BY <2>1, <2>2, <2>4, <4>1, <4>2 DEF HistoryStep
    <3>2. Tail(owed) = << >> /\ owed # << >>
      BY <2>2
    <3>3. owed' = << >> \o << >>
      BY <2>1, <2>2, <2>4, <3>2 DEF HistoryStep
    <3> QED
      BY <1>0, <1>2, <2>2, <2>3, <2>4, <3>1, <3>3, DemuxConstants DEF PacketInv
  <2>5. CASE ~in.ready
    <3>1. rx' = rx /\ owed' = owed \o << >>
      BY <2>1, <2>5 DEF HistoryStep
    <3>2. owed' = owed
      BY <3>1, <2>2
    <3> QED
      BY <1>0, <1>2, <1>7, <2>3, <2>5, <3>1, <3>2 DEF PacketInv
  <2> QED
    BY <1>1, <2>4, <2>5
<1> QED
  BY <1>0, <1>1, <1>3, <1>4, <1>5, <1>6, <1>7

-----------------------------------------------------------------------------
\* The channel: TrackStream, before and after the byte at idx is taken.
LEMMA TrackKeeps ==
  ASSUME DemuxInv, frame # << >>, NEW in, TrackStep(in), ByteTaken(in) \in BOOLEAN
  PROVE  LET P(i) == /\ ts'.channel = ChannelAt(frame, i, expect.before)
                     /\ ts'.next_valid <=> Waits(frame, i)
                     /\ ts'.next_valid => ts'.next = frame.bytes[i - 1] \div 2
             id == Unmangled(idx).is_id
         IN  /\ IF ByteTaken(in) THEN P(idx + 1) ELSE P(idx) \/ (id /\ P(idx + 1))
             /\ ~id => TrackedTo(idx)
             /\ ts' = [channel |-> ts'.channel, next |-> ts'.next, next_valid |-> ts'.next_valid]
             /\ ts'.next_valid \in BOOLEAN /\ ts'.channel \in Nat /\ ts'.next \in Nat
<1> DEFINE b == frame.bytes[idx]
           a == frame.aux[idx \div 2]
           id == Unmangled(idx).is_id
           data == Unmangled(idx).data
           P(i) == /\ ts'.channel = ChannelAt(frame, i, expect.before)
                   /\ ts'.next_valid <=> Waits(frame, i)
                   /\ ts'.next_valid => ts'.next = frame.bytes[i - 1] \div 2
           Typed == /\ ts' = [channel |-> ts'.channel, next |-> ts'.next, next_valid |-> ts'.next_valid]
                    /\ ts'.next_valid \in BOOLEAN /\ ts'.channel \in Nat /\ ts'.next \in Nat
<1>0. /\ idx \in 0 .. FrameLen - 1 /\ frame \in TpiuFrames
      /\ TrackedTo(idx) \/ (id /\ TrackedTo(idx + 1))
      /\ ts = [channel |-> ts.channel, next |-> ts.next, next_valid |-> ts.next_valid]
      /\ ts.next_valid \in BOOLEAN /\ ts.channel \in Nat /\ ts.next \in Nat
  BY DEF DemuxInv, RegistersOK, TrackInv
<1>1. b \in Nat /\ b \div 2 \in Nat /\ (idx % 2 = 0 => a \in {0, 1})
  BY <1>0, FrameFacts
<1>2. /\ Counts(frame, idx) => ChannelAt(frame, idx + 1, expect.before) = b \div 2
      /\ Waits(frame, idx) => ChannelAt(frame, idx + 1, expect.before) = frame.bytes[idx - 1] \div 2
      /\ ~Counts(frame, idx) /\ ~Waits(frame, idx) =>
           ChannelAt(frame, idx + 1, expect.before) = ChannelAt(frame, idx, expect.before)
  BY <1>0, ChannelNext
<1>3. idx \in Nat /\ idx % 2 \in {0, 1} /\ (idx + 1) % 2 = 1 - (idx % 2) /\ (idx + 1) - 1 = idx
  <2>1. idx \in Nat /\ (idx + 1) - 1 = idx
    BY <1>0, DemuxConstants
  <2> QED
    BY <2>1, Halves
<1>4. id \in BOOLEAN /\ (id <=> idx % 2 = 0 /\ IsIdByte(b))
  BY DEF Unmangled, IsIdByte
<1>5. Waits(frame, idx + 1) <=> id /\ a = 1
  BY <1>3, <1>4 DEF Waits
<1>6. CASE id
  <2>1. idx % 2 = 0 /\ IsIdByte(b) /\ ~Waits(frame, idx) /\ a \in {0, 1}
    BY <1>1, <1>4, <1>6 DEF Waits
  <2>2. data = 2 * (b \div 2) + a
    BY <2>1 DEF Unmangled
  <2>3. /\ data % 2 = a /\ data \div 2 = b \div 2
    <3>1. b \div 2 \in Nat
      BY <1>1
    <3>2. \A n \in Nat, r \in {0, 1} : (2 * n + r) % 2 = r /\ (2 * n + r) \div 2 = n
      OBVIOUS
    <3> QED
      BY <2>1, <2>2, <3>1, <3>2
  <2>4. CASE a = 1
    <3>1. ts' = [channel |-> ts.channel, next |-> b \div 2, next_valid |-> TRUE]
      <4>1. ts' = [ts EXCEPT !.next = b \div 2, !.next_valid = TRUE]
        BY <1>6, <2>3, <2>4 DEF TrackStep
      <4> QED
        BY <4>1, <1>0
    <3>2. ~Counts(frame, idx)
      BY <2>4 DEF Counts
    <3>3. ts.channel = ChannelAt(frame, idx + 1, expect.before)
      BY <1>0, <1>2, <2>1, <3>2 DEF TrackedTo
    <3>4. P(idx + 1)
      BY <1>3, <1>5, <1>6, <2>4, <3>1, <3>3
    <3>5. Typed
      BY <1>0, <1>1, <3>1
    <3> QED
      BY <1>6, <3>4, <3>5
  <2>5. CASE a = 0
    <3>1. ts' = [channel |-> b \div 2, next |-> ts.next, next_valid |-> ts.next_valid]
      <4>1. ts' = [ts EXCEPT !.channel = b \div 2]
        BY <1>6, <2>3, <2>5 DEF TrackStep
      <4> QED
        BY <4>1, <1>0
    <3>2. Counts(frame, idx)
      BY <2>1, <2>5 DEF Counts
    <3>3. ~ts.next_valid
      BY <1>0, <1>5, <2>1, <2>5 DEF TrackedTo
    <3>4. P(idx + 1)
      BY <1>2, <1>5, <2>5, <3>1, <3>2, <3>3
    <3>5. Typed
      BY <1>0, <1>1, <3>1
    <3> QED
      BY <1>6, <3>4, <3>5
  <2> QED
    BY <2>1, <2>4, <2>5
<1>7. CASE ~id
  <2>1. TrackedTo(idx) /\ ~Counts(frame, idx) /\ ~Waits(frame, idx + 1)
    BY <1>0, <1>4, <1>5, <1>7 DEF Counts
  <2>2. CASE ByteTaken(in) /\ ts.next_valid
    <3>1. ts' = [channel |-> ts.next, next |-> ts.next, next_valid |-> FALSE]
      <4>1. ts' = [ts EXCEPT !.channel = ts.next, !.next_valid = FALSE]
        BY <1>7, <2>2 DEF TrackStep
      <4> QED
        BY <4>1, <1>0
    <3>2. P(idx + 1)
      BY <1>2, <2>1, <2>2, <3>1 DEF TrackedTo
    <3> QED
      BY <1>0, <2>1, <2>2, <3>1, <3>2
  <2>3. CASE ~(ByteTaken(in) /\ ts.next_valid)
    <3>1. ts' = ts
      BY <1>7, <2>3 DEF TrackStep
    <3>2. P(idx)
      BY <2>1, <3>1 DEF TrackedTo
    <3>3. ByteTaken(in) => P(idx + 1)
      BY <1>2, <2>1, <2>3, <3>1 DEF TrackedTo
    <3> QED
      BY <1>0, <2>1, <3>1, <3>2, <3>3
  <2> QED
    BY <2>2, <2>3
<1> QED
  BY <1>4, <1>6, <1>7

\* The byte that the Packetizer takes of the frame is the next that the frame has to yield.
LEMMA YieldKeeps ==
  ASSUME DemuxInv, frame # << >>, NEW in \in DemuxInputs, ~Unmangled(idx).is_id => TrackedTo(idx)
  PROVE  LET takes == PkTakes(in) /\ ~bypass
             first == Min(expect.left)
             rest  == IF takes /\ expect.left # {} THEN expect.left \ {first} ELSE expect.left
         IN  /\ takes => /\ expect.left # {}
                         /\ Yield(frame, first, expect.before) =
                              [channel |-> PkIn(in).channel, data |-> PkIn(in).data]
             /\ rest = {p \in Yields(frame, expect.before) :
                          p >= IF ByteTaken(in) THEN idx + 1 ELSE idx}
<1> DEFINE takes == PkTakes(in) /\ ~bypass
           first == Min(expect.left)
           rest  == IF takes /\ expect.left # {} THEN expect.left \ {first} ELSE expect.left
           Y == Yields(frame, expect.before)
           id == Unmangled(idx).is_id
<1>0. /\ idx \in 0 .. FrameLen - 1 /\ frame \in TpiuFrames /\ bypass \in BOOLEAN
      /\ expect.left = {p \in Y : p >= idx} /\ Y \subseteq 0 .. FrameLen - 1
  BY DEF DemuxInv, RegistersOK, TrackInv, Yields
<1>1. id <=> idx % 2 = 0 /\ IsIdByte(frame.bytes[idx])
  BY DEF Unmangled, IsIdByte
<1>2. idx \in Y <=> ~id /\ ts.channel # 0
  BY <1>0, <1>1 DEF Yields, TrackedTo
<1>3. CASE takes
  <2>1. ~id /\ ts.channel # 0 /\ PkIn(in).channel = ts.channel /\ PkIn(in).data = Unmangled(idx).data
        /\ ByteTaken(in)
    BY <1>3 DEF PkTakes, PkIn, StripValid, TrackValid, ByteTaken
  <2>2. idx \in expect.left
    BY <1>0, <1>2, <2>1
  <2>3. first = idx
    <3>1. \A x \in expect.left : idx <= x /\ x \in Nat
      BY <1>0
    <3> QED
      BY <2>2, <3>1, MinIs
  <2>4. Yield(frame, idx, expect.before).data = Unmangled(idx).data
    <3>1. CASE idx % 2 = 0
      <4>1. frame.bytes[idx] \in Nat /\ frame.bytes[idx] % 2 # 1
        BY <1>0, <1>1, <2>1, <3>1, FrameFacts DEF IsIdByte
      <4>2. frame.bytes[idx] = 2 * (frame.bytes[idx] \div 2)
        BY <4>1, Halves
      <4> QED
        BY <3>1, <4>2 DEF Yield, Unmangled
    <3>2. CASE idx % 2 # 0
      BY <3>2 DEF Yield, Unmangled
    <3> QED
      BY <3>1, <3>2
  <2>5. Yield(frame, idx, expect.before) = [channel |-> PkIn(in).channel, data |-> PkIn(in).data]
    BY <2>1, <2>4 DEF Yield, TrackedTo
  <2>6. rest = {p \in Y : p >= idx + 1}
    <3>1. rest = expect.left \ {idx}
      BY <1>3, <2>2, <2>3
    <3>2. \A p \in Y : p >= idx + 1 <=> p >= idx /\ p # idx
      BY <1>0, DemuxConstants
    <3> HIDE DEF rest, Y
    <3> QED
      BY <1>0, <3>1, <3>2
  <2> QED
    BY <1>3, <2>1, <2>2, <2>3, <2>5, <2>6
<1>4. CASE ~takes
  <2>1. CASE ByteTaken(in)
    <3>1. ~bypass /\ ~PkIn(in).valid
      BY <1>4, <2>1 DEF ByteTaken, PkTakes
    <3>2. id \/ ts.channel = 0
      BY <3>1 DEF PkIn, StripValid, TrackValid
    <3>3. idx \notin Y
      BY <1>2, <3>2
    <3>4. expect.left = {p \in Y : p >= idx + 1}
      BY <1>0, <3>3
    <3> QED
      BY <1>4, <2>1, <3>4
  <2>2. CASE ~ByteTaken(in)
    BY <1>0, <1>4, <2>2
  <2> QED
    BY <2>1, <2>2
<1> QED
  BY <1>3, <1>4

LEMMA DemuxStepInv == DemuxInv /\ [DemuxNext]_demuxVars => DemuxInv'
<1> SUFFICES ASSUME DemuxInv, [DemuxNext]_demuxVars PROVE DemuxInv'
  OBVIOUS
<1>1. CASE UNCHANGED demuxVars
  BY <1>1 DEF demuxVars, DemuxInv, RegistersOK, TrackInv, TrackedTo, PacketInv, Unmangled, IsIdByte
<1>2. ASSUME NEW in \in DemuxInputs, DemuxClock(in) PROVE DemuxInv'
  <2>0. FrameStep(in) /\ SerializerStep(in) /\ TrackStep(in) /\ PacketizerStep(in) /\ HistoryStep(in)
    BY <1>2 DEF DemuxClock
  <2>1. PacketInv' /\ pk'.state \in {"HEADER", "DATA", "END"}
        /\ pk'.byte_cnt \in 0 .. max_size - 1 /\ pk'.timeout_cnt \in 0 .. Timeout
    BY <1>2, <2>0, PacketKeeps
  <2>2. in.ready \in BOOLEAN /\ in.bypass \in BOOLEAN /\ in.load \in TpiuFrames \cup {<< >>}
    BY PkInOK
  <2>3. RegistersOK /\ TrackInv /\ expect.good = TRUE /\ bypass \in BOOLEAN
    BY DEF DemuxInv
  <2>4. bypass' \in BOOLEAN
    BY <2>0, <2>2 DEF FrameStep
  <2> DEFINE done == ByteTaken(in) /\ idx = FrameLen - 1
             load == (frame = << >> \/ done) /\ in.load # << >>
             takes == PkTakes(in) /\ ~bypass
             rest == IF takes /\ expect.left # {} THEN expect.left \ {Min(expect.left)} ELSE expect.left
             before == IF done THEN ChannelAt(frame, FrameLen, expect.before) ELSE expect.before
  <2>5. /\ frame' = IF load THEN in.load ELSE IF done THEN << >> ELSE frame
        /\ expect'.before = before
        /\ expect'.left = IF load THEN Yields(in.load, before) ELSE rest
    BY <2>0 DEF FrameStep
  <2>6. expect'.good = (/\ expect.good
                        /\ takes => /\ expect.left # {}
                                    /\ Yield(frame, Min(expect.left), expect.before) =
                                         [channel |-> PkIn(in).channel, data |-> PkIn(in).data]
                        /\ done => rest = {})
    BY <2>0 DEF FrameStep
  \* A frame that is shown begins at its first byte.
  <2>7. ASSUME load, idx' = 0, ts'.channel = before, ~ts'.next_valid
        PROVE  TrackInv'
    <3>1. frame' = in.load /\ frame' \in TpiuFrames /\ frame' # << >>
      BY <2>2, <2>5, <2>7, DemuxConstants
    <3>2. TrackedTo(0)'
      BY <2>5, <2>7, ChannelFirst DEF TrackedTo
    <3>3. expect'.left = {p \in Yields(frame', before) : p >= 0}
      <4>1. Yields(frame', before) \subseteq Nat
        BY DEF Yields
      <4>2. expect'.left = Yields(frame', before)
        BY <2>5, <2>7, <3>1
      <4> QED
        BY <4>1, <4>2
    <3> QED
      BY <2>5, <2>7, <3>1, <3>2, <3>3 DEF TrackInv
  <2>8. CASE frame = << >>
    <3>1. ~ByteTaken(in) /\ idx = 0 /\ ts.channel = expect.before /\ ~ts.next_valid /\ expect.left = {}
      BY <2>3, <2>8 DEF TrackInv, ByteTaken
    <3>2. idx' = 0 /\ ts' = ts
      BY <2>0, <2>8, <3>1 DEF SerializerStep, TrackStep
    <3>3. ~takes
      BY <2>3, <2>8 DEF PkTakes, PkIn, StripValid, TrackValid
    <3>4. RegistersOK' /\ expect'.good = TRUE
      BY <2>1, <2>3, <2>6, <3>1, <3>2, <3>3, DemuxConstants DEF RegistersOK
    <3>5. before = expect.before /\ rest = {}
      BY <3>1, <3>3
    <3>6. CASE load
      BY <2>1, <2>4, <2>7, <3>1, <3>2, <3>4, <3>5, <3>6 DEF DemuxInv
    <3>7. CASE ~load
      <4>1. frame' = << >> /\ expect'.before = expect.before /\ expect'.left = {}
        BY <2>5, <2>8, <3>1, <3>5, <3>7
      <4> QED
        BY <2>1, <2>4, <3>1, <3>2, <3>4, <4>1 DEF DemuxInv, TrackInv
    <3> QED
      BY <3>6, <3>7
  <2>9. CASE frame # << >>
    <3> DEFINE id == Unmangled(idx).is_id
               P(i) == /\ ts'.channel = ChannelAt(frame, i, expect.before)
                       /\ ts'.next_valid <=> Waits(frame, i)
                       /\ ts'.next_valid => ts'.next = frame.bytes[i - 1] \div 2
    <3>0. ByteTaken(in) \in BOOLEAN
      BY DEF ByteTaken
    <3>1. /\ IF ByteTaken(in) THEN P(idx + 1) ELSE P(idx) \/ (id /\ P(idx + 1))
          /\ ~id => TrackedTo(idx)
          /\ ts' = [channel |-> ts'.channel, next |-> ts'.next, next_valid |-> ts'.next_valid]
          /\ ts'.next_valid \in BOOLEAN /\ ts'.channel \in Nat /\ ts'.next \in Nat
      BY <2>0, <2>9, <3>0, TrackKeeps
    <3>2. /\ takes => /\ expect.left # {}
                      /\ Yield(frame, Min(expect.left), expect.before) =
                           [channel |-> PkIn(in).channel, data |-> PkIn(in).data]
          /\ rest = {p \in Yields(frame, expect.before) :
                       p >= IF ByteTaken(in) THEN idx + 1 ELSE idx}
      BY <2>9, <3>1, YieldKeeps
    <3>3. idx \in 0 .. FrameLen - 1 /\ frame \in TpiuFrames
      BY <2>3, <2>9 DEF RegistersOK, TrackInv
    <3>4. done => rest = {}
      BY <3>2, <3>3, DemuxConstants DEF Yields
    <3>5. expect'.good = TRUE
      BY <2>3, <2>6, <3>2, <3>4
    <3>6. idx' = IF ~ByteTaken(in) THEN idx ELSE IF idx = FrameLen - 1 THEN 0 ELSE idx + 1
      <4>1. (idx + 1) % FrameLen = IF idx = FrameLen - 1 THEN 0 ELSE idx + 1
        BY <3>3, DemuxConstants, ModNext
      <4> QED
        BY <2>0, <4>1 DEF SerializerStep
    <3>7. RegistersOK'
      <4>1. idx' \in 0 .. FrameLen - 1
        BY <3>3, <3>6, DemuxConstants
      <4> QED
        BY <2>1, <3>1, <4>1 DEF RegistersOK
    <3>8. CASE done
      <4>1. idx + 1 = FrameLen /\ idx' = 0 /\ P(FrameLen)
        <5>1. idx + 1 = FrameLen /\ idx' = 0 /\ P(idx + 1)
          BY <3>1, <3>3, <3>6, <3>8, DemuxConstants
        <5> HIDE DEF P
        <5> QED
          BY <5>1
      <4>2. ~Waits(frame, FrameLen)
        <5>1. IsIdByte(frame.bytes[idx]) => frame.aux[idx \div 2] = 0
          BY <3>3, <3>8, FrameFacts
        <5>2. FrameLen - 1 = idx
          BY <3>8
        <5> QED
          BY <5>1, <5>2 DEF Waits
      <4>3. ts'.channel = before /\ ~ts'.next_valid
        BY <3>8, <4>1, <4>2
      <4>4. CASE load
        BY <2>1, <2>4, <2>7, <3>5, <3>7, <4>1, <4>3, <4>4 DEF DemuxInv
      <4>5. CASE ~load
        <5>1. frame' = << >> /\ expect'.before = before /\ expect'.left = {}
          BY <2>5, <3>4, <3>8, <4>5
        <5> QED
          BY <2>1, <2>4, <3>5, <3>7, <4>1, <4>3, <5>1 DEF DemuxInv, TrackInv
      <4> QED
        BY <4>4, <4>5
    <3>9. CASE ~done
      <4>1. frame' = frame /\ expect'.before = expect.before /\ expect'.left = rest
        BY <2>5, <2>9, <3>9
      <4>2. idx' = IF ByteTaken(in) THEN idx + 1 ELSE idx
        BY <3>6, <3>9
      <4>3. expect'.left = {p \in Yields(frame', expect'.before) : p >= idx'}
        BY <3>2, <4>1, <4>2
      <4>4. TrackedTo(idx)' \/ (Unmangled(idx)'.is_id /\ TrackedTo(idx + 1)')
        <5>1. CASE ByteTaken(in)
          BY <3>1, <4>1, <4>2, <5>1 DEF TrackedTo
        <5>2. CASE ~ByteTaken(in)
          <6>1. idx' = idx /\ Unmangled(idx)' = Unmangled(idx)
            BY <4>1, <4>2, <5>2 DEF Unmangled
          <6> QED
            BY <3>1, <4>1, <6>1, <5>2 DEF TrackedTo
        <5> QED
          BY <5>1, <5>2
      <4> QED
        BY <2>1, <2>4, <2>9, <3>3, <3>5, <3>7, <4>1, <4>3, <4>4 DEF DemuxInv, TrackInv
    <3> QED
      BY <3>8, <3>9
  <2> QED
    BY <2>8, <2>9
<1> QED
  BY <1>1, <1>2 DEF DemuxNext

\* Every byte of a frame comes out of the demultiplexer under the channel that the trace
\* port gave it, once, in order and in a packet of that channel no longer than the limit,
\* for any frames, any length of a packet and of the timeout, however long any block waits
\* and whenever the bypass is switched.
THEOREM DemuxIsRight == DemuxSpec => []DemuxRight
<1>1. DemuxInit => DemuxInv
  BY DemuxStarts
<1>2. DemuxInv /\ [DemuxNext]_demuxVars => DemuxInv'
  BY DemuxStepInv
<1>3. DemuxInv => DemuxRight
  <2> SUFFICES ASSUME DemuxInv PROVE DemuxRight
    OBVIOUS
  <2>1. RegistersOK /\ PacketInv /\ expect.good
    BY DEF DemuxInv
  <2>2. rx.good /\ rx.size <= max_size /\ Len(owed) <= 1
    <3>1. rx.good = TRUE /\ rx.size <= max_size
      BY <2>1, DemuxConstants DEF PacketInv
    <3>2. owed = << >> \/ owed = <<[channel |-> pk.channel, data |-> pk.data]>>
      BY <2>1 DEF PacketInv
    <3> QED
      BY <3>1, <3>2
  <2> QED
    BY <2>1, <2>2 DEF DemuxRight, DemuxTypeOK, RegistersOK, ChannelsRight, PacketsRight, PacketBounded
<1> QED
  BY <1>1, <1>2, <1>3, PTL DEF DemuxSpec

-----------------------------------------------------------------------------
\* A group that is on its way: how many of its bytes, and what a decoder adds
\* when the next code byte, or the delimiter, comes.
Group == [n : Nat, glue : Seq(Int)]

Size(group) == group.n
Glue(group) == group.glue
Wide(group) == Len(group.glue)

\* n values of s from a on are those of t from b on.
Copied(s, a, t, b, n) == \A i \in 1 .. n : s[a + i] = t[b + i]

\* Where the L groups begin: in the decoded packets, and in the FIFO of data.
Places(pos, off, G, L, p0, o0) ==
  /\ pos[0] = p0 /\ off[0] = o0
  /\ \A k \in 0 .. L : pos[k] \in Nat /\ off[k] \in Nat
  /\ \A k \in 1 .. L : /\ pos[k] = pos[k - 1] + Size(G[k]) + Wide(G[k])
                       /\ off[k] = off[k - 1] + Size(G[k])
  /\ \A j, k \in 0 .. L : j <= k => pos[j] <= pos[k] /\ off[j] <= off[k]

\* The p values P have, from the groups' first place on, the bytes of each group
\* and its glue, the cnt bytes of the group that is open, and then the m values
\* that close the packet; the bytes are the d values D.
Covers(pos, off, P, p, D, d, G, L, cnt, close, m) ==
  /\ d = off[L] + cnt
  /\ p = pos[L] + cnt + m
  /\ \A k \in 1 .. L : /\ Copied(P, pos[k - 1], D, off[k - 1], Size(G[k]))
                       /\ Copied(P, pos[k - 1] + Size(G[k]), Glue(G[k]), 0, Wide(G[k]))
  /\ Copied(P, pos[L], D, off[L], cnt)
  /\ Copied(P, pos[L] + cnt, close, 0, m)

Lies(pos, off, P, p, D, d, G, L, p0, o0, cnt, close, m) ==
  Places(pos, off, G, L, p0, o0) /\ Covers(pos, off, P, p, D, d, G, L, cnt, close, m)

Laid(P, D, G, p0, o0, cnt, close) ==
  \E pos, off : Lies(pos, off, P, Len(P), D, Len(D), G, Len(G), p0, o0, cnt, close, Len(close))

\* Q is what is left of the p values P without the first g.
Left(Q, P, p, g) == \A i \in 1 .. p - g : Q[i] = P[i + g]

\* Place b is n behind place a.
Further(a, b, n) == b = a + n

\* Every place lies n lower.
Lower(f, g, L, n) == \A k \in 0 .. L : f[k] = g[k] - n

\* H has the groups of G, but for the first.
Behind(H, G, L) == \A k \in 2 .. L : H[k] = G[k]

\* The first of them is a byte shorter, or has no glue any more.
LessByte(H, G) ==
  /\ Size(H[1]) \in Nat /\ Size(G[1]) = Size(H[1]) + 1
  /\ Glue(H[1]) = Glue(G[1]) /\ Wide(H[1]) = Wide(G[1])

LessGlue(H, G, w) == Size(G[1]) = 0 /\ Size(H[1]) = 0 /\ Wide(G[1]) = w /\ Wide(H[1]) = 0

\* So have their places.
Stay(f, g, L) == \A k \in 1 .. L : f[k] = g[k]

\* The places are one group further on; or those up to L stay.
MovedUp(f, g, L) == \A k \in 0 .. L : f[k] = g[k + 1]

StayTo(f, g, L) == \A k \in 0 .. L : f[k] = g[k]

\* Group K of H has cnt bytes, and the w values of glue that close begins with.
Ends(H, K, cnt, w, close) == Size(H[K]) = cnt /\ Wide(H[K]) = w /\ Copied(close, 0, Glue(H[K]), 0, w)

\* The last of the d values E is what close begins with.
Gets(E, d, close) == E[d] = close[1]

Sized(G, L) == \A k \in 1 .. L : Size(G[k]) \in Nat /\ Wide(G[k]) \in Nat

-----------------------------------------------------------------------------
\* What was copied is still there when both ends have moved.
LEMMA CopiedMoves ==
  ASSUME NEW s, NEW t, NEW u, NEW v, NEW a \in Int, NEW b \in Int, NEW c \in Int, NEW d \in Int,
         NEW n \in Nat, Copied(s, a, t, b, n), Copied(u, c, s, a, n), Copied(v, d, t, b, n)
  PROVE  Copied(u, c, v, d, n)
  BY DEF Copied

LEMMA GroupFields ==
  ASSUME NEW G \in Seq(Group)
  PROVE  Len(G) \in Nat /\ Sized(G, Len(G))
<1>1. ASSUME NEW k \in 1 .. Len(G) PROVE G[k] \in Group
  OBVIOUS
<1>2. ASSUME NEW g \in Group PROVE Size(g) \in Nat /\ Wide(g) \in Nat
  BY DEF Group, Size, Wide
<1> QED
  BY <1>1, <1>2 DEF Sized

\* Each group, and the group that is open, lies within what was laid out.
Within(pos, off, G, L, p0, o0) ==
  /\ pos[L] \in Nat /\ off[L] \in Nat /\ p0 <= pos[L] /\ o0 <= off[L]
  /\ \A k \in 1 .. L :
       /\ pos[k - 1] \in Nat /\ off[k - 1] \in Nat /\ Size(G[k]) \in Nat /\ Wide(G[k]) \in Nat
       /\ p0 <= pos[k - 1] /\ o0 <= off[k - 1]
       /\ pos[k - 1] + Size(G[k]) + Wide(G[k]) <= pos[L]
       /\ off[k - 1] + Size(G[k]) <= off[L]

LEMMA PlacesWithin ==
  ASSUME NEW G, NEW L \in Nat, Sized(G, L), NEW p0 \in Nat, NEW o0 \in Nat, NEW pos, NEW off,
         Places(pos, off, G, L, p0, o0)
  PROVE  Within(pos, off, G, L, p0, o0)
<1>1. pos[0] = p0 /\ off[0] = o0 /\ \A k \in 0 .. L : pos[k] \in Nat /\ off[k] \in Nat
  BY DEF Places
<1>2. \A k \in 1 .. L : pos[k] = pos[k - 1] + Size(G[k]) + Wide(G[k]) /\ off[k] = off[k - 1] + Size(G[k])
  BY DEF Places
<1>3. \A j, k \in 0 .. L : j <= k => pos[j] <= pos[k] /\ off[j] <= off[k]
  BY DEF Places
<1>4. 0 \in 0 .. L /\ L \in 0 .. L
  OBVIOUS
<1>5. pos[L] \in Nat /\ off[L] \in Nat /\ p0 <= pos[L] /\ o0 <= off[L]
  BY <1>1, <1>3, <1>4
<1>6. ASSUME NEW k \in 1 .. L
      PROVE  /\ pos[k - 1] \in Nat /\ off[k - 1] \in Nat /\ Size(G[k]) \in Nat /\ Wide(G[k]) \in Nat
             /\ p0 <= pos[k - 1] /\ o0 <= off[k - 1]
             /\ pos[k - 1] + Size(G[k]) + Wide(G[k]) <= pos[L]
             /\ off[k - 1] + Size(G[k]) <= off[L]
  <2>1. k - 1 \in 0 .. L /\ k \in 0 .. L /\ 0 <= k - 1 /\ k <= L
    OBVIOUS
  <2>2. p0 <= pos[k - 1] /\ o0 <= off[k - 1] /\ pos[k] <= pos[L] /\ off[k] <= off[L]
    BY <1>1, <1>3, <1>4, <2>1
  <2>3. pos[k - 1] \in Nat /\ off[k - 1] \in Nat
    BY <1>1, <2>1
  <2>4. Size(G[k]) \in Nat /\ Wide(G[k]) \in Nat
    BY DEF Sized
  <2>5. pos[k] = pos[k - 1] + Size(G[k]) + Wide(G[k]) /\ off[k] = off[k - 1] + Size(G[k])
    BY <1>2
  <2> QED
    BY <2>2, <2>3, <2>4, <2>5
<1> QED
  BY <1>5, <1>6 DEF Within

-----------------------------------------------------------------------------
\* Values that were received are dropped, and those that were sent.
LEMMA CopiedDown ==
  ASSUME NEW P, NEW p \in Nat, NEW Q, NEW g \in Nat, Left(Q, P, p, g),
         NEW a \in Nat, NEW n \in Nat, NEW t, NEW b \in Int, g <= a, a + n <= p, Copied(P, a, t, b, n)
  PROVE  Copied(Q, a - g, t, b, n)
<1>1. ASSUME NEW i \in 1 .. n PROVE Q[(a - g) + i] = P[a + i]
  <2>1. (a - g) + i \in 1 .. p - g /\ ((a - g) + i) + g = a + i
    OBVIOUS
  <2> QED
    BY <2>1 DEF Left
<1> QED
  BY <1>1 DEF Copied

LEMMA CopiedBack ==
  ASSUME NEW s, NEW a, NEW t, NEW b, NEW n, Copied(s, a, t, b, n)
  PROVE  Copied(t, b, s, a, n)
  BY DEF Copied

LEMMA BothDown ==
  ASSUME NEW P, NEW p \in Nat, NEW Q, NEW g \in Nat, Left(Q, P, p, g),
         NEW D, NEW d \in Nat, NEW E, NEW h \in Nat, Left(E, D, d, h),
         NEW a \in Nat, NEW b \in Nat, NEW n \in Nat, g <= a, a + n <= p, h <= b, b + n <= d,
         Copied(P, a, D, b, n)
  PROVE  Copied(Q, a - g, E, b - h, n)
<1>1. Copied(D, b, Q, a - g, n)
  <2>1. b \in Int /\ a \in Nat /\ n \in Nat /\ g <= a /\ a + n <= p
    OBVIOUS
  <2>2. Copied(Q, a - g, D, b, n)
    BY <2>1, CopiedDown
  <2> QED
    BY <2>2, CopiedBack
<1>2. Copied(E, b - h, Q, a - g, n)
  <2> DEFINE c == a - g
  <2>1. c \in Int /\ Copied(D, b, Q, c, n)
    BY <1>1
  <2> HIDE DEF c
  <2>2. Copied(E, b - h, Q, c, n)
    BY <2>1, CopiedDown
  <2> QED
    BY <2>2 DEF c
<1> QED
  BY <1>2, CopiedBack

LEMMA PlacesDown ==
  ASSUME NEW G, NEW L \in Nat, Sized(G, L), NEW p0 \in Nat, NEW g \in Nat, g <= p0,
         NEW o0 \in Nat, NEW h \in Nat, h <= o0,
         NEW pos, NEW off, Places(pos, off, G, L, p0, o0),
         NEW new, Lower(new, pos, L, g),
         NEW ofs, Lower(ofs, off, L, h),
         NEW p1 \in Nat, Further(p1, p0, g), NEW o1 \in Nat, Further(o1, o0, h)
  PROVE  Places(new, ofs, G, L, p1, o1)
<1>10. \A k \in 0 .. L : new[k] = pos[k] - g /\ ofs[k] = off[k] - h
  BY DEF Lower
<1>1. pos[0] = p0 /\ off[0] = o0 /\ 0 \in 0 .. L
  BY DEF Places
<1>2. \A k \in 0 .. L : pos[k] \in Nat /\ off[k] \in Nat
  BY DEF Places
<1>3. \A k \in 1 .. L : /\ k - 1 \in 0 .. L /\ k \in 0 .. L
                        /\ pos[k] = pos[k - 1] + Size(G[k]) + Wide(G[k])
                        /\ off[k] = off[k - 1] + Size(G[k])
  BY DEF Places
<1>4. \A j, k \in 0 .. L : j <= k => pos[j] <= pos[k] /\ off[j] <= off[k]
  BY DEF Places
<1>5. new[0] = p1 /\ ofs[0] = o1
  BY <1>1, <1>10 DEF Further
<1>6. \A k \in 0 .. L : p0 <= pos[k] /\ o0 <= off[k]
  BY <1>1, <1>4
<1>7. \A k \in 0 .. L : new[k] \in Nat /\ ofs[k] \in Nat
  BY <1>2, <1>6, <1>10
<1>8. \A k \in 1 .. L : /\ new[k] = new[k - 1] + Size(G[k]) + Wide(G[k])
                        /\ ofs[k] = ofs[k - 1] + Size(G[k])
  BY <1>2, <1>3, <1>10 DEF Sized
<1>9. \A j, k \in 0 .. L : j <= k => new[j] <= new[k] /\ ofs[j] <= ofs[k]
  BY <1>2, <1>4, <1>10
<1> QED
  BY <1>5, <1>7, <1>8, <1>9 DEF Places

LEMMA CoversDown ==
  ASSUME NEW G, NEW L \in Nat, Sized(G, L), NEW p0 \in Nat, NEW g \in Nat, g <= p0,
         NEW o0 \in Nat, NEW h \in Nat, h <= o0,
         NEW pos, NEW off, Places(pos, off, G, L, p0, o0),
         NEW new, Lower(new, pos, L, g),
         NEW ofs, Lower(ofs, off, L, h),
         NEW P, NEW p \in Nat, NEW D, NEW d \in Nat, NEW cnt \in Nat, NEW close, NEW m \in Nat,
         Covers(pos, off, P, p, D, d, G, L, cnt, close, m),
         NEW Q, Left(Q, P, p, g), NEW E, Left(E, D, d, h)
  PROVE  Covers(new, ofs, Q, p - g, E, d - h, G, L, cnt, close, m)
<1>1. Within(pos, off, G, L, p0, o0)
  BY PlacesWithin
<1>2. /\ pos[L] \in Nat /\ off[L] \in Nat /\ p0 <= pos[L] /\ o0 <= off[L]
      /\ p = pos[L] + cnt + m /\ d = off[L] + cnt
  BY <1>1 DEF Within, Covers
<1>3. /\ new[L] = pos[L] - g /\ ofs[L] = off[L] - h
      /\ \A k \in 1 .. L : new[k - 1] = pos[k - 1] - g /\ ofs[k - 1] = off[k - 1] - h
  BY DEF Lower
<1>4. ASSUME NEW k \in 1 .. L
      PROVE  /\ Copied(Q, new[k - 1], E, ofs[k - 1], Size(G[k]))
             /\ Copied(Q, new[k - 1] + Size(G[k]), Glue(G[k]), 0, Wide(G[k]))
  <2> DEFINE a == pos[k - 1]
             b == off[k - 1]
             n == Size(G[k])
             w == Wide(G[k])
             t == Glue(G[k])
  <2>1. /\ a \in Nat /\ n \in Nat /\ w \in Nat /\ b \in Nat
        /\ p0 <= a /\ a + n + w <= pos[L] /\ o0 <= b /\ b + n <= off[L]
    BY <1>1 DEF Within
  <2> DEFINE e == a + n
  <2>2. Copied(P, a, D, b, n) /\ Copied(P, e, t, 0, w)
    BY DEF Covers
  <2>3. new[k - 1] = a - g /\ ofs[k - 1] = b - h
    BY <1>3
  <2> HIDE DEF a, b, n, w, t
  <2>4. /\ g <= a /\ a + n <= p /\ e \in Nat /\ g <= e /\ e + w <= p /\ e - g = (a - g) + n
        /\ h <= b /\ b + n <= d
    BY <1>2, <2>1
  <2> HIDE DEF e
  <2>5. Copied(Q, a - g, E, b - h, n)
    BY <2>1, <2>2, <2>4, BothDown
  <2>6. Copied(Q, e - g, t, 0, w)
    <3>1. e \in Nat /\ w \in Nat /\ 0 \in Int /\ g <= e /\ e + w <= p /\ Copied(P, e, t, 0, w)
      BY <2>1, <2>2, <2>4
    <3> QED
      BY <3>1, CopiedDown
  <2> QED
    BY <2>3, <2>4, <2>5, <2>6 DEF a, b, n, w, t
<1>5. Copied(P, pos[L], D, off[L], cnt) /\ Copied(P, pos[L] + cnt, close, 0, m)
  BY DEF Covers
<1>6. Copied(Q, pos[L] - g, E, off[L] - h, cnt)
  <2> DEFINE a == pos[L]
             b == off[L]
  <2>1. a \in Nat /\ b \in Nat /\ g <= a /\ a + cnt <= p /\ h <= b /\ b + cnt <= d /\ Copied(P, a, D, b, cnt)
    BY <1>2, <1>5
  <2> HIDE DEF a, b
  <2>2. Copied(Q, a - g, E, b - h, cnt)
    BY <2>1, BothDown
  <2> QED
    BY <2>2 DEF a, b
<1> DEFINE e == pos[L] + cnt
<1>8. e - g = new[L] + cnt /\ p - g = new[L] + cnt + m /\ e \in Nat /\ g <= e /\ e + m <= p
  BY <1>2, <1>3
<1>10. d - h = ofs[L] + cnt
  BY <1>2, <1>3
<1>9. Copied(P, e, close, 0, m)
  BY <1>5
<1> HIDE DEF e
<1>7. Copied(Q, e - g, close, 0, m)
  BY <1>8, <1>9, CopiedDown
<1> QED
  BY <1>3, <1>4, <1>6, <1>7, <1>8, <1>10 DEF Covers

LEMMA LaidDrop ==
  ASSUME NEW P \in Seq(Int), NEW D \in Seq(Int), NEW G \in Seq(Group), NEW p0 \in Nat, NEW o0 \in Nat,
         NEW cnt \in Nat, NEW close \in Seq(Int), NEW g \in Nat, g <= p0, NEW h \in Nat, h <= o0,
         NEW Q, Len(Q) = Len(P) - g, Left(Q, P, Len(P), g),
         NEW E, Len(E) = Len(D) - h, Left(E, D, Len(D), h),
         NEW p1 \in Nat, Further(p1, p0, g), NEW o1 \in Nat, Further(o1, o0, h),
         Laid(P, D, G, p0, o0, cnt, close)
  PROVE  Laid(Q, E, G, p1, o1, cnt, close)
<1>1. PICK pos, off : Lies(pos, off, P, Len(P), D, Len(D), G, Len(G), p0, o0, cnt, close, Len(close))
  BY DEF Laid
<1> DEFINE new == [k \in 0 .. Len(G) |-> pos[k] - g]
           ofs == [k \in 0 .. Len(G) |-> off[k] - h]
<1>2. /\ Len(close) \in Nat /\ Len(P) \in Nat /\ Len(D) \in Nat
      /\ Lower(new, pos, Len(G), g) /\ Lower(ofs, off, Len(G), h)
  BY DEF Lower
<1>3. Len(G) \in Nat /\ Sized(G, Len(G))
  BY GroupFields
<1>6. /\ Places(pos, off, G, Len(G), p0, o0)
      /\ Covers(pos, off, P, Len(P), D, Len(D), G, Len(G), cnt, close, Len(close))
  BY <1>1 DEF Lies
<1> HIDE DEF new, ofs
<1>4. Places(new, ofs, G, Len(G), p1, o1)
  BY <1>2, <1>3, <1>6, PlacesDown
<1>5. Covers(new, ofs, Q, Len(P) - g, E, Len(D) - h, G, Len(G), cnt, close, Len(close))
  BY <1>2, <1>3, <1>6, CoversDown
<1> QED
  BY <1>4, <1>5 DEF Laid, Lies

-----------------------------------------------------------------------------
\* The front group gives some of its bytes and of its glue.
LEMMA PlacesFront ==
  ASSUME NEW G, NEW L \in Nat, L >= 1, Sized(G, L), NEW p0 \in Nat, NEW o0 \in Nat,
         NEW pos, NEW off, Places(pos, off, G, L, p0, o0),
         NEW H, Behind(H, G, L),
         Size(H[1]) \in Nat, Wide(H[1]) \in Nat, Size(H[1]) <= Size(G[1]), Wide(H[1]) <= Wide(G[1]),
         NEW p1 \in Nat, p1 = p0 + (Size(G[1]) - Size(H[1])) + (Wide(G[1]) - Wide(H[1])),
         NEW o1 \in Nat, o1 = o0 + (Size(G[1]) - Size(H[1])),
         NEW new, new[0] = p1, Stay(new, pos, L),
         NEW ofs, ofs[0] = o1, Stay(ofs, off, L)
  PROVE  Places(new, ofs, H, L, p1, o1)
<1>1. pos[0] = p0 /\ off[0] = o0 /\ 0 \in 0 .. L /\ 1 \in 1 .. L /\ 1 \in 0 .. L
  BY DEF Places
<1>2. \A k \in 0 .. L : pos[k] \in Nat /\ off[k] \in Nat
  BY DEF Places
<1>3. \A k \in 1 .. L : /\ pos[k] = pos[k - 1] + Size(G[k]) + Wide(G[k])
                        /\ off[k] = off[k - 1] + Size(G[k])
  BY DEF Places
<1>4. \A j, k \in 0 .. L : j <= k => pos[j] <= pos[k] /\ off[j] <= off[k]
  BY DEF Places
<1>11. \A k \in 1 .. L : new[k] = pos[k] /\ ofs[k] = off[k]
  BY DEF Stay
<1>12. \A k \in 2 .. L : H[k] = G[k]
  BY DEF Behind
<1>13. Size(G[1]) \in Nat /\ Wide(G[1]) \in Nat
  BY <1>1 DEF Sized
<1>5. pos[1] = p0 + Size(G[1]) + Wide(G[1]) /\ off[1] = o0 + Size(G[1])
  <2>1. pos[1] = pos[1 - 1] + Size(G[1]) + Wide(G[1]) /\ off[1] = off[1 - 1] + Size(G[1])
    BY <1>1, <1>3
  <2>2. 1 - 1 = 0
    OBVIOUS
  <2> QED
    BY <1>1, <2>1, <2>2
<1>6. pos[1] = new[0] + Size(H[1]) + Wide(H[1]) /\ off[1] = ofs[0] + Size(H[1])
  BY <1>5, <1>13
<1>7. \A k \in 0 .. L : new[k] \in Nat /\ ofs[k] \in Nat
  <2>1. \A k \in 0 .. L : k = 0 \/ k \in 1 .. L
    OBVIOUS
  <2>2. new[0] \in Nat /\ ofs[0] \in Nat
    BY <1>13
  <2> QED
    BY <1>2, <1>11, <2>1, <2>2
<1>8. ASSUME NEW k \in 1 .. L
      PROVE  new[k] = new[k - 1] + Size(H[k]) + Wide(H[k]) /\ ofs[k] = ofs[k - 1] + Size(H[k])
  <2>1. CASE k = 1
    <3>1. new[1] = pos[1] /\ ofs[1] = off[1]
      BY <1>1, <1>11
    <3>2. k - 1 = 0
      BY <2>1
    <3> QED
      BY <1>6, <2>1, <3>1, <3>2
  <2>2. CASE k # 1
    <3>1. k - 1 \in 1 .. L /\ k \in 2 .. L
      BY <2>2
    <3>2. new[k] = pos[k] /\ ofs[k] = off[k] /\ new[k - 1] = pos[k - 1] /\ ofs[k - 1] = off[k - 1] /\ H[k] = G[k]
      BY <1>11, <1>12, <3>1
    <3>3. pos[k] = pos[k - 1] + Size(G[k]) + Wide(G[k]) /\ off[k] = off[k - 1] + Size(G[k])
      BY <1>3
    <3> QED
      BY <3>2, <3>3
  <2> QED
    BY <2>1, <2>2
<1>9. ASSUME NEW j \in 0 .. L, NEW k \in 0 .. L, j <= k
      PROVE  new[j] <= new[k] /\ ofs[j] <= ofs[k]
  <2>1. CASE j = 0 /\ k = 0
    <3>1. new[0] \in Nat /\ ofs[0] \in Nat
      BY <1>1, <1>7
    <3> QED
      BY <2>1, <3>1
  <2>2. CASE j = 0 /\ k # 0
    <3>1. k \in 1 .. L /\ 1 <= k
      BY <2>2
    <3>2. pos[1] <= pos[k] /\ off[1] <= off[k] /\ new[k] = pos[k] /\ ofs[k] = off[k]
      BY <1>1, <1>4, <1>11, <3>1
    <3>3. pos[k] \in Nat /\ off[k] \in Nat /\ pos[1] \in Nat /\ off[1] \in Nat /\ new[0] \in Nat /\ ofs[0] \in Nat
      BY <1>1, <1>2, <1>7
    <3>4. new[0] <= pos[1] /\ ofs[0] <= off[1]
      BY <1>6, <3>3
    <3> QED
      BY <2>2, <3>2, <3>3, <3>4
  <2>3. CASE j # 0
    <3>1. j \in 1 .. L /\ k \in 1 .. L
      BY <1>9, <2>3
    <3>2. new[j] = pos[j] /\ ofs[j] = off[j] /\ new[k] = pos[k] /\ ofs[k] = off[k]
      BY <1>11, <3>1
    <3> QED
      BY <1>4, <1>9, <3>2
  <2> QED
    BY <2>1, <2>2, <2>3
<1>10. new[0] = p1 /\ ofs[0] = o1
  OBVIOUS
<1> QED
  BY <1>7, <1>8, <1>9, <1>10 DEF Places

LEMMA CoversFront ==
  ASSUME NEW G, NEW L \in Nat, L >= 1,
         NEW pos, NEW off, NEW P, NEW p, NEW D, NEW d, NEW cnt, NEW close, NEW m,
         Covers(pos, off, P, p, D, d, G, L, cnt, close, m),
         NEW H, Behind(H, G, L),
         NEW new, Stay(new, pos, L),
         NEW ofs, Stay(ofs, off, L),
         Copied(P, new[0], D, ofs[0], Size(H[1])), Copied(P, new[0] + Size(H[1]), Glue(H[1]), 0, Wide(H[1]))
  PROVE  Covers(new, ofs, P, p, D, d, H, L, cnt, close, m)
<1>1. new[L] = pos[L] /\ ofs[L] = off[L]
  <2>1. L \in 1 .. L
    OBVIOUS
  <2> QED
    BY <2>1 DEF Stay
<1>2. /\ d = ofs[L] + cnt /\ p = new[L] + cnt + m
      /\ Copied(P, new[L], D, ofs[L], cnt) /\ Copied(P, new[L] + cnt, close, 0, m)
  BY <1>1 DEF Covers
<1>3. ASSUME NEW k \in 1 .. L
      PROVE  /\ Copied(P, new[k - 1], D, ofs[k - 1], Size(H[k]))
             /\ Copied(P, new[k - 1] + Size(H[k]), Glue(H[k]), 0, Wide(H[k]))
  <2>1. CASE k = 1
    <3>1. k - 1 = 0
      BY <2>1
    <3> QED
      BY <2>1, <3>1
  <2>2. CASE k # 1
    <3>1. k - 1 \in 1 .. L /\ k \in 2 .. L
      BY <2>2
    <3>2. new[k - 1] = pos[k - 1] /\ ofs[k - 1] = off[k - 1] /\ H[k] = G[k]
      BY <3>1 DEF Stay, Behind
    <3>3. /\ Copied(P, pos[k - 1], D, off[k - 1], Size(G[k]))
          /\ Copied(P, pos[k - 1] + Size(G[k]), Glue(G[k]), 0, Wide(G[k]))
      BY DEF Covers
    <3> QED
      BY <3>2, <3>3
  <2> QED
    BY <2>1, <2>2
<1> QED
  BY <1>2, <1>3 DEF Covers

LEMMA CopiedTail ==
  ASSUME NEW s, NEW a \in Nat, NEW t, NEW b \in Nat, NEW n \in Nat, NEW l \in Nat, n = l + 1, Copied(s, a, t, b, n),
         NEW c \in Nat, c = a + 1, NEW e \in Nat, e = b + 1
  PROVE  Copied(s, c, t, e, l)
<1>1. \A i \in 1 .. l + 1 : s[a + i] = t[b + i]
  BY DEF Copied
<1>3. ASSUME NEW i \in 1 .. l PROVE s[c + i] = t[e + i]
  <2>1. i + 1 \in 1 .. l + 1 /\ c + i = a + (i + 1) /\ e + i = b + (i + 1)
    OBVIOUS
  <2> QED
    BY <1>1, <2>1
<1> QED
  BY <1>3 DEF Copied

\* The front group as it lies.
Lead(P, p, D, d, G, p0, o0) ==
  /\ Size(G[1]) \in Nat /\ Wide(G[1]) \in Nat
  /\ p0 + Size(G[1]) + Wide(G[1]) <= p /\ o0 + Size(G[1]) <= d
  /\ Copied(P, p0, D, o0, Size(G[1]))
  /\ Copied(P, p0 + Size(G[1]), Glue(G[1]), 0, Wide(G[1]))

LEMMA FirstIs ==
  ASSUME NEW G, NEW L \in Nat, L >= 1, Sized(G, L), NEW p0 \in Nat, NEW o0 \in Nat, NEW pos, NEW off,
         NEW P, NEW p \in Nat, NEW D, NEW d \in Nat, NEW cnt \in Nat, NEW close, NEW m \in Nat,
         Lies(pos, off, P, p, D, d, G, L, p0, o0, cnt, close, m)
  PROVE  Lead(P, p, D, d, G, p0, o0)
<1>0. Places(pos, off, G, L, p0, o0) /\ Covers(pos, off, P, p, D, d, G, L, cnt, close, m)
  BY DEF Lies
<1>1. 1 \in 1 .. L /\ 1 - 1 = 0
  OBVIOUS
<1>2. Within(pos, off, G, L, p0, o0)
  BY <1>0, PlacesWithin
<1>3. pos[0] = p0 /\ off[0] = o0
  BY <1>0 DEF Places
<1>4. /\ Size(G[1]) \in Nat /\ Wide(G[1]) \in Nat /\ pos[L] \in Nat /\ off[L] \in Nat
      /\ pos[0] + Size(G[1]) + Wide(G[1]) <= pos[L] /\ off[0] + Size(G[1]) <= off[L]
  BY <1>1, <1>2 DEF Within
<1>5. Copied(P, pos[0], D, off[0], Size(G[1])) /\ Copied(P, pos[0] + Size(G[1]), Glue(G[1]), 0, Wide(G[1]))
  BY <1>0, <1>1 DEF Covers
<1>6. p = pos[L] + cnt + m /\ d = off[L] + cnt
  BY <1>0 DEF Covers
<1>7. p0 + Size(G[1]) + Wide(G[1]) <= p /\ o0 + Size(G[1]) <= d
  BY <1>3, <1>4, <1>6
<1> QED
  BY <1>3, <1>4, <1>5, <1>7 DEF Lead

\* A byte of the front group.
LEMMA FrontByte ==
  ASSUME NEW G, NEW L \in Nat, L >= 1, Sized(G, L), NEW p0 \in Nat, NEW o0 \in Nat, NEW pos, NEW off,
         NEW P, NEW p \in Nat, NEW D, NEW d \in Nat, NEW cnt \in Nat, NEW close, NEW m \in Nat,
         Lies(pos, off, P, p, D, d, G, L, p0, o0, cnt, close, m),
         NEW H, Behind(H, G, L), LessByte(H, G),
         NEW p1 \in Nat, Further(p0, p1, 1), NEW o1 \in Nat, Further(o0, o1, 1),
         NEW new, new[0] = p1, Stay(new, pos, L),
         NEW ofs, ofs[0] = o1, Stay(ofs, off, L)
  PROVE  Lies(new, ofs, P, p, D, d, H, L, p1, o1, cnt, close, m)
<1>1. /\ p1 = p0 + 1 /\ o1 = o0 + 1 /\ Size(H[1]) \in Nat /\ Size(G[1]) = Size(H[1]) + 1
      /\ Glue(H[1]) = Glue(G[1]) /\ Wide(H[1]) = Wide(G[1])
  BY DEF Further, LessByte
<1>2. /\ Size(G[1]) \in Nat /\ Wide(G[1]) \in Nat
      /\ Copied(P, p0, D, o0, Size(G[1]))
      /\ Copied(P, p0 + Size(G[1]), Glue(G[1]), 0, Wide(G[1]))
  BY FirstIs DEF Lead
<1>3. p1 + Size(H[1]) = p0 + Size(G[1])
  BY <1>1
<1>4. Copied(P, p1, D, o1, Size(H[1]))
  <2> DEFINE n == Size(G[1])
             l == Size(H[1])
  <2>1. Copied(P, p0, D, o0, n) /\ n = l + 1 /\ l \in Nat /\ n \in Nat
    BY <1>1, <1>2
  <2> HIDE DEF n, l
  <2>2. Copied(P, p1, D, o1, l)
    BY <1>1, <2>1, CopiedTail
  <2> QED
    BY <2>2 DEF l
<1>5. Places(new, ofs, H, L, p1, o1)
  <2>1. /\ Wide(H[1]) \in Nat /\ Wide(H[1]) <= Wide(G[1]) /\ Size(H[1]) \in Nat /\ Size(H[1]) <= Size(G[1])
        /\ p1 = p0 + (Size(G[1]) - Size(H[1])) + (Wide(G[1]) - Wide(H[1]))
        /\ o1 = o0 + (Size(G[1]) - Size(H[1]))
    BY <1>1, <1>2
  <2>2. Places(pos, off, G, L, p0, o0)
    BY DEF Lies
  <2> QED
    BY <2>1, <2>2, PlacesFront
<1>6. Covers(new, ofs, P, p, D, d, H, L, cnt, close, m)
  <2>1. Copied(P, new[0], D, ofs[0], Size(H[1])) /\ Copied(P, new[0] + Size(H[1]), Glue(H[1]), 0, Wide(H[1]))
    BY <1>1, <1>2, <1>3, <1>4
  <2>2. Covers(pos, off, P, p, D, d, G, L, cnt, close, m)
    BY DEF Lies
  <2> QED
    BY <2>1, <2>2, CoversFront
<1> QED
  BY <1>5, <1>6 DEF Lies

LEMMA LaidLead ==
  ASSUME NEW P \in Seq(Int), NEW D \in Seq(Int), NEW G \in Seq(Group), NEW p0 \in Nat, NEW o0 \in Nat,
         NEW cnt \in Nat, NEW close \in Seq(Int), Laid(P, D, G, p0, o0, cnt, close), Len(G) >= 1
  PROVE  Lead(P, Len(P), D, Len(D), G, p0, o0)
<1>1. PICK pos, off : Lies(pos, off, P, Len(P), D, Len(D), G, Len(G), p0, o0, cnt, close, Len(close))
  BY DEF Laid
<1>2. Len(close) \in Nat /\ Len(P) \in Nat /\ Len(D) \in Nat
  OBVIOUS
<1>3. Len(G) \in Nat /\ Sized(G, Len(G))
  BY GroupFields
<1> QED
  BY <1>1, <1>2, <1>3, FirstIs

LEMMA LaidByte ==
  ASSUME NEW P \in Seq(Int), NEW D \in Seq(Int), NEW G \in Seq(Group), NEW p0 \in Nat, NEW o0 \in Nat,
         NEW cnt \in Nat, NEW close \in Seq(Int), Laid(P, D, G, p0, o0, cnt, close), Len(G) >= 1,
         NEW H, Len(H) = Len(G), Behind(H, G, Len(G)), LessByte(H, G),
         NEW p1 \in Nat, Further(p0, p1, 1), NEW o1 \in Nat, Further(o0, o1, 1)
  PROVE  Laid(P, D, H, p1, o1, cnt, close)
<1>1. PICK pos, off : Lies(pos, off, P, Len(P), D, Len(D), G, Len(G), p0, o0, cnt, close, Len(close))
  BY DEF Laid
<1> DEFINE new == [k \in 0 .. Len(G) |-> IF k = 0 THEN p1 ELSE pos[k]]
           ofs == [k \in 0 .. Len(G) |-> IF k = 0 THEN o1 ELSE off[k]]
<1>2. /\ Len(close) \in Nat /\ Len(P) \in Nat /\ Len(D) \in Nat
      /\ new[0] = p1 /\ ofs[0] = o1
      /\ Stay(new, pos, Len(G)) /\ Stay(ofs, off, Len(G))
  BY DEF Stay
<1>3. Len(G) \in Nat /\ Sized(G, Len(G))
  BY GroupFields
<1> HIDE DEF new, ofs
<1>4. Lies(new, ofs, P, Len(P), D, Len(D), H, Len(G), p1, o1, cnt, close, Len(close))
  BY <1>1, <1>2, <1>3, FrontByte
<1> QED
  BY <1>4 DEF Laid

\* The front group has no bytes left, and its glue goes.
LEMMA FrontGlue ==
  ASSUME NEW G, NEW L \in Nat, L >= 1, Sized(G, L), NEW p0 \in Nat, NEW o0 \in Nat, NEW pos, NEW off,
         NEW P, NEW p \in Nat, NEW D, NEW d \in Nat, NEW cnt \in Nat, NEW close, NEW m \in Nat,
         Lies(pos, off, P, p, D, d, G, L, p0, o0, cnt, close, m),
         NEW H, Behind(H, G, L), NEW w \in Nat, LessGlue(H, G, w),
         NEW p1 \in Nat, Further(p0, p1, w),
         NEW new, new[0] = p1, Stay(new, pos, L)
  PROVE  Lies(new, off, P, p, D, d, H, L, p1, o0, cnt, close, m)
<1>1. p1 = p0 + w /\ Size(G[1]) = 0 /\ Size(H[1]) = 0 /\ Wide(G[1]) = w /\ Wide(H[1]) = 0
  BY DEF Further, LessGlue
<1>2. off[0] = o0 /\ Stay(off, off, L) /\ Places(pos, off, G, L, p0, o0)
  BY DEF Places, Stay, Lies
<1>3. Places(new, off, H, L, p1, o0)
  <2>1. /\ Size(H[1]) \in Nat /\ Wide(H[1]) \in Nat /\ Wide(H[1]) <= Wide(G[1]) /\ Size(H[1]) <= Size(G[1])
        /\ p1 = p0 + (Size(G[1]) - Size(H[1])) + (Wide(G[1]) - Wide(H[1]))
        /\ o0 = o0 + (Size(G[1]) - Size(H[1]))
    BY <1>1
  <2> QED
    BY <1>2, <2>1, PlacesFront
<1>4. Covers(new, off, P, p, D, d, H, L, cnt, close, m)
  <2>1. Copied(P, new[0], D, off[0], Size(H[1])) /\ Copied(P, new[0] + Size(H[1]), Glue(H[1]), 0, Wide(H[1]))
    BY <1>1 DEF Copied
  <2>2. Covers(pos, off, P, p, D, d, G, L, cnt, close, m)
    BY DEF Lies
  <2> QED
    BY <1>2, <2>1, <2>2, CoversFront
<1> QED
  BY <1>3, <1>4 DEF Lies

LEMMA LaidGlue ==
  ASSUME NEW P \in Seq(Int), NEW D \in Seq(Int), NEW G \in Seq(Group), NEW p0 \in Nat, NEW o0 \in Nat,
         NEW cnt \in Nat, NEW close \in Seq(Int), Laid(P, D, G, p0, o0, cnt, close), Len(G) >= 1,
         NEW H, Len(H) = Len(G), Behind(H, G, Len(G)), NEW w \in Nat, LessGlue(H, G, w),
         NEW p1 \in Nat, Further(p0, p1, w)
  PROVE  Laid(P, D, H, p1, o0, cnt, close)
<1>1. PICK pos, off : Lies(pos, off, P, Len(P), D, Len(D), G, Len(G), p0, o0, cnt, close, Len(close))
  BY DEF Laid
<1> DEFINE new == [k \in 0 .. Len(G) |-> IF k = 0 THEN p1 ELSE pos[k]]
<1>2. /\ Len(close) \in Nat /\ Len(P) \in Nat /\ Len(D) \in Nat
      /\ new[0] = p1 /\ Stay(new, pos, Len(G))
  BY DEF Stay
<1>3. Len(G) \in Nat /\ Sized(G, Len(G))
  BY GroupFields
<1> HIDE DEF new
<1>4. Lies(new, off, P, Len(P), D, Len(D), H, Len(G), p1, o0, cnt, close, Len(close))
  BY <1>1, <1>2, <1>3, FrontGlue
<1> QED
  BY <1>4 DEF Laid

\* Nothing is left of the front group.
LEMMA FrontNext ==
  ASSUME NEW G, NEW L \in Nat, Sized(G, L), NEW p0 \in Nat, NEW o0 \in Nat, NEW pos, NEW off,
         NEW P, NEW p \in Nat, NEW D, NEW d \in Nat, NEW cnt \in Nat, NEW close, NEW m \in Nat,
         Lies(pos, off, P, p, D, d, G, L, p0, o0, cnt, close, m), LessGlue(G, G, 0),
         NEW L1 \in Nat, Further(L1, L, 1), NEW H, Left(H, G, L, 1),
         NEW new, MovedUp(new, pos, L1), NEW ofs, MovedUp(ofs, off, L1)
  PROVE  Lies(new, ofs, P, p, D, d, H, L1, p0, o0, cnt, close, m)
<1>1. L = L1 + 1 /\ Size(G[1]) = 0 /\ Wide(G[1]) = 0 /\ \A k \in 1 .. L1 : H[k] = G[k + 1]
  BY DEF Further, LessGlue, Left
<1>2. \A k \in 0 .. L1 : new[k] = pos[k + 1] /\ ofs[k] = off[k + 1]
  BY DEF MovedUp
<1>3. pos[0] = p0 /\ off[0] = o0 /\ \A k \in 0 .. L : pos[k] \in Nat /\ off[k] \in Nat
  BY DEF Lies, Places
<1>4. \A k \in 1 .. L : /\ pos[k] = pos[k - 1] + Size(G[k]) + Wide(G[k])
                        /\ off[k] = off[k - 1] + Size(G[k])
  BY DEF Lies, Places
<1>5. \A j, k \in 0 .. L : j <= k => pos[j] <= pos[k] /\ off[j] <= off[k]
  BY DEF Lies, Places
<1>6. new[0] = p0 /\ ofs[0] = o0
  <2>1. 1 \in 1 .. L /\ 1 - 1 = 0 /\ 0 \in 0 .. L1 /\ 0 + 1 = 1
    BY <1>1
  <2>2. pos[1] = pos[0] + Size(G[1]) + Wide(G[1]) /\ off[1] = off[0] + Size(G[1])
    BY <1>4, <2>1
  <2>3. pos[1] = p0 /\ off[1] = o0
    BY <1>1, <1>3, <2>2
  <2> QED
    BY <1>2, <2>1, <2>3
<1>7. \A k \in 0 .. L1 : new[k] \in Nat /\ ofs[k] \in Nat
  <2>1. \A k \in 0 .. L1 : k + 1 \in 0 .. L
    BY <1>1
  <2> QED
    BY <1>2, <1>3, <2>1
<1>8. ASSUME NEW k \in 1 .. L1
      PROVE  /\ new[k] = new[k - 1] + Size(H[k]) + Wide(H[k]) /\ ofs[k] = ofs[k - 1] + Size(H[k])
             /\ new[k - 1] = pos[k] /\ ofs[k - 1] = off[k] /\ H[k] = G[k + 1]
  <2>1. k \in 0 .. L1 /\ k - 1 \in 0 .. L1 /\ (k - 1) + 1 = k /\ k + 1 \in 1 .. L /\ (k + 1) - 1 = k
    BY <1>1
  <2>2. new[k] = pos[k + 1] /\ new[k - 1] = pos[k] /\ ofs[k] = off[k + 1] /\ ofs[k - 1] = off[k] /\ H[k] = G[k + 1]
    BY <1>1, <1>2, <2>1
  <2>3. pos[k + 1] = pos[k] + Size(G[k + 1]) + Wide(G[k + 1]) /\ off[k + 1] = off[k] + Size(G[k + 1])
    BY <1>4, <2>1
  <2> QED
    BY <2>2, <2>3
<1>9. ASSUME NEW j \in 0 .. L1, NEW k \in 0 .. L1, j <= k PROVE new[j] <= new[k] /\ ofs[j] <= ofs[k]
  <2>1. j + 1 \in 0 .. L /\ k + 1 \in 0 .. L /\ j + 1 <= k + 1
    BY <1>1, <1>9
  <2>2. pos[j + 1] <= pos[k + 1] /\ off[j + 1] <= off[k + 1]
    BY <1>5, <2>1
  <2> QED
    BY <1>2, <2>2
<1>10. Places(new, ofs, H, L1, p0, o0)
  BY <1>6, <1>7, <1>8, <1>9 DEF Places
<1>11. Covers(new, ofs, P, p, D, d, H, L1, cnt, close, m)
  <2>0. Covers(pos, off, P, p, D, d, G, L, cnt, close, m)
    BY DEF Lies
  <2>1. new[L1] = pos[L] /\ ofs[L1] = off[L]
    <3>1. L1 \in 0 .. L1
      OBVIOUS
    <3> QED
      BY <1>1, <1>2, <3>1
  <2>2. /\ d = ofs[L1] + cnt /\ p = new[L1] + cnt + m
        /\ Copied(P, new[L1], D, ofs[L1], cnt) /\ Copied(P, new[L1] + cnt, close, 0, m)
    BY <2>0, <2>1 DEF Covers
  <2>3. ASSUME NEW k \in 1 .. L1
        PROVE  /\ Copied(P, new[k - 1], D, ofs[k - 1], Size(H[k]))
               /\ Copied(P, new[k - 1] + Size(H[k]), Glue(H[k]), 0, Wide(H[k]))
    <3>1. k + 1 \in 1 .. L /\ (k + 1) - 1 = k
      BY <1>1
    <3>2. /\ Copied(P, pos[(k + 1) - 1], D, off[(k + 1) - 1], Size(G[k + 1]))
          /\ Copied(P, pos[(k + 1) - 1] + Size(G[k + 1]), Glue(G[k + 1]), 0, Wide(G[k + 1]))
      BY <2>0, <3>1 DEF Covers
    <3>3. /\ Copied(P, pos[k], D, off[k], Size(G[k + 1]))
          /\ Copied(P, pos[k] + Size(G[k + 1]), Glue(G[k + 1]), 0, Wide(G[k + 1]))
      BY <3>1, <3>2
    <3> QED
      BY <1>8, <3>3
  <2> QED
    BY <2>2, <2>3 DEF Covers
<1> QED
  BY <1>10, <1>11 DEF Lies

\* The open group ends.
LEMMA OpenEnds ==
  ASSUME NEW G, NEW L \in Nat, Sized(G, L), NEW p0 \in Nat, NEW o0 \in Nat, NEW pos, NEW off,
         NEW P, NEW p \in Nat, NEW D, NEW d \in Nat, NEW cnt \in Nat, NEW close, NEW m \in Nat,
         Lies(pos, off, P, p, D, d, G, L, p0, o0, cnt, close, m),
         NEW K \in Nat, Further(L, K, 1), NEW H, Stay(H, G, L), NEW w \in Nat, Ends(H, K, cnt, w, close),
         NEW rest, NEW m1 \in Nat, Further(m1, m, w), Left(rest, close, m, w),
         NEW new, StayTo(new, pos, L), new[K] = pos[L] + cnt + w,
         NEW ofs, StayTo(ofs, off, L), ofs[K] = off[L] + cnt
  PROVE  Lies(new, ofs, P, p, D, d, H, K, p0, o0, 0, rest, m1)
<1>0. Places(pos, off, G, L, p0, o0) /\ Covers(pos, off, P, p, D, d, G, L, cnt, close, m)
  BY DEF Lies
<1>1. /\ K = L + 1 /\ m = m1 + w /\ Size(H[K]) = cnt /\ Wide(H[K]) = w /\ Copied(close, 0, Glue(H[K]), 0, w)
      /\ \A k \in 1 .. L : H[k] = G[k]
  BY DEF Further, Ends, Stay
<1>2. \A k \in 0 .. L : new[k] = pos[k] /\ ofs[k] = off[k]
  BY DEF StayTo
<1>3. pos[0] = p0 /\ off[0] = o0 /\ \A k \in 0 .. L : pos[k] \in Nat /\ off[k] \in Nat
  BY <1>0 DEF Places
<1>4. \A k \in 1 .. L : /\ pos[k] = pos[k - 1] + Size(G[k]) + Wide(G[k])
                        /\ off[k] = off[k - 1] + Size(G[k])
  BY <1>0 DEF Places
<1>5. \A j, k \in 0 .. L : j <= k => pos[j] <= pos[k] /\ off[j] <= off[k]
  BY <1>0 DEF Places
<1>6. 0 \in 0 .. L /\ L \in 0 .. L /\ pos[L] \in Nat /\ off[L] \in Nat /\ new[L] = pos[L] /\ ofs[L] = off[L]
  <2>1. 0 \in 0 .. L /\ L \in 0 .. L
    OBVIOUS
  <2> QED
    BY <1>2, <1>3, <2>1
<1>7. \A k \in 0 .. K : k \in 0 .. L \/ k = K
  BY <1>1
<1>8. \A k \in 0 .. K : new[k] \in Nat /\ ofs[k] \in Nat
  <2>1. new[K] \in Nat /\ ofs[K] \in Nat
    BY <1>6
  <2> QED
    BY <1>2, <1>3, <1>7, <2>1
<1>9. ASSUME NEW k \in 1 .. K
      PROVE  new[k] = new[k - 1] + Size(H[k]) + Wide(H[k]) /\ ofs[k] = ofs[k - 1] + Size(H[k])
  <2>1. CASE k = K
    <3>1. K - 1 = L
      BY <1>1
    <3> QED
      BY <1>1, <1>6, <2>1, <3>1
  <2>2. CASE k # K
    <3>1. k \in 1 .. L /\ k \in 0 .. L /\ k - 1 \in 0 .. L
      BY <1>1, <2>2
    <3>2. new[k] = pos[k] /\ ofs[k] = off[k] /\ new[k - 1] = pos[k - 1] /\ ofs[k - 1] = off[k - 1] /\ H[k] = G[k]
      BY <1>1, <1>2, <3>1
    <3> QED
      BY <1>4, <3>1, <3>2
  <2> QED
    BY <2>1, <2>2
<1>10. ASSUME NEW j \in 0 .. K, NEW k \in 0 .. K, j <= k PROVE new[j] <= new[k] /\ ofs[j] <= ofs[k]
  <2>1. CASE k # K
    <3>1. k \in 0 .. L /\ j \in 0 .. L
      BY <1>1, <1>10, <2>1
    <3>2. new[j] = pos[j] /\ ofs[j] = off[j] /\ new[k] = pos[k] /\ ofs[k] = off[k]
      BY <1>2, <3>1
    <3> QED
      BY <1>5, <1>10, <3>1, <3>2
  <2>2. CASE k = K /\ j # K
    <3>1. j \in 0 .. L /\ j <= L
      BY <1>1, <1>10, <2>2
    <3>2. new[j] = pos[j] /\ ofs[j] = off[j] /\ pos[j] <= pos[L] /\ off[j] <= off[L] /\ pos[j] \in Nat /\ off[j] \in Nat
      BY <1>2, <1>3, <1>5, <1>6, <3>1
    <3> QED
      BY <1>6, <2>2, <3>2
  <2>3. CASE k = K /\ j = K
    <3>1. new[K] \in Nat /\ ofs[K] \in Nat
      BY <1>6
    <3> QED
      BY <2>3, <3>1
  <2> QED
    BY <2>1, <2>2, <2>3
<1>11. Places(new, ofs, H, K, p0, o0)
  <2>1. new[0] = p0 /\ ofs[0] = o0
    BY <1>2, <1>3, <1>6
  <2> QED
    BY <1>8, <1>9, <1>10, <2>1 DEF Places
<1>12. p = pos[L] + cnt + m /\ d = off[L] + cnt /\ Copied(P, pos[L], D, off[L], cnt) /\ Copied(P, pos[L] + cnt, close, 0, m)
  BY <1>0 DEF Covers
<1>13. Covers(new, ofs, P, p, D, d, H, K, 0, rest, m1)
  <2>1. d = ofs[K] + 0 /\ p = new[K] + 0 + m1
    BY <1>1, <1>6, <1>12
  <2>2. Copied(P, pos[L] + cnt, Glue(H[K]), 0, w)
    <3>1. \A i \in 1 .. m : P[(pos[L] + cnt) + i] = close[0 + i]
      BY <1>12 DEF Copied
    <3>2. \A i \in 1 .. w : close[0 + i] = Glue(H[K])[0 + i]
      BY <1>1 DEF Copied
    <3>3. \A i \in 1 .. w : i \in 1 .. m
      BY <1>1
    <3>4. \A i \in 1 .. w : P[(pos[L] + cnt) + i] = Glue(H[K])[0 + i]
      BY <3>1, <3>2, <3>3
    <3> QED
      BY <3>4 DEF Copied
  <2>3. ASSUME NEW k \in 1 .. K
        PROVE  /\ Copied(P, new[k - 1], D, ofs[k - 1], Size(H[k]))
               /\ Copied(P, new[k - 1] + Size(H[k]), Glue(H[k]), 0, Wide(H[k]))
    <3>1. CASE k = K
      <4>1. K - 1 = L
        BY <1>1
      <4> QED
        BY <1>1, <1>6, <1>12, <2>2, <3>1, <4>1
    <3>2. CASE k # K
      <4>1. k \in 1 .. L /\ k - 1 \in 0 .. L
        BY <1>1, <3>2
      <4>2. new[k - 1] = pos[k - 1] /\ ofs[k - 1] = off[k - 1] /\ H[k] = G[k]
        BY <1>1, <1>2, <4>1
      <4>3. /\ Copied(P, pos[k - 1], D, off[k - 1], Size(G[k]))
            /\ Copied(P, pos[k - 1] + Size(G[k]), Glue(G[k]), 0, Wide(G[k]))
        BY <1>0, <4>1 DEF Covers
      <4> QED
        BY <4>2, <4>3
    <3> QED
      BY <3>1, <3>2
  <2>4. Copied(P, new[K], D, ofs[K], 0)
    BY DEF Copied
  <2>5. Copied(P, new[K] + 0, rest, 0, m1)
    <3>1. ASSUME NEW i \in 1 .. m1 PROVE P[(new[K] + 0) + i] = rest[0 + i]
      <4>1. \A j \in 1 .. m : P[(pos[L] + cnt) + j] = close[0 + j]
        BY <1>12 DEF Copied
      <4>2. i + w \in 1 .. m /\ (pos[L] + cnt) + (i + w) = (new[K] + 0) + i /\ 0 + (i + w) = i + w /\ 0 + i = i
        BY <1>1, <1>6
      <4>3. i \in 1 .. m - w
        BY <1>1
      <4>4. rest[i] = close[i + w]
        BY <4>3 DEF Left
      <4> QED
        BY <4>1, <4>2, <4>4
    <3> QED
      BY <3>1 DEF Copied
  <2> QED
    BY <2>1, <2>3, <2>4, <2>5 DEF Covers
<1> QED
  BY <1>11, <1>13 DEF Lies

\* The open group gets a byte.
LEMMA OpenGrows ==
  ASSUME NEW G, NEW L \in Nat, Sized(G, L), NEW p0 \in Nat, NEW o0 \in Nat, NEW pos, NEW off,
         NEW P, NEW p \in Nat, NEW D, NEW d \in Nat, NEW cnt \in Nat, NEW close, NEW m \in Nat,
         Lies(pos, off, P, p, D, d, G, L, p0, o0, cnt, close, m),
         NEW E, Stay(E, D, d), NEW d1 \in Nat, Further(d, d1, 1), Gets(E, d1, close),
         NEW rest, NEW m1 \in Nat, Further(m1, m, 1), Left(rest, close, m, 1),
         NEW c1 \in Nat, Further(cnt, c1, 1)
  PROVE  Lies(pos, off, P, p, E, d1, G, L, p0, o0, c1, rest, m1)
<1>0. Places(pos, off, G, L, p0, o0) /\ Covers(pos, off, P, p, D, d, G, L, cnt, close, m)
  BY DEF Lies
<1>1. d1 = d + 1 /\ m = m1 + 1 /\ c1 = cnt + 1 /\ E[d1] = close[1] /\ \A k \in 1 .. d : E[k] = D[k]
  BY DEF Further, Gets, Stay
<1>2. Within(pos, off, G, L, p0, o0)
  BY <1>0, PlacesWithin
<1>3. pos[L] \in Nat /\ off[L] \in Nat
  BY <1>2 DEF Within
<1>4. p = pos[L] + cnt + m /\ d = off[L] + cnt /\ Copied(P, pos[L], D, off[L], cnt) /\ Copied(P, pos[L] + cnt, close, 0, m)
  BY <1>0 DEF Covers
<1>5. ASSUME NEW a, NEW b \in Nat, NEW n \in Nat, b + n <= d, Copied(P, a, D, b, n)
      PROVE  Copied(P, a, E, b, n)
  <2>1. ASSUME NEW i \in 1 .. n PROVE E[b + i] = D[b + i]
    <3>1. b + i \in 1 .. d
      BY <1>5
    <3> QED
      BY <1>1, <3>1
  <2> QED
    BY <1>5, <2>1 DEF Copied
<1>6. ASSUME NEW k \in 1 .. L
      PROVE  /\ Copied(P, pos[k - 1], E, off[k - 1], Size(G[k]))
             /\ Copied(P, pos[k - 1] + Size(G[k]), Glue(G[k]), 0, Wide(G[k]))
  <2> DEFINE a == pos[k - 1]
             b == off[k - 1]
             n == Size(G[k])
  <2>1. b \in Nat /\ n \in Nat /\ b + n <= off[L]
    BY <1>2 DEF Within
  <2>2. Copied(P, a, D, b, n) /\ Copied(P, a + n, Glue(G[k]), 0, Wide(G[k]))
    BY <1>0 DEF Covers
  <2> HIDE DEF a, b, n
  <2>3. b + n <= d
    BY <1>3, <1>4, <2>1
  <2>4. Copied(P, a, E, b, n)
    BY <1>5, <2>1, <2>2, <2>3
  <2> QED
    BY <2>2, <2>4 DEF a, b, n
<1>7. Copied(P, pos[L], E, off[L], c1)
  <2>1. ASSUME NEW i \in 1 .. c1 PROVE P[pos[L] + i] = E[off[L] + i]
    <3>1. CASE i = c1
      <4>1. 1 \in 1 .. m /\ (pos[L] + cnt) + 1 = pos[L] + i /\ 0 + 1 = 1 /\ off[L] + i = d1
        BY <1>1, <1>3, <1>4, <3>1
      <4>2. P[(pos[L] + cnt) + 1] = close[0 + 1]
        BY <1>4, <4>1 DEF Copied
      <4> QED
        BY <1>1, <4>1, <4>2
    <3>2. CASE i # c1
      <4>1. i \in 1 .. cnt /\ off[L] + i \in 1 .. d
        BY <1>1, <1>3, <1>4, <3>2
      <4>2. P[pos[L] + i] = D[off[L] + i]
        BY <1>4, <4>1 DEF Copied
      <4> QED
        BY <1>1, <4>1, <4>2
    <3> QED
      BY <3>1, <3>2
  <2> QED
    BY <2>1 DEF Copied
<1>8. Copied(P, pos[L] + c1, rest, 0, m1)
  <2>1. ASSUME NEW i \in 1 .. m1 PROVE P[(pos[L] + c1) + i] = rest[0 + i]
    <3>1. \A j \in 1 .. m : P[(pos[L] + cnt) + j] = close[0 + j]
      BY <1>4 DEF Copied
    <3>2. i + 1 \in 1 .. m /\ (pos[L] + cnt) + (i + 1) = (pos[L] + c1) + i /\ 0 + (i + 1) = i + 1 /\ 0 + i = i
      BY <1>1, <1>3
    <3>3. i \in 1 .. m - 1
      BY <1>1
    <3>4. rest[i] = close[i + 1]
      BY <3>3 DEF Left
    <3> QED
      BY <3>1, <3>2, <3>4
  <2> QED
    BY <2>1 DEF Copied
<1>9. d1 = off[L] + c1 /\ p = pos[L] + c1 + m1
  BY <1>1, <1>3, <1>4
<1>10. Covers(pos, off, P, p, E, d1, G, L, c1, rest, m1)
  BY <1>6, <1>7, <1>8, <1>9 DEF Covers
<1> QED
  BY <1>0, <1>10 DEF Lies

\* More values come to be received.
LEMMA CloseGrows ==
  ASSUME NEW G, NEW L \in Nat, Sized(G, L), NEW p0 \in Nat, NEW o0 \in Nat, NEW pos, NEW off,
         NEW P, NEW p \in Nat, NEW D, NEW d \in Nat, NEW cnt \in Nat, NEW close, NEW m \in Nat,
         Lies(pos, off, P, p, D, d, G, L, p0, o0, cnt, close, m),
         NEW x \in Nat, NEW p1 \in Nat, Further(p, p1, x), NEW m1 \in Nat, Further(m, m1, x),
         NEW Q, Stay(Q, P, p), NEW more, Stay(more, close, m), Copied(Q, p, more, m, x)
  PROVE  Lies(pos, off, Q, p1, D, d, G, L, p0, o0, cnt, more, m1)
<1>0. Places(pos, off, G, L, p0, o0) /\ Covers(pos, off, P, p, D, d, G, L, cnt, close, m)
  BY DEF Lies
<1>1. p1 = p + x /\ m1 = m + x /\ \A k \in 1 .. p : Q[k] = P[k]
  BY DEF Further, Stay
<1>2. Within(pos, off, G, L, p0, o0)
  BY <1>0, PlacesWithin
<1>3. pos[L] \in Nat /\ off[L] \in Nat
  BY <1>2 DEF Within
<1>4. p = pos[L] + cnt + m /\ d = off[L] + cnt /\ Copied(P, pos[L], D, off[L], cnt) /\ Copied(P, pos[L] + cnt, close, 0, m)
  BY <1>0 DEF Covers
<1>5. ASSUME NEW a \in Nat, NEW t, NEW b, NEW n \in Nat, a + n <= p, Copied(P, a, t, b, n)
      PROVE  Copied(Q, a, t, b, n)
  <2>1. ASSUME NEW i \in 1 .. n PROVE Q[a + i] = P[a + i]
    <3>1. a + i \in 1 .. p
      BY <1>5
    <3> QED
      BY <1>1, <3>1
  <2> QED
    BY <1>5, <2>1 DEF Copied
<1>6. ASSUME NEW k \in 1 .. L
      PROVE  /\ Copied(Q, pos[k - 1], D, off[k - 1], Size(G[k]))
             /\ Copied(Q, pos[k - 1] + Size(G[k]), Glue(G[k]), 0, Wide(G[k]))
  <2> DEFINE a == pos[k - 1]
             b == off[k - 1]
             n == Size(G[k])
             w == Wide(G[k])
             t == Glue(G[k])
  <2>1. a \in Nat /\ n \in Nat /\ w \in Nat /\ a + n + w <= pos[L]
    BY <1>2 DEF Within
  <2> DEFINE e == a + n
  <2>2. Copied(P, a, D, b, n) /\ Copied(P, e, t, 0, w)
    BY <1>0 DEF Covers
  <2> HIDE DEF a, b, n, w, t
  <2>3. a + n <= p /\ e \in Nat /\ e + w <= p
    BY <1>3, <1>4, <2>1
  <2> HIDE DEF e
  <2>4. Copied(Q, a, D, b, n)
    BY <1>5, <2>1, <2>2, <2>3
  <2>5. Copied(Q, e, t, 0, w)
    BY <1>5, <2>1, <2>2, <2>3
  <2> QED
    BY <2>4, <2>5 DEF a, b, n, w, t, e
<1>7. Copied(Q, pos[L], D, off[L], cnt)
  <2>1. pos[L] + cnt <= p
    BY <1>3, <1>4
  <2> QED
    BY <1>3, <1>4, <1>5, <2>1
<1>8. Copied(Q, pos[L] + cnt, more, 0, m1)
  <2>1. ASSUME NEW i \in 1 .. m1 PROVE Q[(pos[L] + cnt) + i] = more[0 + i]
    <3>1. CASE i <= m
      <4>1. i \in 1 .. m /\ (pos[L] + cnt) + i \in 1 .. p /\ 0 + i = i
        BY <1>3, <1>4, <3>1
      <4>2. P[(pos[L] + cnt) + i] = close[0 + i]
        BY <1>4, <4>1 DEF Copied
      <4>3. more[i] = close[i]
        BY <4>1 DEF Stay
      <4>4. Q[(pos[L] + cnt) + i] = P[(pos[L] + cnt) + i]
        BY <1>1, <4>1
      <4> QED
        BY <4>1, <4>2, <4>3, <4>4
    <3>2. CASE i > m
      <4> DEFINE j == i - m
      <4>1. j \in 1 .. x /\ p + j = (pos[L] + cnt) + i /\ m + j = 0 + i
        BY <1>1, <1>3, <1>4, <3>2
      <4>2. Q[p + j] = more[m + j]
        BY <4>1 DEF Copied
      <4> QED
        BY <4>1, <4>2
    <3> QED
      BY <3>1, <3>2
  <2> QED
    BY <2>1 DEF Copied
<1>9. p1 = pos[L] + cnt + m1
  BY <1>1, <1>3, <1>4
<1>10. Covers(pos, off, Q, p1, D, d, G, L, cnt, more, m1)
  BY <1>4, <1>6, <1>7, <1>8, <1>9 DEF Covers
<1> QED
  BY <1>0, <1>10 DEF Lies

LEMMA LaidNext ==
  ASSUME NEW P \in Seq(Int), NEW D \in Seq(Int), NEW G \in Seq(Group), NEW p0 \in Nat, NEW o0 \in Nat,
         NEW cnt \in Nat, NEW close \in Seq(Int), Laid(P, D, G, p0, o0, cnt, close),
         LessGlue(G, G, 0), NEW H, NEW L1 \in Nat, Len(H) = L1, Further(L1, Len(G), 1), Left(H, G, Len(G), 1)
  PROVE  Laid(P, D, H, p0, o0, cnt, close)
<1>1. PICK pos, off : Lies(pos, off, P, Len(P), D, Len(D), G, Len(G), p0, o0, cnt, close, Len(close))
  BY DEF Laid
<1> DEFINE new == [k \in 0 .. L1 |-> pos[k + 1]]
           ofs == [k \in 0 .. L1 |-> off[k + 1]]
<1>2. /\ Len(close) \in Nat /\ Len(P) \in Nat /\ Len(D) \in Nat
      /\ MovedUp(new, pos, L1) /\ MovedUp(ofs, off, L1)
  BY DEF MovedUp
<1>3. Len(G) \in Nat /\ Sized(G, Len(G))
  BY GroupFields
<1> HIDE DEF new, ofs
<1>4. Lies(new, ofs, P, Len(P), D, Len(D), H, L1, p0, o0, cnt, close, Len(close))
  BY <1>1, <1>2, <1>3, FrontNext
<1> QED
  BY <1>4 DEF Laid

LEMMA LaidEnds ==
  ASSUME NEW P \in Seq(Int), NEW D \in Seq(Int), NEW G \in Seq(Group), NEW p0 \in Nat, NEW o0 \in Nat,
         NEW cnt \in Nat, NEW close \in Seq(Int), Laid(P, D, G, p0, o0, cnt, close),
         NEW H, NEW K \in Nat, Len(H) = K, Further(Len(G), K, 1), Stay(H, G, Len(G)),
         NEW w \in Nat, Ends(H, K, cnt, w, close),
         NEW rest, NEW m1 \in Nat, Len(rest) = m1, Further(m1, Len(close), w), Left(rest, close, Len(close), w)
  PROVE  Laid(P, D, H, p0, o0, 0, rest)
<1>1. PICK pos, off : Lies(pos, off, P, Len(P), D, Len(D), G, Len(G), p0, o0, cnt, close, Len(close))
  BY DEF Laid
<1> DEFINE new == [k \in 0 .. K |-> IF k = K THEN pos[Len(G)] + cnt + w ELSE pos[k]]
           ofs == [k \in 0 .. K |-> IF k = K THEN off[Len(G)] + cnt ELSE off[k]]
<1>2. Len(G) \in Nat /\ Sized(G, Len(G))
  BY GroupFields
<1>3. K = Len(G) + 1
  BY DEF Further
<1>4. \A k \in 0 .. Len(G) : k \in 0 .. K /\ k # K
  BY <1>2, <1>3
<1>5. Len(close) \in Nat /\ Len(P) \in Nat /\ Len(D) \in Nat /\ K \in 0 .. K
  OBVIOUS
<1>6. /\ new[K] = pos[Len(G)] + cnt + w /\ ofs[K] = off[Len(G)] + cnt
      /\ StayTo(new, pos, Len(G)) /\ StayTo(ofs, off, Len(G))
  BY <1>4, <1>5 DEF StayTo
<1> HIDE DEF new, ofs
<1>7. Lies(new, ofs, P, Len(P), D, Len(D), H, K, p0, o0, 0, rest, m1)
  BY <1>1, <1>2, <1>5, <1>6, OpenEnds
<1> QED
  BY <1>7 DEF Laid

LEMMA LaidGrows ==
  ASSUME NEW P \in Seq(Int), NEW D \in Seq(Int), NEW G \in Seq(Group), NEW p0 \in Nat, NEW o0 \in Nat,
         NEW cnt \in Nat, NEW close \in Seq(Int), Laid(P, D, G, p0, o0, cnt, close),
         NEW E, NEW d1 \in Nat, Len(E) = d1, Further(Len(D), d1, 1), Stay(E, D, Len(D)), Gets(E, d1, close),
         NEW rest, NEW m1 \in Nat, Len(rest) = m1, Further(m1, Len(close), 1), Left(rest, close, Len(close), 1),
         NEW c1 \in Nat, Further(cnt, c1, 1)
  PROVE  Laid(P, E, G, p0, o0, c1, rest)
<1>1. PICK pos, off : Lies(pos, off, P, Len(P), D, Len(D), G, Len(G), p0, o0, cnt, close, Len(close))
  BY DEF Laid
<1>2. Len(close) \in Nat /\ Len(P) \in Nat /\ Len(D) \in Nat
  OBVIOUS
<1>3. Len(G) \in Nat /\ Sized(G, Len(G))
  BY GroupFields
<1>4. Lies(pos, off, P, Len(P), E, d1, G, Len(G), p0, o0, c1, rest, m1)
  BY <1>1, <1>2, <1>3, OpenGrows
<1> QED
  BY <1>4 DEF Laid

LEMMA LaidMore ==
  ASSUME NEW P \in Seq(Int), NEW D \in Seq(Int), NEW G \in Seq(Group), NEW p0 \in Nat, NEW o0 \in Nat,
         NEW cnt \in Nat, NEW close \in Seq(Int), Laid(P, D, G, p0, o0, cnt, close), NEW new \in Seq(Int)
  PROVE  Laid(P \o new, D, G, p0, o0, cnt, close \o new)
<1>1. PICK pos, off : Lies(pos, off, P, Len(P), D, Len(D), G, Len(G), p0, o0, cnt, close, Len(close))
  BY DEF Laid
<1> DEFINE Q == P \o new
           more == close \o new
           x == Len(new)
           p1 == Len(Q)
           m1 == Len(more)
<1>2. /\ Len(close) \in Nat /\ Len(P) \in Nat /\ Len(D) \in Nat /\ x \in Nat
      /\ p1 \in Nat /\ m1 \in Nat /\ p1 = Len(P) + x /\ m1 = Len(close) + x
  OBVIOUS
<1>3. Stay(Q, P, Len(P)) /\ Stay(more, close, Len(close))
  BY DEF Stay
<1>4. Copied(Q, Len(P), more, Len(close), x)
  <2>1. ASSUME NEW i \in 1 .. x PROVE Q[Len(P) + i] = more[Len(close) + i]
    <3>1. Q[Len(P) + i] = new[i]
      OBVIOUS
    <3>2. more[Len(close) + i] = new[i]
      OBVIOUS
    <3> QED
      BY <3>1, <3>2
  <2> QED
    BY <2>1 DEF Copied
<1>5. Len(G) \in Nat /\ Sized(G, Len(G))
  BY GroupFields
<1>6. Further(Len(P), p1, x) /\ Further(Len(close), m1, x)
  BY <1>2 DEF Further
<1> HIDE DEF Q, more, x, p1, m1
<1>7. Lies(pos, off, Q, p1, D, Len(D), G, Len(G), p0, o0, cnt, more, m1)
  BY <1>1, <1>2, <1>3, <1>4, <1>5, <1>6, CloseGrows
<1> QED
  BY <1>7 DEF Laid, Q, more, p1, m1

-----------------------------------------------------------------------------
\* What a decoder adds at the end of a finished group.
GlueOf(group) ==
  IF group.last THEN <<End>> ELSE IF group.n = MaxGroup THEN << >> ELSE <<delimiter>>

GroupLen == [n : 0 .. MaxGroup, last : BOOLEAN]

\* The group that is being sent, and those whose length is in the FIFO.
GroupsOf(first, ls) ==
  [k \in 1 .. Len(ls) + 1 |-> IF k = 1 THEN first ELSE [n |-> ls[k - 1].n, glue |-> GlueOf(ls[k - 1])]]

LEMMA MaxGroupRange == MaxGroup \in Nat /\ MaxGroup >= 2 /\ MaxGroup + 2 = ByteMod /\ ByteMod \in Nat
  BY ByteAssumption DEF MaxGroup

LEMMA GlueIs ==
  ASSUME NEW group \in GroupLen
  PROVE  /\ group.n \in Nat /\ group.n \in 0 .. MaxGroup /\ group.last \in BOOLEAN
         /\ GlueOf(group) \in Seq(Int)
  BY MaxGroupRange DEF GroupLen, GlueOf, End, delimiter

LEMMA GroupsAre ==
  ASSUME NEW first \in Group, NEW ls \in Seq(GroupLen)
  PROVE  /\ GroupsOf(first, ls) \in Seq(Group)
         /\ Len(GroupsOf(first, ls)) = Len(ls) + 1
         /\ GroupsOf(first, ls)[1] = first
         /\ \A k \in 1 .. Len(ls) :
              GroupsOf(first, ls)[k + 1] = [n |-> ls[k].n, glue |-> GlueOf(ls[k])]
<1>1. ASSUME NEW k \in 1 .. Len(ls) PROVE [n |-> ls[k].n, glue |-> GlueOf(ls[k])] \in Group
  <2>1. ls[k] \in GroupLen
    OBVIOUS
  <2> QED
    BY <2>1, GlueIs DEF Group
<1>2. \A k \in 1 .. Len(ls) + 1 : k = 1 \/ k - 1 \in 1 .. Len(ls)
  OBVIOUS
<1>3. GroupsOf(first, ls) \in [1 .. Len(ls) + 1 -> Group]
  BY <1>1, <1>2 DEF GroupsOf
<1>4. Len(ls) + 1 \in Nat
  OBVIOUS
<1>5. GroupsOf(first, ls) \in Seq(Group) /\ Len(GroupsOf(first, ls)) = Len(ls) + 1
  BY <1>3, <1>4
<1>6. GroupsOf(first, ls)[1] = first
  BY <1>4 DEF GroupsOf
<1>7. ASSUME NEW k \in 1 .. Len(ls)
      PROVE  GroupsOf(first, ls)[k + 1] = [n |-> ls[k].n, glue |-> GlueOf(ls[k])]
  <2>1. k + 1 \in 1 .. Len(ls) + 1 /\ k + 1 # 1 /\ (k + 1) - 1 = k
    OBVIOUS
  <2> QED
    BY <2>1 DEF GroupsOf
<1> QED
  BY <1>5, <1>6, <1>7

LEMMA GroupIs ==
  ASSUME NEW n \in Nat, NEW glue \in Seq(Int)
  PROVE  /\ [n |-> n, glue |-> glue] \in Group
         /\ Size([n |-> n, glue |-> glue]) = n
         /\ Glue([n |-> n, glue |-> glue]) = glue
         /\ Wide([n |-> n, glue |-> glue]) = Len(glue)
  BY DEF Group, Size, Glue, Wide

\* A data byte is sent.
LEMMA OutByte ==
  ASSUME NEW P \in Seq(Int), NEW D \in Seq(Int), NEW ls \in Seq(GroupLen), NEW n \in Nat, NEW glue \in Seq(Int),
         NEW cnt \in Nat, NEW close \in Seq(Int),
         Laid(P, D, GroupsOf([n |-> n + 1, glue |-> glue], ls), 0, 0, cnt, close)
  PROVE  /\ D # << >> /\ Len(P) >= 1 /\ P[1] = Head(D)
         /\ Laid(P, Tail(D), GroupsOf([n |-> n, glue |-> glue], ls), 1, 0, cnt, close)
<1> DEFINE f == [n |-> n + 1, glue |-> glue]
           g == [n |-> n, glue |-> glue]
           G == GroupsOf(f, ls)
           H == GroupsOf(g, ls)
<1>1. n + 1 \in Nat
  OBVIOUS
<1>2. f \in Group /\ Size(f) = n + 1 /\ Glue(f) = glue /\ Wide(f) = Len(glue)
  BY <1>1, GroupIs
<1>3. g \in Group /\ Size(g) = n /\ Glue(g) = glue /\ Wide(g) = Len(glue)
  BY GroupIs
<1> HIDE DEF f, g
<1>4. /\ G \in Seq(Group) /\ Len(G) = Len(ls) + 1 /\ G[1] = f
      /\ \A k \in 1 .. Len(ls) : G[k + 1] = [n |-> ls[k].n, glue |-> GlueOf(ls[k])]
  BY <1>2, GroupsAre
<1>5. /\ H \in Seq(Group) /\ Len(H) = Len(ls) + 1 /\ H[1] = g
      /\ \A k \in 1 .. Len(ls) : H[k + 1] = [n |-> ls[k].n, glue |-> GlueOf(ls[k])]
  BY <1>3, GroupsAre
<1>6. Laid(P, D, G, 0, 0, cnt, close)
  BY DEF f
<1> HIDE DEF G, H
<1>7. Len(G) >= 1 /\ Len(H) = Len(G) /\ Len(ls) \in Nat
  BY <1>4, <1>5
<1>8. Lead(P, Len(P), D, Len(D), G, 0, 0)
  BY <1>4, <1>6, <1>7, LaidLead
<1>9. n + 1 <= Len(D) /\ n + 1 + Len(glue) <= Len(P) /\ Copied(P, 0, D, 0, n + 1)
  BY <1>2, <1>4, <1>8 DEF Lead
<1>10. Len(D) \in Nat /\ Len(D) >= 1 /\ Len(P) >= 1
  BY <1>9, SMTT(30)
<1>11. P[1] = D[1]
  <2>1. 1 \in 1 .. n + 1 /\ 0 + 1 = 1
    OBVIOUS
  <2>2. P[0 + 1] = D[0 + 1]
    BY <1>9, <2>1 DEF Copied
  <2> QED
    BY <2>1, <2>2
<1>12. Behind(H, G, Len(G))
  <2>1. ASSUME NEW k \in 2 .. Len(G) PROVE H[k] = G[k]
    <3>1. k - 1 \in 1 .. Len(ls) /\ (k - 1) + 1 = k
      BY <1>4, <1>7
    <3> QED
      BY <1>4, <1>5, <3>1
  <2> QED
    BY <2>1 DEF Behind
<1>13. LessByte(H, G)
  BY <1>2, <1>3, <1>4, <1>5 DEF LessByte
<1>14. Further(0, 1, 1)
  BY DEF Further
<1>15. Laid(P, D, H, 1, 1, cnt, close)
  BY <1>4, <1>6, <1>7, <1>12, <1>13, <1>14, LaidByte
<1>16. D # << >> /\ Tail(D) \in Seq(Int) /\ Head(D) = D[1] /\ Len(Tail(D)) = Len(D) - 1
  BY <1>10
<1>17. Left(Tail(D), D, Len(D), 1)
  <2>1. ASSUME NEW i \in 1 .. Len(D) - 1 PROVE Tail(D)[i] = D[i + 1]
    BY <1>10
  <2> QED
    BY <2>1 DEF Left
<1>18. Left(P, P, Len(P), 0) /\ Len(P) = Len(P) - 0
  BY DEF Left
<1>19. Further(1, 1, 0) /\ Further(0, 1, 1) /\ 1 \in Nat /\ 0 \in Nat /\ 0 <= 1 /\ 1 <= 1
  BY DEF Further
<1>20. Laid(P, Tail(D), H, 1, 0, cnt, close)
  BY <1>5, <1>15, <1>16, <1>17, <1>18, <1>19, LaidDrop
<1> QED
  BY <1>10, <1>11, <1>16, <1>20 DEF H, g

\* A code byte, or the delimiter, is sent: the front group's glue goes.
LEMMA OutGlue ==
  ASSUME NEW P \in Seq(Int), NEW D \in Seq(Int), NEW ls \in Seq(GroupLen), NEW glue \in Seq(Int),
         NEW cnt \in Nat, NEW close \in Seq(Int),
         Laid(P, D, GroupsOf([n |-> 0, glue |-> glue], ls), 0, 0, cnt, close)
  PROVE  /\ IsPrefix(glue, P)
         /\ Laid(P, D, GroupsOf([n |-> 0, glue |-> << >>], ls), Len(glue), 0, cnt, close)
<1> DEFINE f == [n |-> 0, glue |-> glue]
           g == [n |-> 0, glue |-> << >>]
           G == GroupsOf(f, ls)
           H == GroupsOf(g, ls)
           w == Len(glue)
<1>1. << >> \in Seq(Int) /\ Len(<< >>) = 0 /\ w \in Nat
  OBVIOUS
<1>2. f \in Group /\ Size(f) = 0 /\ Glue(f) = glue /\ Wide(f) = w
  BY GroupIs
<1>3. g \in Group /\ Size(g) = 0 /\ Wide(g) = 0
  BY <1>1, GroupIs
<1> HIDE DEF f, g
<1>4. /\ G \in Seq(Group) /\ Len(G) = Len(ls) + 1 /\ G[1] = f
      /\ \A k \in 1 .. Len(ls) : G[k + 1] = [n |-> ls[k].n, glue |-> GlueOf(ls[k])]
  BY <1>2, GroupsAre
<1>5. /\ H \in Seq(Group) /\ Len(H) = Len(ls) + 1 /\ H[1] = g
      /\ \A k \in 1 .. Len(ls) : H[k + 1] = [n |-> ls[k].n, glue |-> GlueOf(ls[k])]
  BY <1>3, GroupsAre
<1>6. Laid(P, D, G, 0, 0, cnt, close)
  BY DEF f
<1> HIDE DEF G, H, w
<1>7. Len(G) >= 1 /\ Len(H) = Len(G) /\ Len(ls) \in Nat
  BY <1>4, <1>5
<1>8. Lead(P, Len(P), D, Len(D), G, 0, 0)
  BY <1>4, <1>6, <1>7, LaidLead
<1>9. w <= Len(P) /\ Copied(P, 0, glue, 0, w)
  BY <1>1, <1>2, <1>4, <1>8 DEF Lead
<1>10. IsPrefix(glue, P)
  <2>1. \A i \in 1 .. w : P[0 + i] = glue[0 + i]
    BY <1>9 DEF Copied
  <2>2. \A i \in 1 .. w : P[i] = glue[i]
    BY <1>1, <2>1
  <2>3. SubSeq(glue, 1, w) = [i \in 1 .. w |-> glue[i]]
    BY <1>1 DEF w
  <2>4. SubSeq(P, 1, w) = [i \in 1 .. w |-> P[i]]
    BY <1>1, <1>9
  <2> QED
    BY <1>9, <2>2, <2>3, <2>4 DEF IsPrefix, w
<1>11. Behind(H, G, Len(G))
  <2>1. ASSUME NEW k \in 2 .. Len(G) PROVE H[k] = G[k]
    <3>1. k - 1 \in 1 .. Len(ls) /\ (k - 1) + 1 = k
      BY <1>4, <1>7
    <3> QED
      BY <1>4, <1>5, <3>1
  <2> QED
    BY <2>1 DEF Behind
<1>12. LessGlue(H, G, w)
  BY <1>2, <1>3, <1>4, <1>5 DEF LessGlue
<1>13. Further(0, w, w)
  BY <1>1 DEF Further
<1>14. Laid(P, D, H, w, 0, cnt, close)
  BY <1>1, <1>4, <1>6, <1>7, <1>11, <1>12, <1>13, LaidGlue
<1> QED
  BY <1>10, <1>14 DEF H, g, w

\* The next group comes to the front.
LEMMA OutNext ==
  ASSUME NEW P \in Seq(Int), NEW D \in Seq(Int), NEW ls \in Seq(GroupLen), ls # << >>, NEW p0 \in Nat,
         NEW cnt \in Nat, NEW close \in Seq(Int),
         Laid(P, D, GroupsOf([n |-> 0, glue |-> << >>], ls), p0, 0, cnt, close)
  PROVE  Laid(P, D, GroupsOf([n |-> Head(ls).n, glue |-> GlueOf(Head(ls))], Tail(ls)), p0, 0, cnt, close)
<1> DEFINE f == [n |-> 0, glue |-> << >>]
           g == [n |-> Head(ls).n, glue |-> GlueOf(Head(ls))]
           G == GroupsOf(f, ls)
           H == GroupsOf(g, Tail(ls))
           L1 == Len(ls)
<1>1. << >> \in Seq(Int) /\ Len(<< >>) = 0
  OBVIOUS
<1>2. f \in Group /\ Size(f) = 0 /\ Wide(f) = 0
  BY <1>1, GroupIs
<1>3. /\ Tail(ls) \in Seq(GroupLen) /\ Head(ls) \in GroupLen /\ Head(ls) = ls[1] /\ L1 \in Nat /\ L1 >= 1
      /\ Len(Tail(ls)) = L1 - 1 /\ \A k \in 1 .. L1 - 1 : Tail(ls)[k] = ls[k + 1]
  OBVIOUS
<1>4. g \in Group
  BY <1>3, GlueIs, GroupIs
<1>5. /\ G \in Seq(Group) /\ Len(G) = L1 + 1 /\ G[1] = f
      /\ \A k \in 1 .. L1 : G[k + 1] = [n |-> ls[k].n, glue |-> GlueOf(ls[k])]
  BY <1>2, GroupsAre
<1>6. /\ H \in Seq(Group) /\ Len(H) = Len(Tail(ls)) + 1 /\ H[1] = g
      /\ \A k \in 1 .. Len(Tail(ls)) : H[k + 1] = [n |-> Tail(ls)[k].n, glue |-> GlueOf(Tail(ls)[k])]
  BY <1>3, <1>4, GroupsAre
<1>7. Laid(P, D, G, p0, 0, cnt, close)
  OBVIOUS
<1>8. g = [n |-> ls[1].n, glue |-> GlueOf(ls[1])]
  BY <1>3
<1> HIDE DEF f, g, G, H, L1
<1>9. Len(H) = L1
  BY <1>3, <1>6
<1>10. Left(H, G, Len(G), 1)
  <2>1. ASSUME NEW i \in 1 .. Len(G) - 1 PROVE H[i] = G[i + 1]
    <3>1. i \in 1 .. L1 /\ G[i + 1] = [n |-> ls[i].n, glue |-> GlueOf(ls[i])]
      BY <1>3, <1>5
    <3>2. CASE i = 1
      BY <1>6, <1>8, <3>1, <3>2
    <3>3. CASE i # 1
      <4>1. i - 1 \in 1 .. L1 - 1 /\ (i - 1) + 1 = i
        BY <1>3, <3>1, <3>3, SMTT(30)
      <4>2. H[(i - 1) + 1] = [n |-> Tail(ls)[i - 1].n, glue |-> GlueOf(Tail(ls)[i - 1])]
        BY <1>3, <1>6, <4>1
      <4>3. Tail(ls)[i - 1] = ls[i]
        BY <1>3, <4>1
      <4> QED
        BY <3>1, <4>1, <4>2, <4>3
    <3> QED
      BY <3>2, <3>3
  <2> QED
    BY <2>1 DEF Left
<1>11. LessGlue(G, G, 0)
  BY <1>2, <1>5 DEF LessGlue
<1>12. Further(L1, Len(G), 1)
  BY <1>5 DEF Further
<1>13. Laid(P, D, H, p0, 0, cnt, close)
  BY <1>3, <1>5, <1>7, <1>9, <1>10, <1>11, <1>12, LaidNext
<1> QED
  BY <1>13 DEF H, g

\* A byte is put into the FIFO of data.
LEMMA InByte ==
  ASSUME NEW P \in Seq(Int), NEW D \in Seq(Int), NEW G \in Seq(Group), NEW p0 \in Nat, NEW cnt \in Nat,
         NEW b \in Int, NEW rest \in Seq(Int), NEW close, close = <<b>> \o rest,
         Laid(P, D, G, p0, 0, cnt, close)
  PROVE  Laid(P, Append(D, b), G, p0, 0, cnt + 1, rest)
<1> DEFINE E == Append(D, b)
           d1 == Len(D) + 1
           m1 == Len(rest)
           c1 == cnt + 1
<1>1. /\ close \in Seq(Int) /\ Len(close) = m1 + 1 /\ m1 \in Nat /\ close[1] = b
      /\ \A i \in 1 .. m1 : rest[i] = close[i + 1]
  OBVIOUS
<1>2. /\ E \in Seq(Int) /\ d1 \in Nat /\ Len(E) = d1 /\ E[d1] = b
      /\ \A i \in 1 .. Len(D) : E[i] = D[i]
  OBVIOUS
<1>3. c1 \in Nat /\ Further(cnt, c1, 1) /\ Further(Len(D), d1, 1)
  BY DEF Further
<1>4. Gets(E, d1, close) /\ Stay(E, D, Len(D))
  BY <1>1, <1>2 DEF Gets, Stay
<1>5. Further(m1, Len(close), 1)
  BY <1>1 DEF Further
<1>6. Left(rest, close, Len(close), 1)
  BY <1>1 DEF Left
<1>8. Len(rest) = m1 /\ 0 \in Nat
  OBVIOUS
<1> HIDE DEF E, d1, m1, c1
<1>7. Laid(P, E, G, p0, 0, c1, rest)
  BY <1>1, <1>2, <1>3, <1>4, <1>5, <1>6, <1>8, LaidGrows
<1> QED
  BY <1>7 DEF E, c1

\* The length of the group is put into the FIFO of lengths.
LEMMA InEnds ==
  ASSUME NEW P \in Seq(Int), NEW D \in Seq(Int), NEW first \in Group, NEW ls \in Seq(GroupLen),
         NEW p0 \in Nat, NEW x \in GroupLen, NEW rest \in Seq(Int), NEW close, close = GlueOf(x) \o rest,
         Laid(P, D, GroupsOf(first, ls), p0, 0, x.n, close)
  PROVE  Laid(P, D, GroupsOf(first, Append(ls, x)), p0, 0, 0, rest)
<1> DEFINE glue == GlueOf(x)
           cnt == x.n
           w == Len(glue)
           y == [n |-> cnt, glue |-> glue]
           more == Append(ls, x)
           G == GroupsOf(first, ls)
           H == GroupsOf(first, more)
           L == Len(ls)
           K == L + 2
           m1 == Len(rest)
<1>1. glue \in Seq(Int) /\ cnt \in Nat /\ w \in Nat /\ L \in Nat /\ K \in Nat /\ m1 \in Nat /\ Len(rest) = m1
  BY GlueIs
<1>2. Laid(P, D, G, p0, 0, cnt, close)
  OBVIOUS
<1>3. /\ close = glue \o rest /\ Len(glue) = w
      /\ more \in Seq(GroupLen) /\ Len(more) = L + 1 /\ more[L + 1] = x
      /\ \A k \in 1 .. L : more[k] = ls[k]
  OBVIOUS
<1>4. y \in Group /\ Size(y) = cnt /\ Glue(y) = glue /\ Wide(y) = w
  BY <1>1, GroupIs
<1>5. /\ G \in Seq(Group) /\ Len(G) = L + 1 /\ G[1] = first
      /\ \A k \in 1 .. L : G[k + 1] = [n |-> ls[k].n, glue |-> GlueOf(ls[k])]
  BY GroupsAre
<1>6. /\ H \in Seq(Group) /\ Len(H) = Len(more) + 1 /\ H[1] = first
      /\ \A k \in 1 .. Len(more) : H[k + 1] = [n |-> more[k].n, glue |-> GlueOf(more[k])]
  BY <1>3, GroupsAre
<1>7. y = [n |-> x.n, glue |-> GlueOf(x)] /\ K = L + 2
  OBVIOUS
<1> HIDE DEF glue, cnt, w, y, more, G, H, L, K, m1
<1>8. Len(H) = K /\ H[K] = y
  <2>1. L + 1 \in 1 .. Len(more) /\ (L + 1) + 1 = K
    BY <1>1, <1>3, <1>7
  <2>2. H[(L + 1) + 1] = [n |-> more[L + 1].n, glue |-> GlueOf(more[L + 1])]
    BY <1>6, <2>1
  <2> QED
    BY <1>1, <1>3, <1>6, <1>7, <2>1, <2>2
<1>9. Stay(H, G, Len(G))
  <2>1. ASSUME NEW k \in 1 .. L + 1 PROVE H[k] = G[k]
    <3>1. CASE k = 1
      BY <1>5, <1>6, <3>1
    <3>2. CASE k # 1
      <4>1. k - 1 \in 1 .. L /\ k - 1 \in 1 .. Len(more) /\ (k - 1) + 1 = k
        BY <1>1, <1>3, <3>2
      <4>2. more[k - 1] = ls[k - 1]
        BY <1>3, <4>1
      <4>3. H[(k - 1) + 1] = [n |-> more[k - 1].n, glue |-> GlueOf(more[k - 1])]
        BY <1>6, <4>1
      <4>4. G[(k - 1) + 1] = [n |-> ls[k - 1].n, glue |-> GlueOf(ls[k - 1])]
        BY <1>5, <4>1
      <4> QED
        BY <4>1, <4>2, <4>3, <4>4
    <3> QED
      BY <3>1, <3>2
  <2> QED
    BY <1>5, <2>1 DEF Stay
<1>10. Further(Len(G), K, 1)
  BY <1>1, <1>5, <1>7 DEF Further
<1>11. /\ close \in Seq(Int) /\ Len(close) = w + m1
       /\ \A i \in 1 .. m1 : close[i + w] = rest[i]
  <2>3. rest \in Seq(Int) /\ glue \in Seq(Int)
    BY <1>1
  <2>1. glue \o rest \in Seq(Int) /\ Len(glue \o rest) = Len(glue) + Len(rest)
    BY <2>3, ConcatProperties
  <2>2. ASSUME NEW i \in 1 .. Len(rest) PROVE (glue \o rest)[i + Len(glue)] = rest[i]
    BY <1>1
  <2> QED
    BY <1>1, <1>3, <2>1, <2>2
<1>12. Ends(H, K, cnt, w, close)
  <2>1. ASSUME NEW i \in 1 .. w PROVE close[0 + i] = glue[0 + i]
    BY <1>1, <1>3
  <2> QED
    BY <1>4, <1>8, <2>1 DEF Ends, Copied
<1>13. Left(rest, close, Len(close), w)
  <2>1. \A i \in 1 .. m1 : rest[i] = close[i + w]
    BY <1>11
  <2>2. Len(close) - w = m1
    BY <1>1, <1>11
  <2> QED
    BY <2>1, <2>2 DEF Left
<1>14. Further(m1, Len(close), w)
  BY <1>1, <1>11 DEF Further
<1>16. 0 \in Nat
  OBVIOUS
<1>15. Laid(P, D, H, p0, 0, 0, rest)
  BY <1>1, <1>2, <1>5, <1>8, <1>9, <1>10, <1>11, <1>12, <1>13, <1>14, <1>16, LaidEnds
<1> QED
  BY <1>15 DEF H, more

\* The host gets the first g bytes that are to come.
LEMMA PendGoes ==
  ASSUME NEW P \in Seq(Int), NEW D \in Seq(Int), NEW G \in Seq(Group), NEW cnt \in Nat,
         NEW close \in Seq(Int), NEW p0 \in Nat, NEW g \in 0 .. p0, p0 <= Len(P),
         Laid(P, D, G, p0, 0, cnt, close)
  PROVE  /\ SubSeq(P, 1 + g, Len(P)) \in Seq(Int)
         /\ Laid(SubSeq(P, 1 + g, Len(P)), D, G, p0 - g, 0, cnt, close)
<1> DEFINE Q == SubSeq(P, 1 + g, Len(P))
           p1 == p0 - g
<1>1. Len(P) \in Nat /\ 1 + g >= 1 /\ g \in Nat /\ g <= p0 /\ p1 \in Nat /\ 0 <= 0 /\ 0 \in Nat
  OBVIOUS
<1>2. /\ Q \in Seq(Int) /\ Len(Q) = Len(P) - g
      /\ \A i \in 1 .. Len(P) - g : Q[i] = P[i + g]
  <2>1. Len(Q) = Len(P) - g
    BY <1>1
  <2>2. ASSUME NEW i \in 1 .. Len(P) - g PROVE Q[i] = P[i + g]
    <3>1. Q[i] = P[(1 + g) + i - 1] /\ (1 + g) + i - 1 = i + g
      BY <1>1
    <3> QED
      BY <3>1
  <2>3. Q \in Seq(Int)
    BY <1>1
  <2> QED
    BY <2>1, <2>2, <2>3
<1>3. Left(Q, P, Len(P), g)
  BY <1>2 DEF Left
<1>4. Left(D, D, Len(D), 0) /\ Len(D) = Len(D) - 0
  BY DEF Left
<1>5. Further(p1, p0, g) /\ Further(0, 0, 0)
  BY <1>1 DEF Further
<1> HIDE DEF Q, p1
<1>6. Laid(Q, D, G, p1, 0, cnt, close)
  BY <1>1, <1>2, <1>3, <1>4, <1>5, LaidDrop
<1> QED
  BY <1>2, <1>6 DEF Q, p1

-----------------------------------------------------------------------------
\* The host's decoder, in any state: what a byte decodes to, and what is next.
Decoded(left, code, b) ==
  IF b = delimiter THEN <<End>>
  ELSE IF left > 0 THEN <<b>>
  ELSE IF code \in {0, MaxGroup + 1} THEN << >>
  ELSE <<delimiter>>

LeftAfter(left, b) == IF b = delimiter THEN 0 ELSE IF left > 0 THEN left - 1 ELSE b - 1
CodeAfter(left, code, b) == IF b = delimiter THEN 0 ELSE IF left > 0 THEN code ELSE b

\* The decoder once it has the byte that SuperFramer holds back.
NextLeft == IF sf.valid THEN LeftAfter(dec.left, sf.data) ELSE dec.left
NextCode == IF sf.valid THEN CodeAfter(dec.left, dec.code, sf.data) ELSE dec.code

\* What that byte will decode to.
Held == IF sf.valid THEN Len(Decoded(dec.left, dec.code, sf.data)) ELSE 0

\* What is left of the group that is being sent.
GlueNow(ending, code) ==
  IF ending THEN <<End>> ELSE IF code \in {0, MaxGroup + 1} THEN << >> ELSE <<delimiter>>

Ending(c, d) == d = "DELIMITER" \/ (c.state = "DATA" /\ c.last)
Count(c) == IF c.state = "DATA" THEN c.cnt + 1 ELSE 0

First(c, d, code) == [n |-> Count(c), glue |-> GlueNow(Ending(c, d), code)]

\* What is to come behind the group that is open.
Closing(g, c) ==
  IF g.last THEN <<End>> ELSE IF c.state = "CHECKSUM" THEN <<c.checksum, End>> ELSE << >>

FlowTyped ==
  /\ ca \in [state : {"DATA", "CHECKSUM"}, checksum : Byte]
  /\ gs \in [cnt : 0 .. MaxGroup, last : BOOLEAN]
  /\ fifo_len \in Seq(GroupLen) /\ Len(fifo_len) <= FifoDepth
  /\ fifo_data \in Seq(Byte \ {delimiter}) /\ Len(fifo_data) <= FifoDepth
  /\ gc \in [state : {"HEADER", "DATA"}, cnt : Byte, last : BOOLEAN]
  /\ da \in {"DATA", "DELIMITER"}
  /\ sf \in [data : Byte, last : BOOLEAN, valid : BOOLEAN, flush : BOOLEAN,
             interval_cnt : 0 .. Interval, byte_cnt : 0 .. Threshold]
  /\ sum \in Byte

FlowKept ==
  /\ gs.last => ca.state = "DATA"
  /\ ca.state = "CHECKSUM" => sum = 0
  /\ ca.state = "DATA" => ca.checksum = (0 - sum) % ByteMod
  /\ gc.state = "DATA" => da = "DATA" /\ gc.cnt < MaxGroup
  /\ sf.last => sf.data = delimiter

FlowSteady == FlowTyped /\ FlowKept

\* The decoder is where the groups are, and what is to come is laid out in them.
FlowLaid ==
  /\ pend \in Seq(Int)
  /\ dec.left \in Nat /\ dec.code \in 0 .. MaxGroup + 1 /\ dec.good
  /\ NextLeft = Count(gc)
  /\ NextCode \in 0 .. MaxGroup + 1 /\ (gc.state = "DATA" => NextCode # 0)
  /\ sf.valid => /\ IsPrefix(Decoded(dec.left, dec.code, sf.data), pend)
                 /\ sf.data = delimiter => dec.left = 0
  /\ Laid(pend, fifo_data, GroupsOf(First(gc, da, NextCode), fifo_len), Held, 0, gs.cnt, Closing(gs, ca))

FlowInv == FlowSteady /\ FlowLaid

LEMMA FlowRange ==
  /\ ByteMod \in Nat /\ ByteMod > 3 /\ Byte = 0 .. ByteMod - 1 /\ MaxGroup = ByteMod - 2
  /\ delimiter = 0 /\ FifoDepth = ByteMod /\ End = -1 /\ Data \subseteq Byte
  /\ Interval \in Nat /\ Interval >= 1 /\ Threshold \in Nat /\ Threshold >= 1
<1>1. ByteMod \in Nat /\ ByteMod > 3 /\ Data \subseteq Byte
  BY ByteAssumption DEF Byte
<1>2. Interval \in Nat /\ Interval >= 1 /\ Threshold \in Nat /\ Threshold >= 1
  BY FramerAssumption
<1>3. Byte = 0 .. ByteMod - 1 /\ MaxGroup = ByteMod - 2 /\ delimiter = 0 /\ FifoDepth = ByteMod
  BY DEF Byte, MaxGroup, delimiter, FifoDepth
<1>4. End = -1
  BY DEF End
<1> QED
  BY <1>1, <1>2, <1>3, <1>4

LEMMA InputIs ==
  ASSUME NEW in \in FlowInputs
  PROVE  in.valid \in BOOLEAN /\ in.data \in Byte /\ in.last \in BOOLEAN /\ in.ready \in BOOLEAN
<1>1. 0 \in Byte /\ Data \subseteq Byte /\ (taken < MaxBytes) \in BOOLEAN
  BY FlowRange
<1>2. CASE in \in [valid : {taken < MaxBytes}, data : Data, last : BOOLEAN, ready : BOOLEAN]
  BY <1>1, <1>2
<1>3. CASE in \in [valid : {FALSE}, data : {0}, last : {FALSE}, ready : BOOLEAN]
  BY <1>1, <1>3
<1> QED
  BY <1>2, <1>3 DEF FlowInputs

LEMMA FlowDecodedIs == \A b : FlowDecoded(b) = Decoded(dec.left, dec.code, b)
  BY DEF FlowDecoded, Decoded

LEMMA ByteMods ==
  ASSUME NEW x \in Int
  PROVE  x % ByteMod \in Byte
  BY FlowRange

\* The bytes SplitterTakes can take.
LEMMA ChecksumOutIs ==
  ASSUME FlowTyped, NEW in \in FlowInputs
  PROVE  /\ ChecksumOut(in).valid \in BOOLEAN /\ ChecksumOut(in).data \in Byte /\ ChecksumOut(in).last \in BOOLEAN
         /\ ca.state = "DATA" => ChecksumOut(in).data = in.data /\ ~ChecksumOut(in).last
                                 /\ ChecksumOut(in).valid = in.valid
         /\ ca.state = "CHECKSUM" => ChecksumOut(in).data = ca.checksum /\ ChecksumOut(in).last
                                     /\ ChecksumOut(in).valid
  BY InputIs DEF FlowTyped, ChecksumOut

LEMMA FlowInputEnd ==
  ASSUME FlowSteady, NEW in \in FlowInputs, ChecksumStep(in), SplitterStep(in), PendStep(in)
  PROVE  /\ ca' \in [state : {"DATA", "CHECKSUM"}, checksum : Byte]
         /\ gs' \in [cnt : 0 .. MaxGroup, last : BOOLEAN]
         /\ sum' \in Byte
         /\ gs'.last => ca'.state = "DATA"
         /\ ca'.state = "CHECKSUM" => sum' = 0
         /\ ca'.state = "DATA" => ca'.checksum = (0 - sum') % ByteMod
<1>1. in.valid \in BOOLEAN /\ in.data \in Byte /\ in.last \in BOOLEAN
  BY InputIs
<1>2. /\ ca.state \in {"DATA", "CHECKSUM"} /\ ca.checksum \in Byte /\ ca = [state |-> ca.state, checksum |-> ca.checksum]
      /\ gs.cnt \in 0 .. MaxGroup /\ gs.last \in BOOLEAN /\ sum \in Byte
      /\ gs.last => ca.state = "DATA"
      /\ ca.state = "CHECKSUM" => sum = 0
      /\ ca.state = "DATA" => ca.checksum = (0 - sum) % ByteMod
  BY DEF FlowSteady, FlowTyped, FlowKept
<1>3. FlowTyped
  BY DEF FlowSteady
<1>4. (ca.checksum - in.data) % ByteMod \in Byte /\ (sum + in.data) % ByteMod \in Byte
  <2>1. ca.checksum - in.data \in Int /\ sum + in.data \in Int
    BY <1>1, <1>2, FlowRange
  <2> QED
    BY <2>1, ByteMods
<1>5. 0 \in Byte /\ (0 - 0) % ByteMod = 0
  <2>1. ByteMod >= 1 /\ ByteMod \in Nat /\ 0 - 0 = 0 /\ 0 \in Int
    BY FlowRange
  <2>2. 0 % ByteMod = 0
    BY <2>1, ModNear, FlowRange
  <2> QED
    BY <2>1, <2>2, FlowRange
<1>6. ca' \in [state : {"DATA", "CHECKSUM"}, checksum : Byte]
  BY <1>1, <1>2, <1>4, <1>5 DEF ChecksumStep
<1>7. gs'.last \in BOOLEAN /\ gs'.cnt \in 0 .. MaxGroup /\ gs' \in [cnt : 0 .. MaxGroup, last : BOOLEAN]
  <2>1. GroupByte(in) => gs.cnt < MaxGroup
    BY DEF GroupByte, SplitterTakes, SplitterReady
  <2>2. (GroupByte(in) => gs.cnt + 1 \in 0 .. MaxGroup) /\ 0 \in 0 .. MaxGroup
    BY <1>2, <2>1, MaxGroupRange
  <2>3. gs'.cnt \in 0 .. MaxGroup
    BY <1>2, <2>2 DEF SplitterStep
  <2>4. gs'.last \in BOOLEAN
    BY DEF SplitterStep
  <2>5. gs' = [cnt |-> gs'.cnt, last |-> gs'.last]
    BY DEF SplitterStep
  <2> QED
    BY <2>3, <2>4, <2>5
<1>8. sum' \in Byte
  BY <1>2, <1>4, <1>5 DEF PendStep
<1>9. gs'.last => ca'.state = "DATA"
  <2> SUFFICES ASSUME gs'.last PROVE ca'.state = "DATA"
    OBVIOUS
  <2>1. CASE SplitterTakes(in) /\ ChecksumOut(in).last
    <3>1. ca.state = "CHECKSUM" /\ SplitterReady
      BY <1>2, <1>3, <2>1, ChecksumOutIs DEF SplitterTakes
    <3> QED
      BY <3>1 DEF ChecksumStep
  <2>2. CASE gs.last
    <3>1. ca.state = "DATA" /\ ~TakesInput(in)
      BY <1>2, <2>2 DEF TakesInput, SplitterReady
    <3> QED
      BY <3>1 DEF ChecksumStep
  <2> QED
    BY <2>1, <2>2 DEF SplitterStep
<1>10. ca'.state = "CHECKSUM" => sum' = 0
  BY <1>2 DEF ChecksumStep, PendStep, TakesInput
<1>11. ca'.state = "DATA" => ca'.checksum = (0 - sum') % ByteMod
  <2> SUFFICES ASSUME ca'.state = "DATA" PROVE ca'.checksum = (0 - sum') % ByteMod
    OBVIOUS
  <2>1. CASE TakesInput(in)
    <3>1. ca.state = "DATA" /\ ~in.last
      BY <1>1, <2>1 DEF TakesInput, ChecksumStep
    <3>2. ca'.checksum = (ca.checksum - in.data) % ByteMod /\ sum' = (sum + in.data) % ByteMod
      BY <2>1, <3>1 DEF ChecksumStep, PendStep
    <3>3. ca'.checksum = (((0 - sum) % ByteMod) - in.data) % ByteMod
      BY <1>2, <3>1, <3>2
    <3> DEFINE d == in.data
               u == sum
               M == ByteMod
    <3>4. u \in Int /\ d \in Int /\ M \in Nat /\ M >= 1 /\ d \in 0 .. M - 1 /\ 0 \in Int
      BY <1>1, <1>2, FlowRange
    <3> HIDE DEF d, u, M
    <3>5. (((0 - u) % M) - d) % M = (0 - (u + d)) % M
      <4> DEFINE a == 0 - u
                 b == 0 - d
      <4>1. a \in Int /\ b \in Int
        BY <3>4
      <4>2. (a % M) \in Int
        BY <3>4, <4>1
      <4>4. (a % M) - d = (a % M) + b /\ a + b = 0 - (u + d)
        BY <3>4, <4>2
      <4> HIDE DEF a, b
      <4>3. ((a % M) + b) % M = (a + b) % M
        BY <3>4, <4>1, ModSum
      <4> QED
        BY <4>3, <4>4 DEF a
    <3>6. (0 - ((u + d) % M)) % M = (0 - (u + d)) % M
      <4>1. 0 \in Int /\ u + d \in Int /\ 0 \in 0 .. M - 1
        BY <3>4
      <4>2. ((0 % M) - ((u + d) % M)) % M = (0 - (u + d)) % M
        BY <3>4, <4>1, ModDiffBy
      <4>3. 0 % M = 0
        BY <3>4, ModNear
      <4> QED
        BY <4>2, <4>3
    <3> QED
      BY <3>2, <3>3, <3>5, <3>6 DEF d, u, M
  <2>2. CASE ~TakesInput(in)
    <3>1. sum' = sum
      BY <2>2 DEF PendStep
    <3>2. CASE ca.state = "DATA"
      BY <1>2, <2>2, <3>1, <3>2 DEF ChecksumStep
    <3>3. CASE ca.state = "CHECKSUM"
      <4>1. ca'.checksum = 0 /\ sum = 0
        BY <1>2, <3>3 DEF ChecksumStep
      <4> QED
        BY <1>5, <3>1, <4>1
    <3> QED
      BY <1>2, <3>2, <3>3
  <2> QED
    BY <2>1, <2>2
<1> QED
  BY <1>6, <1>7, <1>8, <1>9, <1>10, <1>11

-----------------------------------------------------------------------------
\* The code byte of a group is its length and one.
LEMMA HeaderIs ==
  ASSUME NEW n \in 0 .. MaxGroup
  PROVE  Header(n) = n + 1 /\ n + 1 \in Byte /\ n + 1 # delimiter
<1>1. n >= delimiter /\ n + 1 \in Int /\ 0 <= n + 1 /\ n + 1 < ByteMod /\ ByteMod >= 1 /\ ByteMod \in Nat
  BY FlowRange
<1>2. (n + 1) % ByteMod = n + 1
  BY <1>1, ModNear
<1> QED
  BY <1>1, <1>2, FlowRange DEF Header

\* What is sent next: a code byte, or the first byte of the FIFO of data.
LEMMA CombinerOutIs ==
  ASSUME FlowTyped
  PROVE  /\ CombinerOut.valid \in BOOLEAN
         /\ gc.state = "HEADER" /\ CombinerOut.valid =>
              /\ fifo_len # << >> /\ Head(fifo_len) \in GroupLen /\ Tail(fifo_len) \in Seq(GroupLen)
              /\ CombinerOut.data = Head(fifo_len).n + 1
              /\ CombinerOut.last = (Head(fifo_len).last /\ Head(fifo_len).n = 0)
         /\ gc.state = "DATA" /\ CombinerOut.valid =>
              /\ fifo_data # << >> /\ CombinerOut.data = Head(fifo_data)
              /\ CombinerOut.last = (gc.last /\ gc.cnt = 0)
         /\ CombinerOut.valid => CombinerOut.data \in Byte \ {delimiter} /\ CombinerOut.last \in BOOLEAN
<1>1. fifo_len \in Seq(GroupLen) /\ fifo_data \in Seq(Byte \ {delimiter})
      /\ gc.state \in {"HEADER", "DATA"} /\ gc.last \in BOOLEAN
  BY DEF FlowTyped
<1>2. CASE gc.state = "HEADER"
  <2>1. CASE fifo_len = << >>
    BY <1>2, <2>1 DEF CombinerOut
  <2>2. CASE fifo_len # << >>
    <3>1. Head(fifo_len) \in GroupLen /\ Tail(fifo_len) \in Seq(GroupLen)
      BY <1>1, <2>2
    <3>2. Head(fifo_len).n \in 0 .. MaxGroup /\ Head(fifo_len).last \in BOOLEAN
      BY <3>1 DEF GroupLen
    <3>3. /\ Header(Head(fifo_len).n) = Head(fifo_len).n + 1
          /\ Head(fifo_len).n + 1 \in Byte \ {delimiter}
      BY <3>2, HeaderIs
    <3>4. CombinerOut = [valid |-> TRUE, data |-> Header(Head(fifo_len).n),
                         last |-> Head(fifo_len).last /\ Head(fifo_len).n = 0]
      BY <1>2, <2>2 DEF CombinerOut
    <3> QED
      BY <1>2, <2>2, <3>1, <3>2, <3>3, <3>4
  <2> QED
    BY <2>1, <2>2
<1>3. CASE gc.state = "DATA"
  <2>1. CASE fifo_data = << >>
    BY <1>3, <2>1 DEF CombinerOut
  <2>2. CASE fifo_data # << >>
    <3>1. Head(fifo_data) \in Byte \ {delimiter}
      BY <1>1, <2>2
    <3>2. CombinerOut = [valid |-> TRUE, data |-> Head(fifo_data), last |-> gc.last /\ gc.cnt = 0]
      BY <1>3, <2>2 DEF CombinerOut
    <3> QED
      BY <1>1, <1>3, <2>2, <3>1, <3>2
  <2> QED
    BY <2>1, <2>2
<1> QED
  BY <1>1, <1>2, <1>3

LEMMA AppenderOutIs ==
  ASSUME FlowTyped
  PROVE  /\ AppenderOut.valid \in BOOLEAN
         /\ da = "DATA" => AppenderOut.valid = CombinerOut.valid
         /\ da = "DATA" /\ AppenderOut.valid => AppenderOut.data = CombinerOut.data /\ AppenderOut.last = FALSE
         /\ da = "DELIMITER" => AppenderOut = [valid |-> TRUE, data |-> delimiter, last |-> TRUE]
         /\ AppenderOut.valid => AppenderOut.data \in Byte /\ AppenderOut.last \in BOOLEAN
                                 /\ (AppenderOut.last => AppenderOut.data = delimiter)
<1>1. da \in {"DATA", "DELIMITER"}
  BY DEF FlowTyped
<1>2. CASE da = "DELIMITER"
  BY <1>2, FlowRange DEF AppenderOut
<1>3. CASE da = "DATA"
  BY <1>3, CombinerOutIs DEF AppenderOut
<1> QED
  BY <1>1, <1>2, <1>3

LEMMA FlowFifos ==
  ASSUME FlowSteady, NEW in \in FlowInputs, FifoLenStep(in), FifoDataStep(in)
  PROVE  /\ fifo_len' \in Seq(GroupLen) /\ Len(fifo_len') <= FifoDepth
         /\ fifo_data' \in Seq(Byte \ {delimiter}) /\ Len(fifo_data') <= FifoDepth
<1>1. /\ fifo_len \in Seq(GroupLen) /\ Len(fifo_len) <= FifoDepth
      /\ fifo_data \in Seq(Byte \ {delimiter}) /\ Len(fifo_data) <= FifoDepth
      /\ gs.cnt \in 0 .. MaxGroup /\ gs.last \in BOOLEAN
      /\ FlowTyped
  BY DEF FlowSteady, FlowTyped
<1>2. FifoDepth \in Nat
  BY FlowRange
<1>3. fifo_len' \in Seq(GroupLen) /\ Len(fifo_len') <= FifoDepth
  <2> DEFINE kept == IF gc.state = "HEADER" /\ fifo_len # << >> /\ CombinerFires(in) THEN Tail(fifo_len) ELSE fifo_len
             x == [n |-> gs.cnt, last |-> gs.last]
  <2>1. kept \in Seq(GroupLen) /\ Len(kept) \in Nat /\ Len(kept) <= Len(fifo_len)
    <3>1. CASE fifo_len = << >>
      BY <1>1, <3>1
    <3>2. CASE fifo_len # << >>
      BY <1>1, <3>2
    <3> QED
      BY <3>1, <3>2
  <2>2. x \in GroupLen
    BY <1>1 DEF GroupLen
  <2>3. fifo_len' = kept \o (IF GroupEnds(in) /\ Len(fifo_len) < FifoDepth THEN <<x>> ELSE << >>)
    BY DEF FifoLenStep
  <2> HIDE DEF kept, x
  <2>4. CASE GroupEnds(in) /\ Len(fifo_len) < FifoDepth
    BY <1>1, <1>2, <2>1, <2>2, <2>3, <2>4
  <2>5. CASE ~(GroupEnds(in) /\ Len(fifo_len) < FifoDepth)
    BY <1>1, <1>2, <2>1, <2>3, <2>5
  <2> QED
    BY <2>4, <2>5
<1>4. fifo_data' \in Seq(Byte \ {delimiter}) /\ Len(fifo_data') <= FifoDepth
  <2> DEFINE kept == IF gc.state = "DATA" /\ CombinerFires(in) THEN Tail(fifo_data) ELSE fifo_data
             b == ChecksumOut(in).data
  <2>1. kept \in Seq(Byte \ {delimiter}) /\ Len(kept) \in Nat /\ Len(kept) <= Len(fifo_data)
    <3>1. gc.state = "DATA" /\ CombinerFires(in) => fifo_data # << >>
      BY <1>1, CombinerOutIs, AppenderOutIs DEF CombinerFires, FramerTakes
    <3>2. CASE gc.state = "DATA" /\ CombinerFires(in)
      BY <1>1, <3>1, <3>2
    <3>3. CASE ~(gc.state = "DATA" /\ CombinerFires(in))
      BY <1>1, <3>3
    <3> QED
      BY <3>2, <3>3
  <2>2. GroupByte(in) => b \in Byte \ {delimiter} /\ Len(fifo_data) < FifoDepth
    BY <1>1, ChecksumOutIs DEF GroupByte, SplitterTakes, SplitterReady
  <2>3. fifo_data' = kept \o (IF GroupByte(in) THEN <<b>> ELSE << >>)
    BY DEF FifoDataStep
  <2> HIDE DEF kept, b
  <2>4. CASE GroupByte(in)
    BY <1>1, <1>2, <2>1, <2>2, <2>3, <2>4
  <2>5. CASE ~GroupByte(in)
    BY <1>1, <1>2, <2>1, <2>3, <2>5
  <2> QED
    BY <2>4, <2>5
<1> QED
  BY <1>3, <1>4

LEMMA FlowOutputEnd ==
  ASSUME FlowSteady, NEW in \in FlowInputs, CombinerStep(in), AppenderStep(in), FramerStep(in)
  PROVE  /\ gc' \in [state : {"HEADER", "DATA"}, cnt : Byte, last : BOOLEAN]
         /\ da' \in {"DATA", "DELIMITER"}
         /\ sf' \in [data : Byte, last : BOOLEAN, valid : BOOLEAN, flush : BOOLEAN,
                     interval_cnt : 0 .. Interval, byte_cnt : 0 .. Threshold]
         /\ gc'.state = "DATA" => da' = "DATA" /\ gc'.cnt < MaxGroup
         /\ sf'.last => sf'.data = delimiter
<1>1. /\ FlowTyped
      /\ gc \in [state : {"HEADER", "DATA"}, cnt : Byte, last : BOOLEAN]
      /\ gc.state \in {"HEADER", "DATA"} /\ gc.cnt \in Byte /\ gc.last \in BOOLEAN
      /\ da \in {"DATA", "DELIMITER"}
      /\ gc.state = "DATA" => da = "DATA" /\ gc.cnt < MaxGroup
      /\ sf.last => sf.data = delimiter
  BY DEF FlowSteady, FlowTyped, FlowKept
<1>2. da' \in {"DATA", "DELIMITER"}
  BY DEF AppenderStep
<1>3. /\ gc' \in [state : {"HEADER", "DATA"}, cnt : Byte, last : BOOLEAN]
      /\ gc'.state = "DATA" => da' = "DATA" /\ gc'.cnt < MaxGroup
  <2>1. CASE ~CombinerFires(in)
    <3>1. gc' = gc
      BY <2>1 DEF CombinerStep
    <3>2. gc.state = "DATA" => da' = "DATA"
      BY <1>1, <2>1 DEF AppenderStep
    <3> QED
      BY <1>1, <3>1, <3>2
  <2>2. CASE CombinerFires(in) /\ gc.state = "HEADER"
    <3>1. da = "DATA" /\ CombinerOut.valid
      BY <1>1, <2>2, AppenderOutIs DEF CombinerFires, FramerTakes
    <3> DEFINE group == Head(fifo_len)
    <3>2. group \in GroupLen /\ CombinerOut.last = (group.last /\ group.n = 0)
      BY <1>1, <2>2, <3>1, CombinerOutIs
    <3>3. group.n \in 0 .. MaxGroup /\ group.last \in BOOLEAN
      BY <3>2 DEF GroupLen
    <3>4. gc' = IF group.n > 0 THEN [state |-> "DATA", cnt |-> group.n - 1, last |-> group.last] ELSE gc
      BY <2>2 DEF CombinerStep
    <3>5. da' = IF CombinerOut.last THEN "DELIMITER" ELSE "DATA"
      BY <2>2, <3>1 DEF AppenderStep
    <3> HIDE DEF group
    <3>6. CASE group.n > 0
      <4>1. group.n - 1 \in Byte /\ group.n - 1 < MaxGroup
        BY <3>3, <3>6, FlowRange
      <4>2. gc' = [state |-> "DATA", cnt |-> group.n - 1, last |-> group.last]
        BY <3>4, <3>6
      <4>3. gc' \in [state : {"HEADER", "DATA"}, cnt : Byte, last : BOOLEAN] /\ gc'.cnt = group.n - 1
        BY <3>3, <4>1, <4>2
      <4>4. group.n # 0
        BY <3>3, <3>6
      <4>5. ~CombinerOut.last
        BY <3>2, <4>4
      <4> QED
        BY <3>5, <4>1, <4>3, <4>5
    <3>7. CASE ~(group.n > 0)
      BY <1>1, <2>2, <3>4, <3>7
    <3> QED
      BY <3>6, <3>7
  <2>3. CASE CombinerFires(in) /\ gc.state = "DATA"
    <3>1. da = "DATA" /\ CombinerOut.valid
      BY <1>1, <2>3, AppenderOutIs DEF CombinerFires, FramerTakes
    <3>2. CombinerOut.last = (gc.last /\ gc.cnt = 0)
      BY <1>1, <2>3, <3>1, CombinerOutIs
    <3>3. gc' = [gc EXCEPT !.state = IF gc.cnt = 0 THEN "HEADER" ELSE "DATA",
                           !.cnt   = (gc.cnt - 1) % ByteMod]
      BY <2>3 DEF CombinerStep
    <3>4. gc.cnt - 1 \in Int
      BY <1>1, FlowRange
    <3>5. (gc.cnt - 1) % ByteMod \in Byte
      BY <3>4, ByteMods
    <3>6. /\ gc' \in [state : {"HEADER", "DATA"}, cnt : Byte, last : BOOLEAN]
          /\ gc'.state = (IF gc.cnt = 0 THEN "HEADER" ELSE "DATA") /\ gc'.cnt = (gc.cnt - 1) % ByteMod
      BY <1>1, <3>3, <3>5
    <3>7. da' = IF CombinerOut.last THEN "DELIMITER" ELSE "DATA"
      BY <2>3, <3>1 DEF AppenderStep
    <3>8. gc.cnt # 0 => (gc.cnt - 1) % ByteMod < MaxGroup
      <4> SUFFICES ASSUME gc.cnt # 0 PROVE (gc.cnt - 1) % ByteMod < MaxGroup
        OBVIOUS
      <4> DEFINE c == gc.cnt - 1
      <4>1. c \in Int /\ 0 <= c /\ c < ByteMod /\ c < MaxGroup
        BY <1>1, <2>3, FlowRange
      <4> HIDE DEF c
      <4>2. c % ByteMod = c
        BY <4>1, FlowRange, ModNear
      <4> QED
        BY <4>1, <4>2 DEF c
    <3> QED
      BY <3>2, <3>6, <3>7, <3>8
  <2> QED
    BY <1>1, <2>1, <2>2, <2>3
<1>4. /\ sf.data \in Byte /\ sf.last \in BOOLEAN /\ sf.valid \in BOOLEAN /\ sf.flush \in BOOLEAN
      /\ sf.interval_cnt \in 0 .. Interval /\ sf.byte_cnt \in 0 .. Threshold
  BY DEF FlowSteady, FlowTyped
<1>5. FramerTakes(in) => /\ AppenderOut.data \in Byte /\ AppenderOut.last \in BOOLEAN
                         /\ (AppenderOut.last => AppenderOut.data = delimiter)
  BY <1>1, AppenderOutIs DEF FramerTakes
<1>6. FlushNext(in) \in BOOLEAN /\ (FramerTakes(in) \/ (sf.valid /\ ~OutFires(in))) \in BOOLEAN
  BY DEF FlushNext
<1>7. /\ (IF sf.interval_cnt = Interval THEN 0
          ELSE IF sf.valid THEN sf.interval_cnt + 1 ELSE sf.interval_cnt) \in 0 .. Interval
      /\ (IF sf.interval_cnt = Interval THEN 0
          ELSE IF OutFires(in) /\ sf.byte_cnt < Threshold THEN sf.byte_cnt + 1 ELSE sf.byte_cnt) \in 0 .. Threshold
  BY <1>4, FlowRange
<1>8. /\ sf' \in [data : Byte, last : BOOLEAN, valid : BOOLEAN, flush : BOOLEAN,
                  interval_cnt : 0 .. Interval, byte_cnt : 0 .. Threshold]
      /\ sf'.last => sf'.data = delimiter
  BY <1>1, <1>4, <1>5, <1>6, <1>7 DEF FramerStep
<1> QED
  BY <1>2, <1>3, <1>8

LEMMA FlowStarts == FlowInit => FlowSteady
<1> SUFFICES ASSUME FlowInit PROVE FlowSteady
  OBVIOUS
<1>1. 0 \in Byte /\ 0 \in 0 .. MaxGroup /\ 0 \in 0 .. Interval /\ 0 \in 0 .. Threshold /\ 0 <= FifoDepth
  BY FlowRange
<1>2. (0 - 0) % ByteMod = 0
  <2>1. ByteMod >= 1 /\ ByteMod \in Nat /\ 0 - 0 = 0 /\ 0 \in Int
    BY FlowRange
  <2>2. 0 % ByteMod = 0
    BY <2>1, ModNear, FlowRange
  <2> QED
    BY <2>1, <2>2
<1>3. FlowTyped
  BY <1>1 DEF FlowInit, FlowTyped
<1>4. FlowKept
  BY <1>2 DEF FlowInit, FlowKept
<1> QED
  BY <1>3, <1>4 DEF FlowSteady

LEMMA FlowStays == FlowSteady /\ [FlowNext]_flowVars => FlowSteady'
<1> SUFFICES ASSUME FlowSteady, [FlowNext]_flowVars PROVE FlowSteady'
  OBVIOUS
<1>1. CASE FlowNext
  <2>1. PICK in \in FlowInputs : FlowClock(in)
    BY <1>1 DEF FlowNext
  <2>2. /\ ca' \in [state : {"DATA", "CHECKSUM"}, checksum : Byte]
        /\ gs' \in [cnt : 0 .. MaxGroup, last : BOOLEAN]
        /\ sum' \in Byte
        /\ gs'.last => ca'.state = "DATA"
        /\ ca'.state = "CHECKSUM" => sum' = 0
        /\ ca'.state = "DATA" => ca'.checksum = (0 - sum') % ByteMod
    BY <2>1, FlowInputEnd DEF FlowClock
  <2>3. /\ fifo_len' \in Seq(GroupLen) /\ Len(fifo_len') <= FifoDepth
        /\ fifo_data' \in Seq(Byte \ {delimiter}) /\ Len(fifo_data') <= FifoDepth
    BY <2>1, FlowFifos DEF FlowClock
  <2>4. /\ gc' \in [state : {"HEADER", "DATA"}, cnt : Byte, last : BOOLEAN]
        /\ da' \in {"DATA", "DELIMITER"}
        /\ sf' \in [data : Byte, last : BOOLEAN, valid : BOOLEAN, flush : BOOLEAN,
                    interval_cnt : 0 .. Interval, byte_cnt : 0 .. Threshold]
        /\ gc'.state = "DATA" => da' = "DATA" /\ gc'.cnt < MaxGroup
        /\ sf'.last => sf'.data = delimiter
    BY <2>1, FlowOutputEnd DEF FlowClock
  <2>5. (0 .. MaxGroup)' = 0 .. MaxGroup /\ Byte' = Byte /\ FifoDepth' = FifoDepth /\ GroupLen' = GroupLen
    BY DEF MaxGroup, Byte, FifoDepth, GroupLen
  <2> QED
    BY <2>2, <2>3, <2>4 DEF FlowSteady, FlowTyped, FlowKept
<1>2. CASE UNCHANGED flowVars
  BY <1>2 DEF flowVars, FlowSteady, FlowTyped, FlowKept
<1> QED
  BY <1>1, <1>2

-----------------------------------------------------------------------------
\* What is new in a cycle to come, and how much of it the host gets.
New(in) ==
  IF ~TakesInput(in) THEN << >>
  ELSE IF in.last THEN <<in.data>> \o <<-(sum + in.data) % ByteMod, End>> ELSE <<in.data>>

Goes(in) == IF OutFires(in) THEN Held ELSE 0

LEMMA DecodedIs ==
  ASSUME NEW left \in Int, NEW code \in Int, NEW b \in Int
  PROVE  /\ Decoded(left, code, b) \in Seq(Int) /\ Len(Decoded(left, code, b)) \in Nat
         /\ b = delimiter => Decoded(left, code, b) = <<End>>
         /\ b # delimiter /\ left > 0 => Decoded(left, code, b) = <<b>>
         /\ b # delimiter /\ left = 0 => Decoded(left, code, b) = GlueNow(FALSE, code)
<1>1. <<End>> \in Seq(Int) /\ <<b>> \in Seq(Int) /\ << >> \in Seq(Int) /\ <<delimiter>> \in Seq(Int)
  BY FlowRange
<1>2. Decoded(left, code, b) \in Seq(Int)
  BY <1>1 DEF Decoded
<1>3. Len(Decoded(left, code, b)) \in Nat
  BY <1>2
<1> QED
  BY <1>2, <1>3 DEF Decoded, GlueNow

LEMMA GlueNowIs ==
  ASSUME NEW e \in BOOLEAN, NEW code
  PROVE  GlueNow(e, code) \in Seq(Int)
  BY FlowRange DEF GlueNow

\* FlowLaid without its last part, and what it means for the byte held back.
LEMMA FlowHeld ==
  ASSUME FlowSteady, FlowLaid
  PROVE  /\ Held \in 0 .. Len(pend) /\ (~sf.valid => Held = 0)
         /\ NextLeft \in Nat
<1>1. sf.data \in Byte /\ dec.left \in Nat /\ dec.code \in 0 .. MaxGroup + 1
      /\ gc.state \in {"HEADER", "DATA"} /\ gc.cnt \in Byte /\ pend \in Seq(Int)
  BY DEF FlowSteady, FlowTyped, FlowLaid
<1>2. ASSUME sf.valid PROVE Held \in 0 .. Len(pend)
  <2> DEFINE s == Decoded(dec.left, dec.code, sf.data)
  <2>1. dec.left \in Int /\ dec.code \in Int /\ sf.data \in Int
    BY <1>1, FlowRange
  <2>2. s \in Seq(Int) /\ Len(s) \in Nat
    BY <2>1, DecodedIs
  <2>3. IsPrefix(s, pend)
    BY <1>2 DEF FlowLaid
  <2>5. Held = Len(s)
    BY <1>2 DEF Held
  <2> HIDE DEF s
  <2>4. Len(s) <= Len(pend) /\ Len(pend) \in Nat
    BY <1>1, <2>3 DEF IsPrefix
  <2> QED
    BY <2>2, <2>4, <2>5
<1>3. ~sf.valid => Held = 0
  BY DEF Held
<1>5. 0 \in 0 .. Len(pend)
  BY <1>1
<1>4. NextLeft \in Nat
  BY <1>1, FlowRange DEF FlowLaid, Count
<1> QED
  BY <1>2, <1>3, <1>4, <1>5

LEMMA DecoderNext ==
  ASSUME FlowSteady, FlowLaid, NEW in \in FlowInputs, DecodeStep(in), FramerStep(in)
  PROVE  /\ dec'.good /\ dec'.left \in Nat /\ dec'.code \in 0 .. MaxGroup + 1
         /\ FramerTakes(in) => dec'.left = NextLeft /\ dec'.code = NextCode /\ Goes(in) = Held
         /\ ~FramerTakes(in) => /\ NextLeft' = NextLeft /\ NextCode' = NextCode
                                /\ Held' = Held - Goes(in)
<1>1. dec.left \in Nat /\ dec.code \in 0 .. MaxGroup + 1 /\ NextCode \in 0 .. MaxGroup + 1
  BY DEF FlowLaid
<1>2. Held \in Nat /\ (~sf.valid => Held = 0) /\ NextLeft \in Nat
  BY FlowHeld
<1>3. OutFires(in) => sf.valid
  BY DEF OutFires, FlowValid
<1>4. sf'.valid = (FramerTakes(in) \/ (sf.valid /\ ~OutFires(in))) /\ (~FramerTakes(in) => sf'.data = sf.data)
  BY DEF FramerStep
<1>5. ASSUME OutFires(in) PROVE dec'.left = NextLeft /\ dec'.code = NextCode /\ dec'.good
  <2> DEFINE g == /\ dec.good
                  /\ IsPrefix(FlowDecoded(sf.data), pend)
                  /\ sf.data = delimiter => dec.left = 0
             e == IF sf.data = delimiter THEN "end" ELSE "byte"
             a == LeftAfter(dec.left, sf.data)
             c == CodeAfter(dec.left, dec.code, sf.data)
  <2>1. dec' = [left |-> a, code |-> c, good |-> g, event |-> e]
    BY <1>5, Zenon DEF DecodeStep, LeftAfter, CodeAfter
  <2>2. FlowDecoded(sf.data) = Decoded(dec.left, dec.code, sf.data)
    BY FlowDecodedIs
  <2>3. g
    BY <1>3, <1>5, <2>2 DEF FlowLaid
  <2> HIDE DEF g, e, a, c
  <2>4. dec'.left = a /\ dec'.code = c /\ dec'.good = g
    BY <2>1
  <2>5. NextLeft = LeftAfter(dec.left, sf.data) /\ NextCode = CodeAfter(dec.left, dec.code, sf.data)
    BY <1>3, <1>5 DEF NextLeft, NextCode
  <2> QED
    BY <2>3, <2>4, <2>5 DEF a, c
<1>6. ASSUME ~OutFires(in) PROVE dec'.left = dec.left /\ dec'.code = dec.code /\ dec'.good
  <2>1. dec' = [dec EXCEPT !.event = "none"] /\ dec.good
    BY <1>6 DEF DecodeStep, FlowLaid
  <2> QED
    BY <2>1
<1>7. dec'.good /\ dec'.left \in Nat /\ dec'.code \in 0 .. MaxGroup + 1
  BY <1>1, <1>2, <1>5, <1>6
<1>8. ASSUME FramerTakes(in) PROVE dec'.left = NextLeft /\ dec'.code = NextCode /\ Goes(in) = Held
  <2>1. CASE OutFires(in)
    BY <1>5, <2>1 DEF Goes
  <2>2. CASE ~OutFires(in)
    <3>1. ~sf.valid
      BY <1>8, <2>2 DEF FramerTakes
    <3>2. dec.left = NextLeft /\ dec.code = NextCode /\ Held = 0
      BY <1>2, <3>1 DEF NextLeft, NextCode
    <3> QED
      BY <1>6, <2>2, <3>2 DEF Goes
  <2> QED
    BY <2>1, <2>2
<1>9. ASSUME ~FramerTakes(in)
      PROVE  NextLeft' = NextLeft /\ NextCode' = NextCode /\ Held' = Held - Goes(in)
  <2>1. CASE OutFires(in)
    <3>1. ~sf'.valid
      BY <1>4, <1>9, <2>1
    <3>2. NextLeft' = dec'.left /\ NextCode' = dec'.code /\ Held' = 0
      BY <3>1 DEF NextLeft, NextCode, Held
    <3>3. Held - Goes(in) = 0
      BY <1>2, <2>1 DEF Goes
    <3> QED
      BY <1>5, <2>1, <3>2, <3>3
  <2>2. CASE ~OutFires(in)
    <3>1. sf'.valid <=> sf.valid
      BY <1>4, <1>9, <2>2
    <3>2. NextLeft' = NextLeft /\ NextCode' = NextCode /\ Held' = Held
      BY <1>4, <1>6, <1>9, <2>2, <3>1 DEF NextLeft, NextCode, Held
    <3>3. Held - Goes(in) = Held
      BY <1>2, <2>2 DEF Goes
    <3> QED
      BY <3>2, <3>3
  <2> QED
    BY <2>1, <2>2
<1> QED
  BY <1>7, <1>8, <1>9

LEMMA GroupsNow ==
  ASSUME FlowTyped
  PROVE  /\ Ending(gc, da) \in BOOLEAN /\ Count(gc) \in Nat
         /\ \A code : First(gc, da, code) \in Group /\ GroupsOf(First(gc, da, code), fifo_len) \in Seq(Group)
         /\ Closing(gs, ca) \in Seq(Int)
<1>1. /\ gc.state \in {"HEADER", "DATA"} /\ gc.cnt \in Byte /\ gc.last \in BOOLEAN
      /\ da \in {"DATA", "DELIMITER"} /\ fifo_len \in Seq(GroupLen)
      /\ ca.checksum \in Byte
  BY DEF FlowTyped
<1>2. Ending(gc, da) \in BOOLEAN
  BY <1>1 DEF Ending
<1>3. Count(gc) \in Nat
  BY <1>1, FlowRange DEF Count
<1>4. ASSUME NEW code
      PROVE  First(gc, da, code) \in Group /\ GroupsOf(First(gc, da, code), fifo_len) \in Seq(Group)
  <2>1. GlueNow(Ending(gc, da), code) \in Seq(Int)
    BY <1>2, GlueNowIs
  <2>2. First(gc, da, code) \in Group
    BY <1>3, <2>1 DEF First, Group
  <2> QED
    BY <1>1, <2>2, GroupsAre
<1>5. <<End>> \in Seq(Int) /\ <<ca.checksum, End>> \in Seq(Int) /\ << >> \in Seq(Int)
  BY <1>1, FlowRange
<1> QED
  BY <1>2, <1>3, <1>4, <1>5 DEF Closing

LEMMA PendNext ==
  ASSUME FlowSteady, FlowLaid, NEW in \in FlowInputs, PendStep(in)
  PROVE  /\ pend' \in Seq(Int) /\ New(in) \in Seq(Int)
         /\ pend' = SubSeq(pend \o New(in), 1 + Goes(in), Len(pend \o New(in)))
         /\ Laid(pend', fifo_data, GroupsOf(First(gc, da, NextCode), fifo_len), Held - Goes(in), 0,
                 gs.cnt, Closing(gs, ca) \o New(in))
<1>1. New(in) \in Seq(Int)
  <2>1. in.data \in Int /\ sum \in Int
    BY InputIs, FlowRange DEF FlowSteady, FlowTyped
  <2>2. -(sum + in.data) \in Int
    BY <2>1
  <2>3. -(sum + in.data) % ByteMod \in Byte
    BY <2>2, ByteMods
  <2>4. <<in.data>> \in Seq(Int) /\ <<-(sum + in.data) % ByteMod, End>> \in Seq(Int) /\ << >> \in Seq(Int)
    BY <2>1, <2>3, FlowRange
  <2>5. <<in.data>> \o <<-(sum + in.data) % ByteMod, End>> \in Seq(Int)
    BY <2>4
  <2> QED
    BY <2>4, <2>5 DEF New
<1>2. pend \in Seq(Int) /\ fifo_data \in Seq(Int) /\ gs.cnt \in Nat
  BY FlowRange, SMTT(30) DEF FlowLaid, FlowSteady, FlowTyped
<1>3. Held \in 0 .. Len(pend) /\ (~sf.valid => Held = 0)
  BY FlowHeld
<1>4. Goes(in) \in 0 .. Held
  BY <1>3 DEF Goes
<1>5. pend' = SubSeq(pend \o New(in), 1 + Goes(in), Len(pend \o New(in)))
  <2>1. OutFires(in) => Len(FlowDecoded(sf.data)) = Held
    BY FlowDecodedIs DEF OutFires, FlowValid, Held
  <2> QED
    BY <2>1 DEF PendStep, New, Goes
<1> DEFINE new == New(in)
           g == Goes(in)
           G == GroupsOf(First(gc, da, NextCode), fifo_len)
           close == Closing(gs, ca)
           P == pend \o new
           cnt == gs.cnt
           more == close \o new
           D == fifo_data
           p0 == Held
<1>6. G \in Seq(Group) /\ close \in Seq(Int) /\ p0 \in Nat /\ g \in 0 .. p0 /\ new \in Seq(Int) /\ cnt \in Nat
      /\ D \in Seq(Int)
  BY <1>1, <1>2, <1>3, <1>4, GroupsNow DEF FlowSteady
<1>7. Laid(pend, D, G, p0, 0, cnt, close)
  BY DEF FlowLaid
<1>8. p0 <= Len(pend)
  BY <1>2, <1>3
<1>9. P = pend \o new /\ more = close \o new
  OBVIOUS
<1> HIDE DEF new, g, G, close, P, cnt, more, D, p0
<1>10. P \in Seq(Int) /\ more \in Seq(Int) /\ p0 <= Len(P)
  <2>1. P \in Seq(Int) /\ Len(P) = Len(pend) + Len(new)
    BY <1>2, <1>6, <1>9, ConcatProperties
  <2>2. Len(new) \in Nat /\ Len(pend) \in Nat
    BY <1>2, <1>6
  <2>3. more \in Seq(Int)
    BY <1>6, <1>9, ConcatProperties
  <2> QED
    BY <1>6, <1>8, <2>1, <2>2, <2>3
<1>11. Laid(P, D, G, p0, 0, cnt, more)
  <2>1. 0 \in Nat
    OBVIOUS
  <2> QED
    BY <1>2, <1>6, <1>7, <1>9, <2>1, LaidMore
<1>12. SubSeq(P, 1 + g, Len(P)) \in Seq(Int) /\ Laid(SubSeq(P, 1 + g, Len(P)), D, G, p0 - g, 0, cnt, more)
  BY <1>6, <1>10, <1>11, PendGoes
<1> QED
  BY <1>1, <1>5, <1>12 DEF new, g, G, close, P, cnt, more, D, p0

-----------------------------------------------------------------------------
\* The FIFOs once the byte that was sent is gone.
LenOut(in) == IF gc.state = "HEADER" /\ fifo_len # << >> /\ CombinerFires(in) THEN Tail(fifo_len) ELSE fifo_len
DataOut(in) == IF gc.state = "DATA" /\ CombinerFires(in) THEN Tail(fifo_data) ELSE fifo_data

\* The decoder is ready for byte b, which is the first to come, and the rest
\* is laid out behind it.
Sends(P, D, ls, left, code, b, c, d, cnt, close) ==
  /\ LeftAfter(left, b) = Count(c)
  /\ CodeAfter(left, code, b) \in 0 .. MaxGroup + 1
  /\ c.state = "DATA" => CodeAfter(left, code, b) # 0
  /\ IsPrefix(Decoded(left, code, b), P)
  /\ b = delimiter => left = 0
  /\ Laid(P, D, GroupsOf(First(c, d, CodeAfter(left, code, b)), ls), Len(Decoded(left, code, b)), 0, cnt, close)

LEMMA SendsDelimiter ==
  ASSUME NEW P \in Seq(Int), NEW D \in Seq(Int), NEW ls \in Seq(GroupLen), NEW code, NEW c, c.state = "HEADER",
         NEW cnt \in Nat, NEW close \in Seq(Int),
         Laid(P, D, GroupsOf(First(c, "DELIMITER", code), ls), 0, 0, cnt, close)
  PROVE  Sends(P, D, ls, 0, code, delimiter, c, "DATA", cnt, close)
<1>1. First(c, "DELIMITER", code) = [n |-> 0, glue |-> <<End>>]
  BY DEF First, Count, Ending, GlueNow
<1>2. First(c, "DATA", 0) = [n |-> 0, glue |-> << >>]
  BY DEF First, Count, Ending, GlueNow
<1>3. <<End>> \in Seq(Int) /\ Len(<<End>>) = 1
  BY FlowRange
<1>4. Laid(P, D, GroupsOf([n |-> 0, glue |-> <<End>>], ls), 0, 0, cnt, close)
  BY <1>1
<1>5. /\ IsPrefix(<<End>>, P)
      /\ Laid(P, D, GroupsOf([n |-> 0, glue |-> << >>], ls), Len(<<End>>), 0, cnt, close)
  BY <1>3, <1>4, OutGlue
<1>6. Decoded(0, code, delimiter) = <<End>> /\ LeftAfter(0, delimiter) = 0 /\ CodeAfter(0, code, delimiter) = 0
  BY DEF Decoded, LeftAfter, CodeAfter
<1>7. Count(c) = 0 /\ 0 \in 0 .. MaxGroup + 1 /\ c.state # "DATA"
  BY MaxGroupRange DEF Count
<1> QED
  BY <1>2, <1>5, <1>6, <1>7 DEF Sends

\* GroupCombiner when it has sent one of n + 1 bytes.
ByteSent(c, n, e, d) ==
  /\ c.state = "DATA" /\ c.last \in BOOLEAN /\ c.cnt = n
  /\ e.state = (IF n = 0 THEN "HEADER" ELSE "DATA") /\ (n # 0 => e.cnt = n - 1) /\ e.last = c.last
  /\ d = (IF c.last /\ n = 0 THEN "DELIMITER" ELSE "DATA")

LEMMA SendsByte ==
  ASSUME NEW P \in Seq(Int), NEW D \in Seq(Byte \ {delimiter}), NEW ls \in Seq(GroupLen),
         NEW code \in 0 .. MaxGroup + 1, code # 0, NEW c, NEW n \in Nat, NEW e, NEW d, ByteSent(c, n, e, d),
         NEW cnt \in Nat, NEW close \in Seq(Int),
         Laid(P, D, GroupsOf(First(c, "DATA", code), ls), 0, 0, cnt, close)
  PROVE  Sends(P, Tail(D), ls, n + 1, code, Head(D), e, d, cnt, close)
<1> DEFINE glue == GlueNow(c.last, code)
<1>12. /\ c.state = "DATA" /\ c.last \in BOOLEAN /\ c.cnt = n
       /\ e.state = (IF n = 0 THEN "HEADER" ELSE "DATA") /\ (n # 0 => e.cnt = n - 1) /\ e.last = c.last
       /\ d = (IF c.last /\ n = 0 THEN "DELIMITER" ELSE "DATA")
  BY DEF ByteSent
<1>1. First(c, "DATA", code) = [n |-> n + 1, glue |-> glue]
  BY <1>12 DEF First, Count, Ending
<1>2. glue \in Seq(Int)
  BY <1>12, GlueNowIs
<1>3. D \in Seq(Int)
  BY FlowRange
<1> HIDE DEF glue
<1>4. Laid(P, D, GroupsOf([n |-> n + 1, glue |-> glue], ls), 0, 0, cnt, close)
  BY <1>1
<1>5. /\ D # << >> /\ Len(P) >= 1 /\ P[1] = Head(D)
      /\ Laid(P, Tail(D), GroupsOf([n |-> n, glue |-> glue], ls), 1, 0, cnt, close)
  BY <1>2, <1>3, <1>4, OutByte
<1> DEFINE b == Head(D)
<1>6. b \in Byte \ {delimiter}
  BY <1>5
<1> HIDE DEF b
<1>7. Decoded(n + 1, code, b) = <<b>> /\ LeftAfter(n + 1, b) = n /\ CodeAfter(n + 1, code, b) = code
  <2>1. n + 1 > 0 /\ (n + 1) - 1 = n
    OBVIOUS
  <2> QED
    BY <1>6, <2>1 DEF Decoded, LeftAfter, CodeAfter
<1>8. Count(e) = n
  BY <1>12 DEF Count
<1>9. Ending(e, d) = c.last
  <2>1. CASE n = 0
    BY <1>12, <2>1 DEF Ending
  <2>2. CASE n # 0
    BY <1>12, <2>2 DEF Ending
  <2> QED
    BY <2>1, <2>2
<1>10. First(e, d, code) = [n |-> n, glue |-> glue]
  BY <1>8, <1>9 DEF First, glue
<1>11. IsPrefix(<<b>>, P) /\ Len(<<b>>) = 1
  <2>1. P[1] = b /\ Len(P) >= 1
    BY <1>5 DEF b
  <2> QED
    BY <2>1 DEF IsPrefix
<1>13. e.state = "DATA" => code # 0
  OBVIOUS
<1> QED
  <2>1. Sends(P, Tail(D), ls, n + 1, code, b, e, d, cnt, close)
    BY <1>5, <1>6, <1>7, <1>8, <1>10, <1>11, <1>13 DEF Sends
  <2> QED
    BY <2>1 DEF b

LEMMA SendsHeader ==
  ASSUME NEW P \in Seq(Int), NEW D \in Seq(Int), NEW ls \in Seq(GroupLen), ls # << >>,
         NEW code \in 0 .. MaxGroup + 1, NEW c, c.state = "HEADER",
         NEW e, e = (IF Head(ls).n > 0 THEN [state |-> "DATA", cnt |-> Head(ls).n - 1, last |-> Head(ls).last] ELSE c),
         NEW d, d = (IF Head(ls).last /\ Head(ls).n = 0 THEN "DELIMITER" ELSE "DATA"),
         NEW cnt \in Nat, NEW close \in Seq(Int),
         Laid(P, D, GroupsOf(First(c, "DATA", code), ls), 0, 0, cnt, close)
  PROVE  Sends(P, D, Tail(ls), 0, code, Head(ls).n + 1, e, d, cnt, close)
<1> DEFINE group == Head(ls)
           n == group.n
           b == n + 1
           glue == GlueNow(FALSE, code)
<1>1. First(c, "DATA", code) = [n |-> 0, glue |-> glue]
  BY DEF First, Count, Ending
<1>17. glue \in Seq(Int)
  BY GlueNowIs
<1>3. group \in GroupLen
  OBVIOUS
<1>4. n \in 0 .. MaxGroup /\ group.last \in BOOLEAN
  BY <1>3 DEF GroupLen
<1> HIDE DEF glue
<1>2. glue \in Seq(Int) /\ Len(glue) \in Nat
  BY <1>17, LenProperties
<1>5. Laid(P, D, GroupsOf([n |-> 0, glue |-> glue], ls), 0, 0, cnt, close)
  BY <1>1
<1>6. /\ IsPrefix(glue, P)
      /\ Laid(P, D, GroupsOf([n |-> 0, glue |-> << >>], ls), Len(glue), 0, cnt, close)
  BY <1>2, <1>5, OutGlue
<1>7. Laid(P, D, GroupsOf([n |-> n, glue |-> GlueOf(group)], Tail(ls)), Len(glue), 0, cnt, close)
  <2> DEFINE p0 == Len(glue)
  <2>1. p0 \in Nat /\ Laid(P, D, GroupsOf([n |-> 0, glue |-> << >>], ls), p0, 0, cnt, close)
    BY <1>2, <1>6
  <2> HIDE DEF p0
  <2>2. Laid(P, D, GroupsOf([n |-> Head(ls).n, glue |-> GlueOf(Head(ls))], Tail(ls)), p0, 0, cnt, close)
    BY <2>1, OutNext
  <2> QED
    BY <2>2 DEF p0
<1>8. b \in 1 .. MaxGroup + 1 /\ b - 1 = n /\ b # delimiter
  <2>1. \A k \in 0 .. MaxGroup : k + 1 \in 1 .. MaxGroup + 1 /\ (k + 1) - 1 = k /\ k + 1 # delimiter
    BY MaxGroupRange DEF delimiter
  <2> QED
    BY <1>4, <2>1
<1>9. Decoded(0, code, b) = glue /\ LeftAfter(0, b) = n /\ CodeAfter(0, code, b) = b
  BY <1>8 DEF Decoded, LeftAfter, CodeAfter, glue, GlueNow
<1>10. e.state = "DATA" <=> n > 0
  BY <1>4
<1>11. Count(e) = n
  <2>1. CASE n > 0
    <3>1. e.state = "DATA" /\ e.cnt = n - 1
      BY <2>1
    <3> QED
      BY <1>4, <3>1 DEF Count
  <2>2. CASE ~(n > 0)
    BY <1>4, <2>2 DEF Count
  <2> QED
    BY <2>1, <2>2
<1>12. Ending(e, d) = group.last
  <2>1. CASE n > 0
    <3>1. e.state = "DATA" /\ e.last = group.last /\ d = "DATA"
      BY <1>4, <2>1
    <3> QED
      BY <1>4, <3>1 DEF Ending
  <2>2. CASE ~(n > 0)
    <3>1. n = 0 /\ e.state = "HEADER"
      BY <1>4, <2>2
    <3> QED
      BY <1>4, <3>1 DEF Ending
  <2> QED
    BY <2>1, <2>2
<1>13. GlueNow(group.last, b) = GlueOf(group)
  <2>1. (b \in {0, MaxGroup + 1}) <=> n = MaxGroup
    BY <1>4, MaxGroupRange
  <2> QED
    BY <2>1 DEF GlueNow, GlueOf
<1>14. First(e, d, b) = [n |-> n, glue |-> GlueOf(group)]
  BY <1>11, <1>12, <1>13 DEF First
<1> HIDE DEF group, n, b
<1>15. b \in 0 .. MaxGroup + 1 /\ b # 0
  BY <1>8
<1>16. Sends(P, D, Tail(ls), 0, code, b, e, d, cnt, close)
  BY <1>6, <1>7, <1>8, <1>9, <1>11, <1>14, <1>15 DEF Sends
<1> QED
  BY <1>16 DEF group, n, b

LEMMA SendNext ==
  ASSUME FlowSteady, FlowLaid, NEW in \in FlowInputs, FramerTakes(in), CombinerStep(in), AppenderStep(in),
         NEW P \in Seq(Int), NEW close \in Seq(Int),
         Laid(P, fifo_data, GroupsOf(First(gc, da, NextCode), fifo_len), 0, 0, gs.cnt, close)
  PROVE  Sends(P, DataOut(in), LenOut(in), NextLeft, NextCode, AppenderOut.data, gc', da', gs.cnt, close)
<1>1. /\ FlowTyped
      /\ gc \in [state : {"HEADER", "DATA"}, cnt : Byte, last : BOOLEAN]
      /\ gc.state \in {"HEADER", "DATA"} /\ gc.cnt \in Byte /\ gc.last \in BOOLEAN
      /\ da \in {"DATA", "DELIMITER"}
      /\ gc.state = "DATA" => da = "DATA" /\ gc.cnt < MaxGroup
      /\ fifo_len \in Seq(GroupLen) /\ fifo_data \in Seq(Byte \ {delimiter})
      /\ gs.cnt \in 0 .. MaxGroup
  BY DEF FlowSteady, FlowTyped, FlowKept
<1>2. NextLeft = Count(gc) /\ NextCode \in 0 .. MaxGroup + 1 /\ (gc.state = "DATA" => NextCode # 0)
  BY DEF FlowLaid
<1>3. gs.cnt \in Nat /\ gc.cnt \in Nat /\ fifo_data \in Seq(Int)
  BY <1>1, FlowRange
<1>4. AppenderOut.valid
  BY DEF FramerTakes
<1>5. CASE da = "DELIMITER"
  <2>1. gc.state = "HEADER" /\ AppenderOut.data = delimiter
    BY <1>1, <1>5, AppenderOutIs
  <2>2. gc' = gc /\ DataOut(in) = fifo_data /\ LenOut(in) = fifo_len
    BY <1>5 DEF CombinerFires, CombinerStep, DataOut, LenOut
  <2>3. da' = "DATA"
    BY <1>5 DEF AppenderStep
  <2>4. NextLeft = 0
    BY <1>2, <2>1 DEF Count
  <2>5. Laid(P, fifo_data, GroupsOf(First(gc, "DELIMITER", NextCode), fifo_len), 0, 0, gs.cnt, close)
    BY <1>5
  <2>6. Sends(P, fifo_data, fifo_len, 0, NextCode, delimiter, gc, "DATA", gs.cnt, close)
    BY <1>1, <1>3, <2>1, <2>5, SendsDelimiter
  <2> QED
    BY <2>1, <2>2, <2>3, <2>4, <2>6
<1>6. CASE da = "DATA"
  <2>1. CombinerOut.valid /\ CombinerFires(in) /\ AppenderOut.data = CombinerOut.data
    BY <1>1, <1>4, <1>6, AppenderOutIs DEF CombinerFires
  <2>2. Laid(P, fifo_data, GroupsOf(First(gc, "DATA", NextCode), fifo_len), 0, 0, gs.cnt, close)
    BY <1>6
  <2>3. da' = IF CombinerOut.last THEN "DELIMITER" ELSE "DATA"
    BY <1>6, <2>1 DEF AppenderStep
  <2>4. CASE gc.state = "HEADER"
    <3>1. /\ fifo_len # << >> /\ CombinerOut.data = Head(fifo_len).n + 1
          /\ CombinerOut.last = (Head(fifo_len).last /\ Head(fifo_len).n = 0)
      BY <1>1, <2>1, <2>4, CombinerOutIs
    <3>2. gc' = IF Head(fifo_len).n > 0
                THEN [state |-> "DATA", cnt |-> Head(fifo_len).n - 1, last |-> Head(fifo_len).last] ELSE gc
      BY <2>1, <2>4 DEF CombinerStep
    <3>3. da' = IF Head(fifo_len).last /\ Head(fifo_len).n = 0 THEN "DELIMITER" ELSE "DATA"
      BY <2>3, <3>1
    <3>4. DataOut(in) = fifo_data /\ LenOut(in) = Tail(fifo_len)
      BY <2>1, <2>4, <3>1 DEF DataOut, LenOut
    <3>5. NextLeft = 0
      BY <1>2, <2>4 DEF Count
    <3>6. Sends(P, fifo_data, Tail(fifo_len), 0, NextCode, Head(fifo_len).n + 1, gc', da', gs.cnt, close)
      BY <1>1, <1>2, <1>3, <2>2, <2>4, <3>1, <3>2, <3>3, SendsHeader
    <3> QED
      BY <2>1, <3>1, <3>4, <3>5, <3>6
  <2>5. CASE gc.state = "DATA"
    <3> DEFINE n == gc.cnt
    <3>1. fifo_data # << >> /\ CombinerOut.data = Head(fifo_data) /\ CombinerOut.last = (gc.last /\ n = 0)
      BY <1>1, <2>1, <2>5, CombinerOutIs
    <3>2. gc' = [gc EXCEPT !.state = IF gc.cnt = 0 THEN "HEADER" ELSE "DATA",
                           !.cnt   = (gc.cnt - 1) % ByteMod]
      BY <2>1, <2>5 DEF CombinerStep
    <3>3. gc'.state = (IF n = 0 THEN "HEADER" ELSE "DATA") /\ gc'.last = gc.last /\ gc'.cnt = (n - 1) % ByteMod
      BY <1>1, <3>2
    <3>4. n # 0 => gc'.cnt = n - 1
      <4> SUFFICES ASSUME n # 0 PROVE gc'.cnt = n - 1
        OBVIOUS
      <4> DEFINE k == n - 1
      <4>1. k \in Int /\ 0 <= k /\ k < ByteMod /\ ByteMod \in Nat /\ ByteMod >= 1
        BY <1>1, <1>3, FlowRange
      <4> HIDE DEF k
      <4>2. k % ByteMod = k
        BY <4>1, ModNear
      <4> QED
        BY <3>3, <4>2 DEF k
    <3>5. da' = IF gc.last /\ n = 0 THEN "DELIMITER" ELSE "DATA"
      BY <2>3, <3>1
    <3>6. DataOut(in) = Tail(fifo_data) /\ LenOut(in) = fifo_len
      BY <2>1, <2>5 DEF DataOut, LenOut
    <3>7. NextLeft = n + 1
      BY <1>2, <2>5 DEF Count
    <3>8. NextCode # 0 /\ n \in Nat /\ gc.cnt = n
      BY <1>2, <1>3, <2>5
    <3> HIDE DEF n
    <3>10. ByteSent(gc, n, gc', da')
      BY <1>1, <2>5, <3>3, <3>4, <3>5, <3>8 DEF ByteSent
    <3>9. Sends(P, Tail(fifo_data), fifo_len, n + 1, NextCode, Head(fifo_data), gc', da', gs.cnt, close)
      BY <1>1, <1>2, <1>3, <2>2, <3>8, <3>10, SendsByte
    <3> QED
      BY <2>1, <3>1, <3>6, <3>7, <3>9
  <2> QED
    BY <1>1, <2>4, <2>5
<1> QED
  BY <1>1, <1>5, <1>6

LEMMA PrefixMore ==
  ASSUME NEW s \in Seq(Int), NEW P \in Seq(Int), NEW x \in Seq(Int), IsPrefix(s, P)
  PROVE  IsPrefix(s, P \o x)
<1>1. Len(s) <= Len(P) /\ Len(s) \in Nat /\ Len(P) \in Nat /\ Len(x) \in Nat
  BY DEF IsPrefix
<1>2. P \o x \in Seq(Int) /\ Len(P \o x) = Len(P) + Len(x)
  BY ConcatProperties
<1>3. SubSeq(P, 1, Len(s)) = SubSeq(P \o x, 1, Len(s))
  <2>1. \A i \in 1 .. Len(s) : (P \o x)[i] = P[i]
    BY <1>1
  <2> QED
    BY <1>1, <1>2, <2>1
<1> QED
  BY <1>1, <1>2, <1>3 DEF IsPrefix

LEMMA OutputNext ==
  ASSUME FlowSteady, FlowLaid, NEW in \in FlowInputs, CombinerStep(in), AppenderStep(in), FramerStep(in),
         DecodeStep(in), PendStep(in)
  PROVE  /\ NextLeft' = Count(gc')
         /\ NextCode' \in 0 .. MaxGroup + 1 /\ (gc'.state = "DATA" => NextCode' # 0)
         /\ sf'.valid => /\ IsPrefix(Decoded(dec'.left, dec'.code, sf'.data), pend')
                         /\ sf'.data = delimiter => dec'.left = 0
         /\ Laid(pend', DataOut(in), GroupsOf(First(gc', da', NextCode'), LenOut(in)), Held', 0,
                 gs.cnt, Closing(gs, ca) \o New(in))
<1>1. /\ pend' \in Seq(Int) /\ New(in) \in Seq(Int)
      /\ pend' = SubSeq(pend \o New(in), 1 + Goes(in), Len(pend \o New(in)))
      /\ Laid(pend', fifo_data, GroupsOf(First(gc, da, NextCode), fifo_len), Held - Goes(in), 0,
              gs.cnt, Closing(gs, ca) \o New(in))
  BY PendNext
<1>2. FlowTyped /\ Closing(gs, ca) \in Seq(Int)
  BY GroupsNow DEF FlowSteady
<1>3. Closing(gs, ca) \o New(in) \in Seq(Int)
  BY <1>1, <1>2, ConcatProperties
<1>4. Held \in Nat /\ Held \in 0 .. Len(pend) /\ pend \in Seq(Int)
  BY FlowHeld DEF FlowLaid
<1>5. CASE FramerTakes(in)
  <2>1. dec'.left = NextLeft /\ dec'.code = NextCode /\ Goes(in) = Held
    BY <1>5, DecoderNext
  <2>2. sf'.valid /\ sf'.data = AppenderOut.data
    BY <1>5 DEF FramerStep
  <2>3. Held - Goes(in) = 0
    BY <1>4, <2>1
  <2>4. Laid(pend', fifo_data, GroupsOf(First(gc, da, NextCode), fifo_len), 0, 0,
             gs.cnt, Closing(gs, ca) \o New(in))
    BY <1>1, <2>3
  <2>5. Sends(pend', DataOut(in), LenOut(in), NextLeft, NextCode, AppenderOut.data, gc', da', gs.cnt,
              Closing(gs, ca) \o New(in))
    BY <1>1, <1>3, <1>5, <2>4, SendNext
  <2>6. /\ NextLeft' = LeftAfter(NextLeft, AppenderOut.data)
        /\ NextCode' = CodeAfter(NextLeft, NextCode, AppenderOut.data)
        /\ Held' = Len(Decoded(NextLeft, NextCode, AppenderOut.data))
    BY <2>1, <2>2 DEF NextLeft, NextCode, Held
  <2> QED
    BY <2>1, <2>2, <2>5, <2>6 DEF Sends
<1>6. CASE ~FramerTakes(in)
  <2>1. NextLeft' = NextLeft /\ NextCode' = NextCode /\ Held' = Held - Goes(in)
    BY <1>6, DecoderNext
  <2>2. gc' = gc /\ LenOut(in) = fifo_len /\ DataOut(in) = fifo_data
    BY <1>6 DEF CombinerFires, CombinerStep, LenOut, DataOut
  <2>3. da' = da
    BY <1>2, <1>6 DEF CombinerFires, AppenderStep, FlowTyped
  <2>4. NextLeft = Count(gc) /\ NextCode \in 0 .. MaxGroup + 1 /\ (gc.state = "DATA" => NextCode # 0)
    BY DEF FlowLaid
  <2>5. ASSUME sf'.valid
        PROVE  /\ IsPrefix(Decoded(dec'.left, dec'.code, sf'.data), pend')
               /\ sf'.data = delimiter => dec'.left = 0
    <3>1. sf.valid /\ ~OutFires(in) /\ sf'.data = sf.data
      BY <1>6, <2>5 DEF FramerStep
    <3>2. dec'.left = dec.left /\ dec'.code = dec.code
      <4>1. dec' = [dec EXCEPT !.event = "none"]
        BY <3>1 DEF DecodeStep
      <4> QED
        BY <4>1
    <3>3. IsPrefix(Decoded(dec.left, dec.code, sf.data), pend) /\ (sf.data = delimiter => dec.left = 0)
      BY <3>1 DEF FlowLaid
    <3>4. pend' = pend \o New(in)
      <4> DEFINE Q == pend \o New(in)
      <4>1. Q \in Seq(Int)
        BY <1>1, <1>4, ConcatProperties
      <4>2. pend' = SubSeq(Q, 1, Len(Q))
        BY <1>1, <3>1 DEF Goes
      <4> HIDE DEF Q
      <4>3. SubSeq(Q, 1, Len(Q)) = Q
        BY <4>1
      <4> QED
        BY <4>2, <4>3 DEF Q
    <3>5. Decoded(dec.left, dec.code, sf.data) \in Seq(Int)
      <4>1. dec.left \in Int /\ dec.code \in Int /\ sf.data \in Int
        <5>1. dec.left \in Nat /\ dec.code \in 0 .. MaxGroup + 1
          BY DEF FlowLaid
        <5>2. sf.data \in Byte
          BY <1>2 DEF FlowTyped
        <5> QED
          BY <5>1, <5>2, FlowRange
      <4> QED
        BY <4>1, DecodedIs
    <3>6. IsPrefix(Decoded(dec.left, dec.code, sf.data), pend \o New(in))
      BY <1>1, <1>4, <3>3, <3>5, PrefixMore
    <3> QED
      BY <3>1, <3>2, <3>3, <3>4, <3>6
  <2> QED
    BY <1>1, <2>1, <2>2, <2>3, <2>4, <2>5
<1> QED
  BY <1>5, <1>6

-----------------------------------------------------------------------------
\* The checksum is what makes the sum of the bytes zero.
LEMMA ChecksumIs ==
  ASSUME NEW u \in Int, NEW d \in Int
  PROVE  (((0 - u) % ByteMod) - d) % ByteMod = -(u + d) % ByteMod
<1> DEFINE M == ByteMod
           a == 0 - u
           b == 0 - d
           h == u + d
<1>1. a \in Int /\ b \in Int /\ h \in Int /\ M \in Nat /\ M >= 1
  BY FlowRange
<1>2. (a % M) \in Int
  BY <1>1
<1>3. (a % M) - d = (a % M) + b
  BY <1>1, <1>2
<1>4. a + b = -h
  OBVIOUS
<1> HIDE DEF M, a, b, h
<1>5. ((a % M) + b) % M = (a + b) % M
  BY <1>1, ModSum
<1>6. ((a % M) - d) % M = (-h) % M
  BY <1>3, <1>4, <1>5
<1> QED
  BY <1>6 DEF M, a, h

Handed(in) == GroupEnds(in) /\ Len(fifo_len) < FifoDepth

\* Behind what goes into the FIFOs the same is to come as before.
LEMMA ClosingNext ==
  ASSUME FlowSteady, NEW in \in FlowInputs, ChecksumStep(in), SplitterStep(in)
  PROVE  /\ GroupByte(in) => /\ ~Handed(in)
                             /\ Closing(gs, ca) \o New(in) = <<ChecksumOut(in).data>> \o Closing(gs', ca')
         /\ Handed(in) => Closing(gs, ca) \o New(in) = GlueOf([n |-> gs.cnt, last |-> gs.last]) \o Closing(gs', ca')
         /\ ~GroupByte(in) /\ ~Handed(in) => Closing(gs, ca) \o New(in) = Closing(gs', ca')
<1> DEFINE x == [n |-> gs.cnt, last |-> gs.last]
           b == ChecksumOut(in).data
<1>1. /\ FlowTyped
      /\ ca.state \in {"DATA", "CHECKSUM"} /\ ca.checksum \in Byte
      /\ gs.cnt \in 0 .. MaxGroup /\ gs.last \in BOOLEAN /\ sum \in Byte
      /\ gs.last => ca.state = "DATA"
      /\ ca.state = "DATA" => ca.checksum = (0 - sum) % ByteMod
  BY DEF FlowSteady, FlowTyped, FlowKept
<1>2. in.valid \in BOOLEAN /\ in.data \in Byte /\ in.last \in BOOLEAN
  BY InputIs
<1>3. SplitterReady => gs.cnt < MaxGroup /\ ~gs.last /\ Len(fifo_len) < FifoDepth
  BY DEF SplitterReady
<1>4. GroupByte(in) => SplitterReady /\ ~Handed(in)
  <2> SUFFICES ASSUME GroupByte(in) PROVE SplitterReady /\ ~Handed(in)
    OBVIOUS
  <2>1. SplitterReady /\ ChecksumOut(in).data # delimiter
    BY DEF GroupByte, SplitterTakes
  <2>2. gs.cnt # MaxGroup /\ ~gs.last
    BY <1>1, <1>3, <2>1, MaxGroupRange
  <2> QED
    BY <2>1, <2>2 DEF Handed, GroupEnds
<1>5. gs'.last <=> (SplitterTakes(in) /\ ChecksumOut(in).last) \/ (gs.last /\ Len(fifo_len) >= FifoDepth)
  BY DEF SplitterStep
<1>6. GlueOf(x) = IF gs.last THEN <<End>> ELSE IF gs.cnt = MaxGroup THEN << >> ELSE <<delimiter>>
  BY DEF GlueOf
<1>7. Len(fifo_len) \in Nat /\ FifoDepth \in Nat
  BY <1>1, FlowRange DEF FlowTyped
<1> HIDE DEF x, b
<1>8. CASE ca.state = "CHECKSUM"
  <2>1. New(in) = << >> /\ ~gs.last
    BY <1>1, <1>8 DEF New, TakesInput
  <2>2. Closing(gs, ca) \o New(in) = <<ca.checksum, End>>
    BY <1>8, <2>1 DEF Closing
  <2>3. b = ca.checksum /\ ChecksumOut(in).last /\ ChecksumOut(in).valid
    BY <1>1, <1>8, ChecksumOutIs DEF b
  <2>4. CASE SplitterReady
    <3>1. ca' = [state |-> "DATA", checksum |-> 0]
      BY <1>8, <2>4 DEF ChecksumStep
    <3>2. gs'.last
      BY <1>5, <2>3, <2>4 DEF SplitterTakes
    <3>3. Closing(gs', ca') = <<End>>
      BY <3>2 DEF Closing
    <3>4. <<ca.checksum, End>> = <<b>> \o <<End>>
      BY <2>3
    <3>5. GroupByte(in) \/ Handed(in)
      BY <1>3, <2>3, <2>4 DEF GroupByte, Handed, GroupEnds, SplitterTakes, b
    <3>6. Handed(in) => b = delimiter
      <4>1. gs.cnt # MaxGroup
        BY <1>1, <1>3, <2>4, MaxGroupRange
      <4> QED
        BY <2>1, <4>1 DEF Handed, GroupEnds, b
    <3>7. GlueOf(x) = <<delimiter>>
      <4>1. gs.cnt # MaxGroup
        BY <1>1, <1>3, <2>4, MaxGroupRange
      <4> QED
        BY <1>6, <2>1, <4>1
    <3> QED
      BY <1>4, <2>2, <3>3, <3>4, <3>5, <3>6, <3>7 DEF x, b
  <2>5. CASE ~SplitterReady
    <3>1. ca' = ca
      BY <1>1, <1>8, <2>5 DEF ChecksumStep
    <3>2. ~gs'.last
      BY <1>5, <2>1, <2>5 DEF SplitterTakes
    <3>3. Closing(gs', ca') = <<ca.checksum, End>>
      BY <1>8, <3>1, <3>2 DEF Closing
    <3>4. ~GroupByte(in)
      BY <1>4, <2>5
    <3>5. Handed(in) => GlueOf(x) = << >>
      <4>1. Handed(in) => gs.cnt = MaxGroup
        BY <2>1, <2>5 DEF Handed, GroupEnds, SplitterTakes
      <4> QED
        BY <1>6, <2>1, <4>1
    <3>6. <<ca.checksum, End>> = << >> \o <<ca.checksum, End>>
      OBVIOUS
    <3> QED
      BY <2>2, <3>3, <3>4, <3>5, <3>6 DEF x
  <2> QED
    BY <2>4, <2>5
<1>9. CASE ca.state = "DATA" /\ gs.last
  <2>1. ~SplitterReady /\ ~TakesInput(in) /\ ~SplitterTakes(in)
    BY <1>3, <1>9 DEF TakesInput, SplitterTakes
  <2>2. New(in) = << >> /\ ca' = ca
    BY <1>9, <2>1 DEF New, ChecksumStep
  <2>3. Closing(gs, ca) \o New(in) = <<End>>
    BY <1>9, <2>2 DEF Closing
  <2>4. GlueOf(x) = <<End>> /\ ~GroupByte(in)
    BY <1>6, <1>9, <2>1 DEF GroupByte
  <2>5. Handed(in) <=> Len(fifo_len) < FifoDepth
    BY <1>9 DEF Handed, GroupEnds
  <2>6. CASE Handed(in)
    <3>1. ~gs'.last
      BY <1>5, <1>7, <2>1, <2>5, <2>6
    <3>2. Closing(gs', ca') = << >>
      BY <1>9, <2>2, <3>1 DEF Closing
    <3>3. <<End>> = <<End>> \o << >>
      OBVIOUS
    <3> QED
      BY <2>3, <2>4, <2>6, <3>2, <3>3 DEF x
  <2>7. CASE ~Handed(in)
    <3>1. gs'.last
      BY <1>5, <1>7, <1>9, <2>5, <2>7
    <3>2. Closing(gs', ca') = <<End>>
      BY <3>1 DEF Closing
    <3> QED
      BY <2>3, <2>4, <2>7, <3>2
  <2> QED
    BY <2>6, <2>7
<1>10. CASE ca.state = "DATA" /\ ~gs.last
  <2>1. Closing(gs, ca) = << >>
    BY <1>10 DEF Closing
  <2>2. New(in) \in Seq(Int) /\ Closing(gs, ca) \o New(in) = New(in)
    <3>1. in.data \in Int /\ -(sum + in.data) % ByteMod \in Int /\ End \in Int
      <4>1. in.data \in Int /\ sum \in Int
        BY <1>1, <1>2, FlowRange
      <4>2. -(sum + in.data) \in Int
        BY <4>1
      <4>3. -(sum + in.data) % ByteMod \in Byte
        BY <4>2, ByteMods
      <4> QED
        BY <4>1, <4>3, FlowRange
    <3>2. <<in.data>> \in Seq(Int) /\ <<-(sum + in.data) % ByteMod, End>> \in Seq(Int) /\ << >> \in Seq(Int)
      BY <3>1
    <3>3. <<in.data>> \o <<-(sum + in.data) % ByteMod, End>> \in Seq(Int)
      BY <3>2
    <3>4. New(in) \in Seq(Int)
      BY <3>2, <3>3 DEF New
    <3> QED
      BY <2>1, <3>4
  <2>3. b = in.data /\ ~ChecksumOut(in).last /\ (ChecksumOut(in).valid <=> in.valid)
    BY <1>1, <1>10, ChecksumOutIs DEF b
  <2>4. ~gs'.last
    BY <1>5, <1>10, <2>3
  <2>5. TakesInput(in) <=> SplitterTakes(in)
    BY <1>10, <2>3 DEF TakesInput, SplitterTakes
  <2>6. CASE TakesInput(in)
    <3>1. /\ ca' = [state |-> IF in.last THEN "CHECKSUM" ELSE "DATA", checksum |-> (ca.checksum - in.data) % ByteMod]
          /\ SplitterReady
      BY <1>10, <2>6 DEF ChecksumStep, TakesInput
    <3>2. gs.cnt # MaxGroup
      BY <1>1, <1>3, <3>1, MaxGroupRange
    <3>3. New(in) = <<in.data>> \o Closing(gs', ca')
      <4>1. CASE in.last
        <5>1. ca'.checksum = -(sum + in.data) % ByteMod
          <6>1. sum \in Int /\ in.data \in Int
            BY <1>1, <1>2, FlowRange
          <6>2. (((0 - sum) % ByteMod) - in.data) % ByteMod = -(sum + in.data) % ByteMod
            BY <6>1, ChecksumIs
          <6>3. ca'.checksum = (ca.checksum - in.data) % ByteMod /\ ca.checksum = (0 - sum) % ByteMod
            BY <1>1, <1>10, <3>1
          <6> QED
            BY <6>2, <6>3
        <5>2. Closing(gs', ca') = <<ca'.checksum, End>>
          BY <2>4, <3>1, <4>1 DEF Closing
        <5> QED
          BY <2>6, <4>1, <5>1, <5>2 DEF New
      <4>2. CASE ~in.last
        <5>1. New(in) = <<in.data>> /\ Closing(gs', ca') = << >>
          BY <2>4, <2>6, <3>1, <4>2 DEF New, Closing
        <5>2. <<in.data>> = <<in.data>> \o << >>
          OBVIOUS
        <5> QED
          BY <5>1, <5>2
      <4> QED
        BY <4>1, <4>2
    <3>4. GroupByte(in) <=> in.data # delimiter
      BY <2>3, <2>5, <2>6 DEF GroupByte, b
    <3>5. Handed(in) <=> in.data = delimiter
      BY <1>3, <1>10, <2>3, <2>5, <2>6, <3>1, <3>2 DEF Handed, GroupEnds, b
    <3>6. GlueOf(x) = <<delimiter>>
      BY <1>6, <1>10, <3>2
    <3> QED
      BY <2>2, <2>3, <3>3, <3>4, <3>5, <3>6 DEF x, b
  <2>7. CASE ~TakesInput(in)
    <3>1. New(in) = << >> /\ ca' = ca /\ ~GroupByte(in)
      BY <1>10, <2>5, <2>7 DEF New, ChecksumStep, GroupByte
    <3>2. Closing(gs', ca') = << >>
      BY <1>10, <2>4, <3>1 DEF Closing
    <3>3. Handed(in) => gs.cnt = MaxGroup
      BY <1>10, <2>5, <2>7 DEF Handed, GroupEnds
    <3>4. Handed(in) => GlueOf(x) = << >>
      BY <1>6, <1>10, <3>3
    <3>5. << >> = << >> \o << >>
      OBVIOUS
    <3> QED
      BY <2>2, <3>1, <3>2, <3>4, <3>5 DEF x
  <2> QED
    BY <2>6, <2>7
<1> QED
  BY <1>1, <1>8, <1>9, <1>10

LEMMA InputNext ==
  ASSUME FlowSteady, NEW in \in FlowInputs, ChecksumStep(in), SplitterStep(in), FifoLenStep(in), FifoDataStep(in),
         NEW P \in Seq(Int), NEW first \in Group, NEW p0 \in Nat,
         DataOut(in) \in Seq(Int), LenOut(in) \in Seq(GroupLen),
         New(in) \in Seq(Int), Closing(gs', ca') \in Seq(Int),
         Laid(P, DataOut(in), GroupsOf(first, LenOut(in)), p0, 0, gs.cnt, Closing(gs, ca) \o New(in))
  PROVE  Laid(P, fifo_data', GroupsOf(first, fifo_len'), p0, 0, gs'.cnt, Closing(gs', ca'))
<1> DEFINE x == [n |-> gs.cnt, last |-> gs.last]
           b == ChecksumOut(in).data
           D == DataOut(in)
           ls == LenOut(in)
           rest == Closing(gs', ca')
           close == Closing(gs, ca) \o New(in)
           n == gs.cnt
<1>1. FlowTyped /\ gs.cnt \in 0 .. MaxGroup /\ gs.last \in BOOLEAN
  BY DEF FlowSteady, FlowTyped
<1>2. x \in GroupLen /\ x.n = n /\ n \in Nat
  BY <1>1, MaxGroupRange DEF GroupLen
<1>3. b \in Int
  BY <1>1, ChecksumOutIs, FlowRange
<1>4. /\ GroupByte(in) => ~Handed(in) /\ close = <<b>> \o rest
      /\ Handed(in) => close = GlueOf(x) \o rest
      /\ ~GroupByte(in) /\ ~Handed(in) => close = rest
  BY ClosingNext
<1>5. /\ fifo_len' = ls \o (IF Handed(in) THEN <<x>> ELSE << >>)
      /\ fifo_data' = D \o (IF GroupByte(in) THEN <<b>> ELSE << >>)
      /\ gs'.cnt = (IF Handed(in) THEN 0 ELSE IF GroupByte(in) THEN n + 1 ELSE n)
  BY DEF FifoLenStep, FifoDataStep, SplitterStep, Handed, LenOut, DataOut
<1>6. Laid(P, D, GroupsOf(first, ls), p0, 0, n, close)
  OBVIOUS
<1>7. D \in Seq(Int) /\ ls \in Seq(GroupLen) /\ rest \in Seq(Int) /\ GroupsOf(first, ls) \in Seq(Group)
  BY GroupsAre
<1> HIDE DEF x, b, D, ls, rest, close, n
<1>8. CASE GroupByte(in)
  <2>1. fifo_len' = ls /\ fifo_data' = Append(D, b) /\ gs'.cnt = n + 1 /\ close = <<b>> \o rest
    <3>1. ~Handed(in)
      BY <1>4, <1>8
    <3>2. ls \o << >> = ls /\ D \o <<b>> = Append(D, b)
      BY <1>3, <1>7
    <3> QED
      BY <1>4, <1>5, <1>8, <3>1, <3>2
  <2>2. Laid(P, Append(D, b), GroupsOf(first, ls), p0, 0, n + 1, rest)
    BY <1>2, <1>3, <1>6, <1>7, <2>1, InByte
  <2> QED
    BY <2>1, <2>2 DEF rest
<1>9. CASE Handed(in)
  <2>1. fifo_len' = Append(ls, x) /\ fifo_data' = D /\ gs'.cnt = 0 /\ close = GlueOf(x) \o rest
    <3>1. ~GroupByte(in)
      BY <1>4, <1>9
    <3>2. D \o << >> = D /\ ls \o <<x>> = Append(ls, x)
      BY <1>2, <1>7
    <3> QED
      BY <1>4, <1>5, <1>9, <3>1, <3>2
  <2>2. Laid(P, D, GroupsOf(first, Append(ls, x)), p0, 0, 0, rest)
    BY <1>2, <1>6, <1>7, <2>1, InEnds
  <2> QED
    BY <2>1, <2>2 DEF rest
<1>10. CASE ~GroupByte(in) /\ ~Handed(in)
  <2>1. ls \o << >> = ls /\ D \o << >> = D
    BY <1>7
  <2>2. fifo_len' = ls /\ fifo_data' = D /\ gs'.cnt = n /\ close = rest
    BY <1>4, <1>5, <1>10, <2>1
  <2> QED
    BY <1>6, <2>2 DEF rest
<1> QED
  BY <1>8, <1>9, <1>10

LEMMA FlowLaidNext ==
  ASSUME FlowSteady, FlowLaid, FlowSteady', NEW in \in FlowInputs, FlowClock(in)
  PROVE  FlowLaid'
<1>1. /\ ChecksumStep(in) /\ SplitterStep(in) /\ FifoLenStep(in) /\ FifoDataStep(in) /\ CombinerStep(in)
      /\ AppenderStep(in) /\ FramerStep(in) /\ PendStep(in) /\ DecodeStep(in)
  BY DEF FlowClock
<1>2. pend' \in Seq(Int) /\ New(in) \in Seq(Int)
  BY <1>1, PendNext
<1>3. dec'.good /\ dec'.left \in Nat /\ dec'.code \in 0 .. MaxGroup + 1
  BY <1>1, DecoderNext
<1>4. /\ NextLeft' = Count(gc')
      /\ NextCode' \in 0 .. MaxGroup + 1 /\ (gc'.state = "DATA" => NextCode' # 0)
      /\ sf'.valid => /\ IsPrefix(Decoded(dec'.left, dec'.code, sf'.data), pend')
                      /\ sf'.data = delimiter => dec'.left = 0
      /\ Laid(pend', DataOut(in), GroupsOf(First(gc', da', NextCode'), LenOut(in)), Held', 0,
              gs.cnt, Closing(gs, ca) \o New(in))
  BY <1>1, OutputNext
<1>5. FlowTyped /\ fifo_len \in Seq(GroupLen) /\ fifo_data \in Seq(Byte \ {delimiter})
  BY DEF FlowSteady, FlowTyped
<1>6. LenOut(in) \in Seq(GroupLen)
  <2>1. fifo_len # << >> => Tail(fifo_len) \in Seq(GroupLen)
    BY <1>5
  <2> QED
    BY <1>5, <2>1 DEF LenOut
<1>7. DataOut(in) \in Seq(Int)
  <2>1. gc.state = "DATA" /\ CombinerFires(in) => fifo_data # << >>
    BY <1>5, CombinerOutIs, AppenderOutIs DEF CombinerFires, FramerTakes
  <2>2. fifo_data \in Seq(Int)
    BY <1>5, FlowRange
  <2>3. fifo_data # << >> => Tail(fifo_data) \in Seq(Int)
    BY <2>2
  <2> QED
    BY <2>1, <2>2, <2>3 DEF DataOut
<1>8. Closing(gs', ca') \in Seq(Int)
  <2>1. ca'.checksum \in Int
    BY FlowRange DEF FlowSteady, FlowTyped
  <2>2. <<End>> \in Seq(Int) /\ <<ca'.checksum, End>> \in Seq(Int) /\ << >> \in Seq(Int)
    BY <2>1, FlowRange
  <2> QED
    BY <2>2 DEF Closing
<1> DEFINE first == First(gc', da', NextCode')
           p0 == Held'
<1>9. first \in Group
  <2>1. gc'.state \in {"HEADER", "DATA"} /\ gc'.cnt \in Byte /\ gc'.last \in BOOLEAN
        /\ da' \in {"DATA", "DELIMITER"}
    BY DEF FlowSteady, FlowTyped
  <2>2. Count(gc') \in Nat
    BY <2>1, FlowRange DEF Count
  <2>3. Ending(gc', da') \in BOOLEAN
    BY <2>1 DEF Ending
  <2>4. GlueNow(Ending(gc', da'), NextCode') \in Seq(Int)
    BY <2>3, GlueNowIs
  <2> QED
    BY <2>2, <2>4 DEF First, Group
<1>10. p0 \in Nat
  <2>1. sf'.data \in Byte
    BY DEF FlowSteady, FlowTyped
  <2>2. sf'.data \in Int /\ dec'.left \in Int /\ dec'.code \in Int
    BY <1>3, <2>1, FlowRange
  <2>3. Len(Decoded(dec'.left, dec'.code, sf'.data)) \in Nat
    BY <2>2, DecodedIs
  <2> QED
    BY <2>3 DEF Held
<1>11. Laid(pend', DataOut(in), GroupsOf(first, LenOut(in)), p0, 0, gs.cnt, Closing(gs, ca) \o New(in))
  BY <1>4
<1> HIDE DEF first, p0
<1>12. Laid(pend', fifo_data', GroupsOf(first, fifo_len'), p0, 0, gs'.cnt, Closing(gs', ca'))
  BY <1>1, <1>2, <1>6, <1>7, <1>8, <1>9, <1>10, <1>11, InputNext
<1> QED
  BY <1>2, <1>3, <1>4, <1>12 DEF FlowLaid, first, p0

LEMMA FlowLaidStarts == FlowInit => FlowLaid
<1> SUFFICES ASSUME FlowInit PROVE FlowLaid
  OBVIOUS
<1>1. /\ dec.left = 0 /\ dec.code = 0 /\ dec.good /\ ~sf.valid /\ gc.state = "HEADER" /\ da = "DATA"
      /\ pend = << >> /\ fifo_data = << >> /\ fifo_len = << >> /\ gs.cnt = 0 /\ ~gs.last
      /\ ca.state = "DATA"
  BY DEF FlowInit
<1>2. NextLeft = 0 /\ NextCode = 0 /\ Held = 0
  BY <1>1 DEF NextLeft, NextCode, Held
<1>3. Closing(gs, ca) = << >>
  BY <1>1 DEF Closing
<1> DEFINE first == First(gc, da, NextCode)
           G == GroupsOf(first, fifo_len)
<1>4. first = [n |-> 0, glue |-> << >>]
  BY <1>1, <1>2 DEF First, Count, Ending, GlueNow
<1>5. << >> \in Seq(Int) /\ Len(<< >>) = 0 /\ << >> \in Seq(GroupLen)
  OBVIOUS
<1>6. first \in Group /\ Size(first) = 0 /\ Wide(first) = 0
  BY <1>4, <1>5, GroupIs
<1> HIDE DEF first
<1>7. G \in Seq(Group) /\ Len(G) = 1 /\ G[1] = first
  <2>1. fifo_len \in Seq(GroupLen) /\ Len(fifo_len) = 0
    BY <1>1, <1>5
  <2>2. G \in Seq(Group) /\ Len(G) = Len(fifo_len) + 1 /\ G[1] = first
    BY <1>6, <2>1, GroupsAre
  <2> QED
    BY <2>1, <2>2
<1> HIDE DEF G
<1> DEFINE f == [k \in 0 .. 1 |-> 0]
<1>8. \A k \in 0 .. 1 : f[k] = 0
  OBVIOUS
<1> HIDE DEF f
<1>9. f[0] = 0 /\ f[1] = 0 /\ 0 \in 0 .. 1 /\ 1 \in 0 .. 1
  BY <1>8
<1>10. Places(f, f, G, 1, 0, 0)
  <2>1. \A k \in 1 .. 1 : k = 1 /\ k - 1 = 0
    OBVIOUS
  <2>2. \A k \in 1 .. 1 : /\ f[k] = f[k - 1] + Size(G[k]) + Wide(G[k])
                          /\ f[k] = f[k - 1] + Size(G[k])
    BY <1>6, <1>7, <1>9, <2>1
  <2>3. \A k \in 0 .. 1 : f[k] \in Nat
    BY <1>8
  <2>4. \A j, k \in 0 .. 1 : j <= k => f[j] <= f[k]
    BY <1>8
  <2> QED
    BY <1>9, <2>2, <2>3, <2>4 DEF Places
<1>11. Covers(f, f, << >>, 0, << >>, 0, G, 1, 0, << >>, 0)
  <2>1. \A k \in 1 .. 1 : k = 1 /\ Size(G[k]) = 0 /\ Wide(G[k]) = 0
    BY <1>6, <1>7
  <2>2. \A s, a, t, b : Copied(s, a, t, b, 0)
    BY DEF Copied
  <2>3. \A k \in 1 .. 1 : /\ Copied(<< >>, f[k - 1], << >>, f[k - 1], Size(G[k]))
                          /\ Copied(<< >>, f[k - 1] + Size(G[k]), Glue(G[k]), 0, Wide(G[k]))
    BY <2>1, <2>2
  <2>4. 0 = f[1] + 0 /\ 0 = f[1] + 0 + 0
    BY <1>9
  <2> QED
    BY <2>2, <2>3, <2>4 DEF Covers
<1>12. Laid(pend, fifo_data, G, Held, 0, gs.cnt, Closing(gs, ca))
  BY <1>1, <1>2, <1>3, <1>5, <1>7, <1>10, <1>11 DEF Laid, Lies
<1>13. 0 \in 0 .. MaxGroup + 1 /\ 0 \in Nat /\ Count(gc) = 0
  BY <1>1, MaxGroupRange DEF Count
<1> QED
  BY <1>1, <1>2, <1>5, <1>12, <1>13 DEF FlowLaid, first, G

LEMMA FlowInvIs == FlowInv => FlowRight
<1> SUFFICES ASSUME FlowInv PROVE FlowRight
  OBVIOUS
<1>1. FlowTyped /\ FlowKept /\ FlowLaid
  BY DEF FlowInv, FlowSteady
<1>2. FlowTypeOK
  <2>1. ToSet(fifo_data) \subseteq Byte \ {delimiter}
    <3>1. fifo_data \in Seq(Byte \ {delimiter})
      BY <1>1 DEF FlowTyped
    <3> QED
      BY <3>1 DEF ToSet
  <2> QED
    BY <1>1, <2>1 DEF FlowTyped, FlowTypeOK
<1>3. DecodesBack
  BY <1>1 DEF DecodesBack, FlowLaid
<1>4. SuperframeWhole
  <2> SUFFICES ASSUME FlowValid, OutLast PROVE sf.data = delimiter /\ dec.left = 0
    BY DEF SuperframeWhole
  <2>1. sf.valid /\ sf.last
    BY DEF FlowValid, OutLast
  <2>2. sf.data = delimiter
    BY <1>1, <2>1 DEF FlowKept
  <2> QED
    BY <1>1, <2>1, <2>2 DEF FlowLaid
<1> QED
  BY <1>2, <1>3, <1>4 DEF FlowRight

\* Whatever the packetiser offers, and whenever the output FIFO takes a byte,
\* the host decodes the packets and their checksums, in order and without
\* loss, and a superframe ends with a packet.
THEOREM FlowIsRight == FlowSpec => []FlowRight
<1>1. FlowInit => FlowInv
  BY FlowStarts, FlowLaidStarts DEF FlowInv
<1>2. FlowInv /\ [FlowNext]_flowVars => FlowInv'
  <2> SUFFICES ASSUME FlowInv, [FlowNext]_flowVars PROVE FlowInv'
    OBVIOUS
  <2>1. FlowSteady /\ FlowLaid
    BY DEF FlowInv
  <2>2. FlowSteady'
    BY <2>1, FlowStays
  <2>3. CASE FlowNext
    <3>1. PICK in \in FlowInputs : FlowClock(in)
      BY <2>3 DEF FlowNext
    <3>2. FlowLaid'
      BY <2>1, <2>2, <3>1, FlowLaidNext
    <3> QED
      BY <2>2, <3>2 DEF FlowInv
  <2>4. CASE UNCHANGED flowVars
    <3>1. FlowLaid'
      BY <2>1, <2>4 DEF flowVars, FlowLaid, NextLeft, NextCode, Held
    <3> QED
      BY <2>2, <3>1 DEF FlowInv
  <2> QED
    BY <2>3, <2>4
<1> QED
  BY <1>1, <1>2, FlowInvIs, PTL DEF FlowSpec
=============================================================================
