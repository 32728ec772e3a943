------------------------------ MODULE TraceIF ------------------------------
(***************************************************************************)
(* verilog/traceIF.v: the parallel trace port cut into TPIU frames, one     *)
(* step per trace clock.  A clock brings two elements, the pins at its      *)
(* rising and at its falling edge; a 16-bit word is WordElems of them.      *)
(*                                                                         *)
(* Elements are abstracted to "f", all ones, "7", ones but for the top bit, *)
(* and others.  The port may start on either edge.  A fault samples an      *)
(* element twice or misses one, after which the words lie on the other      *)
(* edge.                                                                   *)
(*                                                                         *)
(* watch is history: what has to come out.                                 *)
(***************************************************************************)
EXTENDS Integers, Sequences, SequencesExt

CONSTANTS
  WordElems,   \* elements of a 16-bit word: 4 of 4 pins, 8 of 2, 16 of 1
  FrameWords,  \* words of a frame (8)
  Words        \* words of frames

ASSUME SizeAssumption ==
  /\ WordElems \in Nat /\ WordElems > 3 /\ WordElems % 2 = 0
  /\ FrameWords \in Nat /\ FrameWords > 1
  /\ \A w \in Words : w \in Seq({"f", "7", "0"}) /\ Len(w) = WordElems

\* The byte a word begins with is never ff, which would be the reserved ID 7f.
ASSUME WordAssumption == \A w \in Words : \E i \in 1 .. WordElems \div 2 : w[i] # "f"

\* 7fff and 7fff_ffff, the element sent first in front.
HalfSyncElems == [i \in 1 .. WordElems |-> IF i = WordElems THEN "7" ELSE "f"]

SyncElems == 2 * WordElems

FullSyncElems == [i \in 1 .. SyncElems |-> IF i = SyncElems THEN "7" ELSE "f"]

VARIABLES
  construct,        \* the last elements, the latest at the end
  cFrame,           \* the frame being constructed: its words but the last
  remainingClocks,  \* clocks to the end of the word
  elemCount,        \* the word waited for, counted down
  isREsync,         \* the words end with the falling edge's element
  pins,             \* elements the port still has of its word, words of its frame
  watch

pinsVars == <<construct, cFrame, remainingClocks, elemCount, isREsync, pins, watch>>

NoFrame == << >>

PinsInit ==
  /\ construct = [i \in 1 .. SyncElems + 1 |-> "0"]
  /\ cFrame = [i \in 1 .. FrameWords - 1 |-> << >>]
  /\ remainingClocks = 0
  /\ elemCount = FrameWords - 1
  /\ isREsync = FALSE
  /\ pins = [rest |-> << >>, frame |-> << >>]
  /\ watch = [in_sync |-> FALSE, clean |-> 0, due |-> NoFrame, good |-> TRUE]

-----------------------------------------------------------------------------
REsyncPacket == IsSuffix(FullSyncElems, construct)

FEsyncPacket == IsPrefix(FullSyncElems, construct)

\* The last word, on the edge the last sync was on.
packet ==
  LET last == IF isREsync THEN SyncElems + 1 ELSE SyncElems
  IN  SubSeq(construct, last - WordElems + 1, last)

\* The clocks of a word but one.
packetClocks == (WordElems \div 2) - 1

Synced == REsyncPacket \/ FEsyncPacket

WordTaken == ~Synced /\ remainingClocks = 0 /\ packet # HalfSyncElems

\* The frame that becomes available in this clock.
Emitted ==
  IF WordTaken /\ elemCount = 0 THEN Append(cFrame, packet) ELSE NoFrame

\* Mutant of ElemCountNext: a full sync does not start the frame anew.
ElemCountNextKeeps ==
  IF WordTaken THEN (elemCount - 1) % FrameWords ELSE elemCount

ElemCountNext ==
  IF Synced THEN FrameWords - 1
  ELSE IF WordTaken THEN (elemCount - 1) % FrameWords
  ELSE elemCount

RemainingNext ==
  IF Synced \/ remainingClocks = 0 THEN packetClocks ELSE remainingClocks - 1

\* One trace clock with elements a and b.
CaptureStep(a, b) ==
  /\ construct' = SubSeq(construct \o <<a, b>>, 3, SyncElems + 3)
  /\ isREsync' = IF FEsyncPacket THEN FALSE ELSE isREsync \/ REsyncPacket
  /\ remainingClocks' = RemainingNext
  /\ elemCount' = ElemCountNext
  /\ cFrame' = IF WordTaken /\ elemCount > 0
               THEN [cFrame EXCEPT ![FrameWords - elemCount] = packet]
               ELSE cFrame

-----------------------------------------------------------------------------
\* The trace port.  The last element of a full sync and of a frame is marked.

NoMark == [sync |-> FALSE, frame |-> NoFrame]

Elems(word, mark) ==
  [i \in 1 .. Len(word) |->
     [v |-> word[i], mark |-> IF i = Len(word) THEN mark ELSE NoMark]]

\* What the port may send next: a full sync between frames, a half sync
\* between words, or the next word of a frame.
NextItems ==
  {[elems |-> Elems(HalfSyncElems, NoMark), frame |-> pins.frame]}
    \cup (IF pins.frame = << >>
          THEN {[elems |-> Elems(FullSyncElems, [NoMark EXCEPT !.sync = TRUE]), frame |-> << >>]} ELSE {})
    \cup {LET words == Append(pins.frame, w)
          IN  IF Len(words) = FrameWords
              THEN [elems |-> Elems(w, [NoMark EXCEPT !.frame = words]), frame |-> << >>]
              ELSE [elems |-> Elems(w, NoMark), frame |-> words] : w \in Words}

\* The port's elements from now on, and its frame.
Ahead ==
  IF Len(pins.rest) > 2 THEN {[elems |-> pins.rest, frame |-> pins.frame]}
  ELSE {[item EXCEPT !.elems = pins.rest \o @] : item \in NextItems}

\* Element e has been sampled.
Sampled(t, e) ==
  LET locks == e.mark.sync /\ t.clean >= SyncElems - 1
  IN  [in_sync |-> t.in_sync \/ locks,
       clean   |-> IF t.clean < SyncElems THEN t.clean + 1 ELSE t.clean,
       due     |-> IF t.in_sync /\ e.mark.frame # NoFrame THEN e.mark.frame ELSE t.due,
       good    |-> t.good]

\* The frame that was sampled completely in the last clock is made available
\* in this one.
Checked ==
  [watch EXCEPT !.good = @ /\ (watch.in_sync => Emitted = watch.due), !.due = NoFrame]

PinsClock ==
  \E ahead \in Ahead :
    /\ CaptureStep(ahead.elems[1].v, ahead.elems[2].v)
    /\ pins' = [rest |-> SubSeq(ahead.elems, 3, Len(ahead.elems)), frame |-> ahead.frame]
    /\ watch' = Sampled(Sampled(Checked, ahead.elems[1]), ahead.elems[2])

\* A clock with a fault: its edges sample elements i and j, and the port goes
\* on by n.  Bound: faults are at least SyncElems elements apart.
Fault(i, j, n) ==
  /\ watch.clean = SyncElems
  /\ \E ahead \in Ahead :
       /\ CaptureStep(ahead.elems[i].v, ahead.elems[j].v)
       /\ pins' = [rest |-> SubSeq(ahead.elems, n + 1, Len(ahead.elems)), frame |-> ahead.frame]
       /\ watch' = [Checked EXCEPT !.in_sync = FALSE, !.clean = 0]

PinsNext ==
  \/ PinsClock
  \/ Fault(1, 1, 1)
  \/ Fault(1, 3, 3)
  \/ Fault(2, 3, 3)

PinsSpec == PinsInit /\ [][PinsNext]_pinsVars

-----------------------------------------------------------------------------
\* From the first full sync that was sampled without a fault, on whichever
\* edge, and until the next fault, every frame the port sends becomes
\* available as soon as its last element has been sampled, whole, without the
\* half syncs, and nothing else does: no data is taken for a sync either.
PinsFramesRight == watch.good
=============================================================================
