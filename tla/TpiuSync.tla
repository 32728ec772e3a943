------------------------------ MODULE TpiuSync ------------------------------
(***************************************************************************)
(* TPIUSync of orbtrace/trace/tpiu.py cuts a byte stream into TPIU frames,  *)
(* fed by a trace port over a link that may lose bytes.  One step per clock *)
(* of TPIUSync.                                                            *)
(*                                                                         *)
(* The port sends frames of FrameBytes bytes (16).  Between frames it may   *)
(* send the full sync ff ff ff 7f, and before any byte at an even place the *)
(* half sync ff 7f.  Bytes are abstracted to ff, 7f and others.  An even    *)
(* byte is never ff, which would be the reserved ID 7f.                     *)
(*                                                                         *)
(* track is history: what has to come out.                                  *)
(***************************************************************************)
EXTENDS Integers, Sequences, SequencesExt

CONSTANTS
  FrameBytes,  \* bytes of a frame
  Others,      \* byte values other than ff and 7f
  MaxFrames,   \* bound: frames sent
  MaxSyncs,    \* bound: sync patterns sent
  MaxFaults    \* bound: bytes lost, and requests to synchronise anew

ASSUME SyncAssumption ==
  /\ FrameBytes \in Nat /\ FrameBytes > 3 /\ FrameBytes % 2 = 0
  /\ "ff" \notin Others /\ "7f" \notin Others
  /\ {MaxFrames, MaxSyncs, MaxFaults} \subseteq Nat

FullSync == <<"ff", "ff", "ff", "7f">>

HalfSync == <<"ff", "7f">>

VARIABLES
  buf,     \* TPIUSync: bytes shifted in since the marker bit was set
  synced,  \* TPIUSync
  port,    \* the trace port: bytes sent of the frame; last sync, rest of it
  track,   \* in_sync: a full sync arrived whole and nothing was lost since;
           \* whole: so far the sync being sent did; due: the frame that has
           \* to come out; since: bytes that arrived since reset_sync
  budget,  \* frames and syncs the bounds leave
  faults   \* faults the bounds leave

syncVars == <<buf, synced, port, track, budget, faults>>

SyncInit ==
  /\ buf = << >>
  /\ synced = FALSE
  /\ port = [frame |-> << >>, sync |-> << >>, rest |-> << >>]
  /\ track = [in_sync |-> FALSE, whole |-> FALSE, due |-> << >>,
              since |-> 0]
  /\ budget = [frames |-> MaxFrames, syncs |-> MaxSyncs]
  /\ faults = MaxFaults

-----------------------------------------------------------------------------
\* output.valid: the marker is at bit 128.  input.ready is its opposite.
SyncValid == synced /\ Len(buf) = FrameBytes

\* The register has 129 bits: what is shifted out at the top is gone.
Shift(b) ==
  IF Len(buf) = FrameBytes THEN Append(Tail(buf), b) ELSE Append(buf, b)

\* buf after byte b: a full sync restarts the frame, a half sync is cut out.
Take(b) ==
  IF IsSuffix(FullSync, buf \o b) THEN << >>
  ELSE IF IsSuffix(HalfSync, buf \o b) THEN Front(buf)
  ELSE Shift(b[1])

\* Mutant of SyncedNext: a request to synchronise anew is forgotten.
SyncedNextKeeps(b, reset) == synced \/ (b # << >> /\ IsSuffix(FullSync, buf \o b))

SyncedNext(b, reset) ==
  ~reset /\ (synced \/ (b # << >> /\ IsSuffix(FullSync, buf \o b)))

\* One clock of TPIUSync: b holds the byte that arrives, if any.
SyncStep(b, ready, reset) ==
  /\ synced' = SyncedNext(b, reset)
  /\ buf' = IF SyncValid /\ ready THEN << >>
            ELSE IF b # << >> THEN Take(b)
            ELSE buf

-----------------------------------------------------------------------------
\* The trace port.

EvenPlace == Len(port.frame) % 2 = 0

\* A byte the port may send next in a frame.  ID 3f in an even place right
\* after a byte ff looks like a half sync; the ports this code is used with
\* have no such ID.
FrameByte(b) ==
  EvenPlace =>
    /\ b # "ff"
    /\ ~(b = "7f" /\ IsSuffix(<<"ff">>, port.frame))

Syncs == {HalfSync} \cup (IF port.frame = << >> THEN {FullSync} ELSE {})

FullEnds(p) == p.rest = << >> /\ p.sync = FullSync

\* The port sends its next byte b.
PortSends(b) ==
  \/ /\ port.rest # << >>
     /\ b = Head(port.rest)
     /\ port' = [port EXCEPT !.rest = Tail(@)]
     /\ budget' = budget
  \/ /\ port.rest = << >> /\ EvenPlace /\ budget.syncs > 0
     /\ \E sync \in Syncs :
          /\ b = Head(sync)
          /\ port' = [port EXCEPT !.sync = sync, !.rest = Tail(sync)]
     /\ budget' = [budget EXCEPT !.syncs = @ - 1]
  \/ /\ port.rest = << >> /\ FrameByte(b)
     /\ port.frame = << >> => budget.frames > 0
     /\ port' = [frame |-> IF Len(port.frame) + 1 = FrameBytes THEN << >>
                           ELSE Append(port.frame, b),
                 sync |-> << >>, rest |-> << >>]
     /\ budget' = [budget EXCEPT !.frames = IF port.frame = << >> THEN @ - 1 ELSE @]

\* Byte b has arrived at TPIUSync, or was lost on the way.
Tracked(b, lost) ==
  LET starts == port.rest = << >> /\ port'.rest # << >>
      whole  == ~lost /\ (starts \/ track.whole)
      locks  == whole /\ port.rest # << >> /\ FullEnds(port')
      ends   == port.rest = << >> /\ port'.rest = << >> /\ port'.frame = << >>
  IN  [whole   |-> whole,
       in_sync |-> ~lost /\ (track.in_sync \/ locks),
       due     |-> IF ~lost /\ track.in_sync /\ ends
                   THEN Append(port.frame, b) ELSE track.due,
       since   |-> IF lost \/ track.since > FrameBytes THEN track.since
                   ELSE track.since + 1]

\* A byte arrives.  TPIUSync takes none while a frame waits for its reader.
Arrive(b) ==
  /\ ~SyncValid
  /\ PortSends(b)
  /\ SyncStep(<<b>>, FALSE, FALSE)
  /\ track' = Tracked(b, FALSE)
  /\ UNCHANGED faults

\* The reader takes the frame.  That clears buf: after lost bytes a frame may
\* end inside a full sync, whose first bytes are then gone.
Read ==
  /\ SyncValid
  /\ SyncStep(<< >>, TRUE, FALSE)
  /\ track' = [track EXCEPT !.due = << >>, !.whole = @ /\ port.rest = << >>]
  /\ UNCHANGED <<port, budget, faults>>

\* A byte is lost.
Lose(b) ==
  /\ faults > 0
  /\ PortSends(b)
  /\ SyncStep(<< >>, FALSE, FALSE)
  /\ track' = Tracked(b, TRUE)
  /\ faults' = faults - 1

\* reset_sync is high for a clock: the input format was chosen anew.  A frame
\* that waits may be taken in that clock.
Reset ==
  /\ faults > 0
  /\ \E ready \in BOOLEAN : SyncStep(<< >>, ready, TRUE)
  /\ track' = [track EXCEPT !.in_sync = FALSE, !.due = << >>, !.since = 0,
                            !.whole = @ /\ port.rest = << >>]
  /\ faults' = faults - 1
  /\ UNCHANGED <<port, budget>>

\* reset_sync is high in a clock in which a byte arrives.
ResetArrive(b) ==
  /\ faults > 0
  /\ ~SyncValid
  /\ PortSends(b)
  /\ SyncStep(<<b>>, FALSE, TRUE)
  /\ track' = [Tracked(b, FALSE) EXCEPT !.in_sync = FALSE, !.due = << >>, !.since = 0]
  /\ faults' = faults - 1

SyncNext ==
  \/ Read
  \/ Reset
  \/ \E b \in Others \cup {"ff", "7f"} : Arrive(b) \/ Lose(b) \/ ResetArrive(b)

SyncSpec == SyncInit /\ [][SyncNext]_syncVars

-----------------------------------------------------------------------------
\* TPIUSync is synchronised from the first full sync that arrives whole, unless
\* a frame cut out in the wrong place is handed out in the middle of that sync.
LocksOnFullSync == track.in_sync => synced

\* From then on it hands out the frames the port sends, each whole and in its
\* place, and nothing else, whatever half and full syncs are mixed in; a frame
\* waits unharmed for its reader.
SyncFramesRight ==
  /\ track.due # << >> => SyncValid /\ buf = track.due
  /\ track.in_sync /\ SyncValid => track.due # << >>

\* After reset, or a request to synchronise anew, a frame comes out only when
\* the end of a full sync and all its bytes have arrived since: none is left
\* over from before.
NoStaleFrame == SyncValid => track.since > FrameBytes

\* All of it: locked from the first whole full sync on; then the frames of the port and
\* nothing else; after a reset nothing left over from before.
SyncRight == LocksOnFullSync /\ SyncFramesRight /\ NoStaleFrame
=============================================================================
