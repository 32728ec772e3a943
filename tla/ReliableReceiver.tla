-------------------------- MODULE ReliableReceiver --------------------------
(***************************************************************************)
(* The receiver of the NACK transport: class ReliableReceiver and the loop *)
(* of main() in syn/artix7/bringup/scripts/nack_rx.py.                     *)
(*                                                                         *)
(* One thread repeats  recvfrom -> on_packet -> deliver -> due_nacks.  pc  *)
(* is the place in that loop; every turn of deliver's while is one step.   *)
(* Time passes between any two steps (Tick).  A hole keeps the time since  *)
(* it was first seen instead of the wall clock time at which it was.       *)
(*                                                                         *)
(* The stream the FPGA sends is the packets 0, 1, 2, ...; packet i carries *)
(* WireSeq(i) and its payload is abstracted to i itself.  pos is a history *)
(* variable: the index of the packet the receiver has to deliver next.     *)
(* is_rtx only feeds a statistic and is left out with the statistics.      *)
(***************************************************************************)
EXTENDS SeqArith, NackProtocol, FiniteSetsExt, Functions

CONSTANTS
  Horizon,       \* how far from the next packet an arriving one can be
  MaxRetries,    \* max_retries
  RetryAfter,    \* retry_after, in ticks
  DebouncePkts,  \* debounce_pkts
  NackMaxSpan,   \* nack_max_span
  MaxIndex       \* bound: packets 0 .. MaxIndex are sent

\* Two packets in flight, or a packet and highest_seen, are never more than
\* half the sequence circle apart (2^30 packets of 1 KiB are 1 TiB).
ASSUME HorizonAssumption == Horizon \in Nat \ {0} /\ 2 * Horizon <= SeqHalf

ASSUME RetryAssumption ==
  /\ MaxRetries \in Nat \ {0}
  /\ RetryAfter \in Nat
  /\ DebouncePkts \in Nat
  /\ NackMaxSpan \in Nat \ {0}

ASSUME MaxIndexAssumption == MaxIndex \in Nat

VARIABLES
  expected,      \* next seq to deliver, None until the first packet
  buf,           \* seq -> payload held out of order
  missing,       \* seq -> [age, retries] of a hole
  highest_seen,
  pc,            \* "recv", "deliver", "nack" or "done"
  due,           \* the holes the last due_nacks() requested
  out,           \* the item deliver() produced last
  pos            \* history: index of the next packet to deliver

vars == <<expected, buf, missing, highest_seen, pc, due, out, pos>>

\* Python's None: no sequence number, no payload.
None == -1

\* No comparison in the code tells apart ages above the last retry time.
MaxAge == RetryAfter * MaxRetries

Init ==
  /\ expected = None
  /\ buf = << >>
  /\ missing = << >>
  /\ highest_seen = None
  /\ pc = "recv"
  /\ due = {}
  /\ out = [seq |-> None, data |-> None]
  /\ pos = 0

-----------------------------------------------------------------------------
\* Mutant of SeqsBetween: the walk starts one too far.
SeqsStrictlyBetween(lo, hi) ==
  {s \in SeqNums : SeqDiff(s, lo) > 0 /\ SeqDiff(s, lo) < SeqDiff(hi, lo)}

\* Sequence numbers from lo up to but not including hi, walking forward.
SeqsBetween(lo, hi) == {s \in SeqNums : SeqDiff(s, lo) < SeqDiff(hi, lo)}

NewHole == [age |-> 0, retries |-> 0]

Highest(seq) ==
  IF highest_seen = None \/ SeqGt(seq, highest_seen) THEN seq ELSE highest_seen

\* on_packet(): the baseline, highest_seen, the late drop, the filled hole
\* and the newly seen holes, for packet i.
OnPacket(i) ==
  LET seq   == WireSeq(i)
      exp   == IF expected = None THEN seq ELSE expected
      held  == DOMAIN buf \cup {seq}
      newer == IF SeqGt(seq, exp) THEN SeqsBetween(exp, seq) ELSE {}
      holes == (DOMAIN missing \cup newer) \ held
  IN  /\ expected' = exp
      /\ pos' = IF expected = None THEN i ELSE pos
      /\ highest_seen' = Highest(seq)
      /\ IF SeqLt(seq, exp)
         THEN UNCHANGED <<buf, missing>>
         ELSE /\ buf' = [s \in held |-> IF s = seq THEN i ELSE buf[s]]
              /\ missing' = [s \in holes |-> IF s \in DOMAIN missing
                                             THEN missing[s] ELSE NewHole]

\* What the network hands over: any packet of the stream, as often as it
\* likes and in any order, no further than Horizon from the next one.
InHorizon(i) ==
  /\ i \in 0 .. MaxIndex
  /\ expected # None => i >= pos - Horizon /\ i < pos + Horizon

\* recvfrom() returns a datagram long enough to parse.
RecvPacket(i) ==
  /\ pc = "recv"
  /\ InHorizon(i)
  /\ OnPacket(i)
  /\ pc' = "deliver"
  /\ due' = {}
  /\ UNCHANGED out

\* recvfrom() times out, or the datagram is shorter than the header.
RecvNothing ==
  /\ pc = "recv"
  /\ pc' = "deliver"
  /\ due' = {}
  /\ UNCHANGED <<expected, buf, missing, highest_seen, out, pos>>

\* A turn of deliver(): the expected packet is held.
DeliverPacket ==
  /\ pc = "deliver"
  /\ expected # None
  /\ expected \in DOMAIN buf
  /\ out' = [seq |-> expected, data |-> buf[expected]]
  /\ buf' = Restrict(buf, DOMAIN buf \ {expected})
  /\ expected' = NextSeq(expected)
  /\ pos' = pos + 1
  /\ UNCHANGED <<missing, highest_seen, pc, due>>

\* Mutant of DeliverGap: a hole is given up without asking again.
DeliverGapEager ==
  /\ pc = "deliver"
  /\ expected # None
  /\ expected \in DOMAIN missing
  /\ out' = [seq |-> expected, data |-> None]
  /\ missing' = Restrict(missing, DOMAIN missing \ {expected})
  /\ expected' = NextSeq(expected)
  /\ pos' = pos + 1
  /\ UNCHANGED <<buf, highest_seen, pc, due>>

\* A turn of deliver(): the expected packet is a hole out of retries.
DeliverGap ==
  /\ pc = "deliver"
  /\ expected # None
  /\ expected \notin DOMAIN buf
  /\ expected \in DOMAIN missing
  /\ missing[expected].retries >= MaxRetries
  /\ out' = [seq |-> expected, data |-> None]
  /\ missing' = Restrict(missing, DOMAIN missing \ {expected})
  /\ expected' = NextSeq(expected)
  /\ pos' = pos + 1
  /\ UNCHANGED <<buf, highest_seen, pc, due>>

\* deliver() returns: nothing received yet, or a hole that may be filled.
DeliverStop ==
  /\ pc = "deliver"
  /\ expected # None =>
       /\ expected \notin DOMAIN buf
       /\ expected \in DOMAIN missing => missing[expected].retries < MaxRetries
  /\ pc' = "nack"
  /\ UNCHANGED <<expected, buf, missing, highest_seen, due, out, pos>>

\* Mutant of NackDue: the last retry is never made.
NackDueOneShort(s) ==
  /\ missing[s].age >= RetryAfter * (missing[s].retries + 1)
  /\ missing[s].retries < MaxRetries - 1

\* The condition under which due_nacks() requests hole s.
NackDue(s) ==
  LET hole      == missing[s]
      newer     == IF highest_seen # None THEN SeqDiff(highest_seen, s) ELSE 0
      debounced == newer >= DebouncePkts \/ hole.age >= RetryAfter
      retryDue  == hole.age >= RetryAfter * (hole.retries + 1)
  IN  debounced /\ retryDue /\ hole.retries < MaxRetries

DueNacks ==
  /\ pc = "nack"
  /\ due' = {s \in DOMAIN missing : NackDue(s)}
  /\ missing' = [s \in DOMAIN missing |->
                   [age     |-> missing[s].age,
                    retries |-> IF NackDue(s) THEN missing[s].retries + 1
                                              ELSE missing[s].retries]]
  /\ pc' = "recv"
  /\ UNCHANGED <<expected, buf, highest_seen, out, pos>>

\* The NACK requests main() sends for the last due_nacks().
NackRuns == CoalesceGaps(due, NackMaxSpan)

\* time.monotonic() advances by one tick.
Tick ==
  /\ pc # "done"
  /\ missing' = [s \in DOMAIN missing |->
                   [age     |-> IF missing[s].age < MaxAge
                                THEN missing[s].age + 1 ELSE MaxAge,
                    retries |-> missing[s].retries]]
  /\ UNCHANGED <<expected, buf, highest_seen, pc, due, out, pos>>

\* time.monotonic() >= t_end: main() returns; what buf holds is discarded.
Exit ==
  /\ pc = "recv"
  /\ pc' = "done"
  /\ UNCHANGED <<expected, buf, missing, highest_seen, due, out, pos>>

Terminated == pc = "done" /\ UNCHANGED vars

Loop == DeliverPacket \/ DeliverGap \/ DeliverStop \/ DueNacks

Next ==
  \/ \E i \in 0 .. MaxIndex : RecvPacket(i)
  \/ RecvNothing
  \/ DeliverPacket
  \/ DeliverGap
  \/ DeliverStop
  \/ DueNacks
  \/ Tick
  \/ Exit
  \/ Terminated

Spec == Init /\ [][Next]_vars

\* main() keeps running and recvfrom() returns or times out, and the clock
\* advances.  Nothing is assumed of the network or of Exit.
Fairness ==
  /\ WF_vars(RecvNothing \/ \E i \in 0 .. MaxIndex : RecvPacket(i))
  /\ WF_vars(Loop)
  /\ WF_vars(Tick)

FairSpec == Spec /\ Fairness

-----------------------------------------------------------------------------
Hole == [age : 0 .. MaxAge, retries : 0 .. MaxRetries]

\* Every variable has the type its initialisation and updates give it.
TypeOK ==
  /\ expected \in SeqNums \cup {None}
  /\ highest_seen \in SeqNums \cup {None}
  /\ DOMAIN buf \in SUBSET SeqNums
  /\ buf \in [DOMAIN buf -> Nat]
  /\ DOMAIN missing \in SUBSET SeqNums
  /\ missing \in [DOMAIN missing -> Hole]
  /\ pc \in {"recv", "deliver", "nack", "done"}
  /\ due \in SUBSET SeqNums
  /\ out \in [seq : SeqNums \cup {None}, data : Nat \cup {None}]
  /\ pos \in Nat

\* Before the first packet there is no state; from then on expected is the
\* wire number of packet pos, however often the counter has wrapped.
Baseline ==
  /\ expected = None <=> highest_seen = None
  /\ expected = None => /\ DOMAIN buf = {} /\ DOMAIN missing = {}
                         /\ out.seq = None /\ pos = 0
  /\ expected # None => expected = WireSeq(pos)

\* The half circle compare never confuses two laps of the counter: a held
\* payload under number s is the packet of the current window with that
\* number, so on_packet neither held a late packet as a future one nor
\* overwrote one packet by another.
HeldInWindow ==
  \A s \in DOMAIN buf :
    /\ buf[s] >= pos
    /\ buf[s] < pos + Horizon
    /\ WireSeq(buf[s]) = s

\* Every number from expected up to highest_seen is either held or a hole
\* that due_nacks() works on, never both, and nothing else is.  A number in
\* neither dictionary would stop deliver() for ever, with no NACK sent.
WindowCovered ==
  expected # None =>
    /\ DOMAIN buf \cap DOMAIN missing = {}
    /\ DOMAIN buf \cup DOMAIN missing
         = {s \in SeqNums : SeqDiff(s, expected)
                              < SeqDiff(NextSeq(highest_seen), expected)}

\* highest_seen itself is held until it is delivered, so a hole is always
\* followed by a packet that arrived: the stream never ends in a hole.
HighestHeld ==
  DOMAIN missing # {} => highest_seen \in DOMAIN buf

\* What was delivered last is packet pos - 1 with its own payload, or the
\* mark of a hole at that place.
DeliveredRight ==
  out.seq # None =>
    /\ out.seq = WireSeq(pos - 1)
    /\ out.data \in {pos - 1, None}

\* The window between expected and highest_seen is held or missing without a hole in
\* between, numbers are never of another lap, and what leaves it is the stream in order.
WindowRight == HeldInWindow /\ WindowCovered /\ DeliveredRight

\* Requests for a hole are at least RetryAfter apart, counted from when it
\* was seen: after r requests it is at least r * RetryAfter old.
RetryPacing ==
  \A s \in DOMAIN missing :
    missing[s].retries * RetryAfter <= missing[s].age

\* A hole is given up only when it "stays missing past MAX_RETRIES *
\* timeout" (nack_rx.py), each request having been made; and a packet that
\* arrived is never given up.
GapAfterBudget ==
  [][ (expected # None /\ pos' = pos + 1 /\ out'.data = None) =>
        /\ expected \in DOMAIN missing \ DOMAIN buf
        /\ missing[expected].age >= MaxRetries * RetryAfter
        /\ missing[expected].retries = MaxRetries ]_vars

\* Nothing held is stuck: every hole before it is filled or given up, and
\* deliver() gets to it, unless main() returns first.
HeldDelivered ==
  \A s \in SeqNums :
    (s \in DOMAIN buf) ~> (s \notin DOMAIN buf \/ pc = "done")

\* The receiver implements the gap stream: whatever the network loses,
\* repeats or reorders, the packets come out in order, once, unmixed.
Gap == INSTANCE GapStream WITH
  Index   <- 0 .. MaxIndex,
  started <- expected # None,
  arrived <- {buf[s] : s \in DOMAIN buf},
  next    <- pos,
  data    <- out.data

GapStreamSpec == Gap!GapSpec
=============================================================================
