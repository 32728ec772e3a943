----------------------- MODULE ReliableReceiverProofs -----------------------
(***************************************************************************)
(* The receiver of nack_rx.py, for every width of the sequence counter,    *)
(* every horizon within a quarter of it, every retry setting and every     *)
(* length of the stream.                                                   *)
(***************************************************************************)
EXTENDS ReliableReceiver, ModFacts

-----------------------------------------------------------------------------
(* The sequence numbers of SeqArith, for every width.  A wire number forgets *)
(* which lap of the counter its packet belongs to; these lemmas say when the  *)
(* receiver's arithmetic on wire numbers gives the answer that the indexes of *)
(* the packets would give.                                                   *)

\* The wire counter has at least two values.
LEMMA ModulusType == SeqModulus \in Nat /\ SeqModulus >= 2
  BY SeqHalfAssumption DEF SeqModulus

\* Division with remainder by the size of the counter.
LEMMA DivMod ==
  ASSUME NEW x \in Int
  PROVE  /\ x \div SeqModulus \in Int
         /\ x % SeqModulus \in 0 .. SeqModulus - 1
         /\ x = SeqModulus * (x \div SeqModulus) + (x % SeqModulus)
  BY ModulusType, DivModBy

\* The remainder is unique.
LEMMA ModUnique ==
  ASSUME NEW x \in Int, NEW q \in Int, NEW r \in 0 .. SeqModulus - 1,
         x = SeqModulus * q + r
  PROVE  x % SeqModulus = r
  BY ModulusType, ModUniqueBy

\* What the remainder is within one lap of zero.
LEMMA ModSmall ==
  ASSUME NEW x \in Int
  PROVE  /\ (0 <= x /\ x < SeqModulus) => x % SeqModulus = x
         /\ (-SeqModulus <= x /\ x < 0) => x % SeqModulus = x + SeqModulus
<1>1. SeqModulus \in Nat /\ SeqModulus >= 1 /\ SeqModulus - 1 \in Int
  BY ModulusType
<1>2. ASSUME -SeqModulus <= x, x < 0 PROVE x % SeqModulus = x + SeqModulus
  <2>1. /\ x = SeqModulus * (-1) + (x + SeqModulus)
        /\ x + SeqModulus \in 0 .. SeqModulus - 1
    BY <1>1, <1>2
  <2> QED
    BY <2>1, ModUnique
<1> QED
  BY <1>1, <1>2, ModNear

\* Reducing the two operands first does not change a difference.
LEMMA ModDiff ==
  ASSUME NEW i \in Int, NEW j \in Int
  PROVE  ((i % SeqModulus) - (j % SeqModulus)) % SeqModulus
           = (i - j) % SeqModulus
<1>1. SeqModulus \in Nat /\ SeqModulus >= 1
  BY ModulusType
<1> QED
  BY <1>1, ModDiffBy

\* A packet's wire number is a sequence number.
LEMMA WireSeqType ==
  ASSUME NEW i \in Int
  PROVE  WireSeq(i) \in SeqNums
  BY DivMod, ModulusType DEF WireSeq, SeqNums

\* The difference of two wire numbers, for packets less than a lap apart.
LEMMA WireSeqDiff ==
  ASSUME NEW i \in Int, NEW j \in Int
  PROVE  /\ i >= j /\ i - j < SeqModulus => SeqDiff(WireSeq(i), WireSeq(j)) = i - j
         /\ i < j /\ j - i <= SeqModulus =>
              SeqDiff(WireSeq(i), WireSeq(j)) = i - j + SeqModulus
<1>1. SeqDiff(WireSeq(i), WireSeq(j)) = (i - j) % SeqModulus
  BY ModDiff DEF SeqDiff, WireSeq
<1>2. i - j \in Int
  OBVIOUS
<1> QED
  BY <1>1, <1>2, ModSmall, ModulusType

\* Packets less than a lap apart have different wire numbers.
LEMMA WireSeqInjective ==
  ASSUME NEW i \in Int, NEW j \in Int,
         i - j < SeqModulus, j - i < SeqModulus,
         WireSeq(i) = WireSeq(j)
  PROVE  i = j
<1>1. SeqDiff(WireSeq(i), WireSeq(j)) = 0
  <2>1. WireSeq(i) - WireSeq(j) = 0
    BY WireSeqType, ModulusType DEF SeqNums
  <2> QED
    BY <2>1, ModSmall, ModulusType DEF SeqDiff
<1> QED
  BY <1>1, WireSeqDiff, ModulusType

\* The successor of a wire number is the wire number of the successor.
LEMMA WireSeqNext ==
  ASSUME NEW i \in Int
  PROVE  NextSeq(WireSeq(i)) = WireSeq(i + 1)
<1>1. SeqModulus \in Nat /\ SeqModulus >= 1
  BY ModulusType
<1>2. ((i % SeqModulus) + 1) % SeqModulus = (i + 1) % SeqModulus
  BY <1>1, ModSum
<1> QED
  BY <1>2 DEF NextSeq, WireSeq

\* The half circle compare is right for packets less than half a lap apart.
LEMMA WireSeqGt ==
  ASSUME NEW i \in Int, NEW j \in Int,
         i - j < SeqHalf, j - i < SeqHalf
  PROVE  SeqGt(WireSeq(i), WireSeq(j)) <=> i > j
<1>1. CASE i > j
  <2>1. SeqDiff(WireSeq(i), WireSeq(j)) = i - j
    BY <1>1, WireSeqDiff, SeqHalfAssumption DEF SeqModulus
  <2>2. WireSeq(i) # WireSeq(j)
    BY <1>1, WireSeqInjective, SeqHalfAssumption DEF SeqModulus
  <2> QED
    BY <1>1, <2>1, <2>2 DEF SeqGt
<1>2. CASE i = j
  BY <1>2 DEF SeqGt
<1>3. CASE i < j
  <2>1. SeqDiff(WireSeq(i), WireSeq(j)) = i - j + SeqModulus
    BY <1>3, WireSeqDiff, SeqHalfAssumption DEF SeqModulus
  <2> QED
    BY <1>3, <2>1, SeqHalfAssumption DEF SeqGt, SeqModulus
<1> QED
  BY <1>1, <1>2, <1>3

\* Every sequence number is the wire number of the packet that lies its
\* forward distance ahead of p.
LEMMA WireSeqOnto ==
  ASSUME NEW p \in Int, NEW s \in SeqNums
  PROVE  /\ SeqDiff(s, WireSeq(p)) \in 0 .. SeqModulus - 1
         /\ s = WireSeq(p + SeqDiff(s, WireSeq(p)))
<1> DEFINE M == SeqModulus
           r == p % M
           q == p \div M
           d == (s - r) % M
           u == (s - r) \div M
<1>1. p = M * q + r /\ q \in Int /\ r \in 0 .. M - 1
  BY DivMod
<1>2. M \in Nat /\ s \in 0 .. M - 1
  BY ModulusType DEF SeqNums
<1>3. s - r \in Int
  BY <1>1, <1>2
<1>4. s - r = M * u + d /\ u \in Int /\ d \in 0 .. M - 1
  BY <1>3, DivMod
<1>5. d = SeqDiff(s, WireSeq(p))
  BY DEF SeqDiff, WireSeq
<1> HIDE DEF M, r, q, d, u
<1>6. M * (q - u) = M * q - M * u
  BY <1>1, <1>2, <1>4
<1>7. p + d = M * (q - u) + s /\ p + d \in Int /\ q - u \in Int
  BY <1>1, <1>2, <1>4, <1>6
<1>8. (p + d) % M = s
  BY <1>2, <1>7, ModUnique DEF M
<1> QED
  BY <1>4, <1>5, <1>8 DEF WireSeq, M

\* The numbers within forward distance k of packet p are those of the k
\* packets from p on.
LEMMA WireWindow ==
  ASSUME NEW p \in Int, NEW k \in 0 .. SeqModulus - 1
  PROVE  {s \in SeqNums : SeqDiff(s, WireSeq(p)) < k}
           = {WireSeq(i) : i \in p .. p + k - 1}
<1>1. ASSUME NEW s \in SeqNums, SeqDiff(s, WireSeq(p)) < k
      PROVE  s \in {WireSeq(i) : i \in p .. p + k - 1}
  <2>1. p + SeqDiff(s, WireSeq(p)) \in p .. p + k - 1
    BY <1>1, WireSeqOnto, ModulusType
  <2> QED
    BY <2>1, WireSeqOnto
<1>2. ASSUME NEW i \in p .. p + k - 1
      PROVE  WireSeq(i) \in SeqNums /\ SeqDiff(WireSeq(i), WireSeq(p)) < k
  BY WireSeqType, WireSeqDiff, ModulusType
<1> QED
  BY <1>1, <1>2

-----------------------------------------------------------------------------
\* The bounds on the horizon, in the form the arithmetic needs.
LEMMA HorizonFacts ==
  /\ Horizon \in Nat
  /\ Horizon >= 1
  /\ 2 * Horizon <= SeqHalf
  /\ SeqHalf \in Nat
  /\ SeqModulus = 2 * SeqHalf
  BY HorizonAssumption, SeqHalfAssumption DEF SeqModulus

\* The age at which the last retry is due is a number.
LEMMA MaxAgeType == MaxAge \in Nat
  BY RetryAssumption DEF MaxAge

\* The operators on sequence numbers return sequence numbers.
LEMMA NextSeqType ==
  ASSUME NEW s \in SeqNums
  PROVE  NextSeq(s) \in SeqNums
<1>1. s + 1 \in Int
  BY ModulusType DEF SeqNums
<1> QED
  BY <1>1, DivMod, ModulusType DEF NextSeq, SeqNums

-----------------------------------------------------------------------------
\* on_packet() keeps the type of the receiver's state.
LEMMA OnPacketType ==
  ASSUME TypeOK, NEW i \in Nat, OnPacket(i)
  PROVE  /\ expected' \in SeqNums
         /\ highest_seen' \in SeqNums
         /\ DOMAIN buf' \in SUBSET SeqNums
         /\ buf' \in [DOMAIN buf' -> Nat]
         /\ DOMAIN missing' \in SUBSET SeqNums
         /\ missing' \in [DOMAIN missing' -> Hole]
         /\ pos' \in Nat
<1>1. WireSeq(i) \in SeqNums
  BY WireSeqType
<1>2. expected' \in SeqNums /\ pos' \in Nat
  BY <1>1 DEF TypeOK, OnPacket
<1>3. highest_seen' \in SeqNums
  BY <1>1 DEF TypeOK, OnPacket, Highest
<1>4. NewHole \in Hole
  BY MaxAgeType, RetryAssumption DEF NewHole, Hole
<1> DEFINE exp   == IF expected = None THEN WireSeq(i) ELSE expected
           held  == DOMAIN buf \cup {WireSeq(i)}
           newer == IF SeqGt(WireSeq(i), exp)
                    THEN SeqsBetween(exp, WireSeq(i)) ELSE {}
           holes == (DOMAIN missing \cup newer) \ held
<1>5. CASE SeqLt(WireSeq(i), exp)
  <2>1. UNCHANGED <<buf, missing>>
    BY <1>5 DEF OnPacket
  <2> QED
    BY <2>1, <1>2, <1>3 DEF TypeOK
<1>6. CASE ~SeqLt(WireSeq(i), exp)
  <2>1. /\ buf' = [s \in held |-> IF s = WireSeq(i) THEN i ELSE buf[s]]
        /\ missing' = [s \in holes |-> IF s \in DOMAIN missing
                                       THEN missing[s] ELSE NewHole]
    BY <1>6 DEF OnPacket
  <2>2. held \in SUBSET SeqNums
    BY <1>1 DEF TypeOK
  <2>3. holes \in SUBSET SeqNums
    BY DEF TypeOK, SeqsBetween
  <2> HIDE DEF held, holes
  <2>4. DOMAIN buf' = held /\ DOMAIN missing' = holes
    BY <2>1
  <2>5. \A s \in held : (IF s = WireSeq(i) THEN i ELSE buf[s]) \in Nat
    BY DEF TypeOK, held
  <2>6. \A s \in holes :
           (IF s \in DOMAIN missing THEN missing[s] ELSE NewHole) \in Hole
    BY <1>4 DEF TypeOK
  <2>7. buf' \in [held -> Nat]
    BY <2>1, <2>5
  <2>8. missing' \in [holes -> Hole]
    BY <2>1, <2>6
  <2> QED
    BY <1>2, <1>3, <2>2, <2>3, <2>4, <2>7, <2>8
<1> QED
  BY <1>5, <1>6

\* The initial state has the right types.
LEMMA InitType == Init => TypeOK
  BY ModulusType DEF Init, TypeOK, SeqNums, None

\* Every step keeps them.
LEMMA StepType == TypeOK /\ [Next]_vars => TypeOK'
<1> SUFFICES ASSUME TypeOK, [Next]_vars
             PROVE  TypeOK'
  OBVIOUS
<1>1. ASSUME NEW i \in 0 .. MaxIndex, RecvPacket(i)
      PROVE  TypeOK'
  <2>1. i \in Nat
    BY MaxIndexAssumption
  <2>2. /\ pc' = "deliver" /\ due' = {} /\ out' = out
        /\ OnPacket(i)
    BY <1>1 DEF RecvPacket
  <2> QED
    BY <2>1, <2>2, OnPacketType DEF TypeOK
<1>2. CASE RecvNothing
  BY <1>2 DEF TypeOK, RecvNothing
<1>3. CASE DeliverPacket
  <2>1. expected \in SeqNums /\ expected \in DOMAIN buf
    BY <1>3 DEF TypeOK, DeliverPacket
  <2>2. expected' \in SeqNums
    BY <1>3, <2>1, NextSeqType DEF DeliverPacket
  <2>3. buf' = [s \in DOMAIN buf \ {expected} |-> buf[s]]
    BY <1>3 DEF DeliverPacket, Restrict
  <2>4. /\ DOMAIN buf' = DOMAIN buf \ {expected}
        /\ buf' \in [DOMAIN buf \ {expected} -> Nat]
    BY <2>3 DEF TypeOK
  <2>5. out' \in [seq : SeqNums \cup {None}, data : Nat \cup {None}]
    BY <1>3, <2>1 DEF TypeOK, DeliverPacket
  <2>6. pos' \in Nat /\ UNCHANGED <<missing, highest_seen, pc, due>>
    BY <1>3 DEF TypeOK, DeliverPacket
  <2> QED
    BY <2>2, <2>4, <2>5, <2>6 DEF TypeOK
<1>4. CASE DeliverGap
  <2>1. expected \in SeqNums
    BY <1>4 DEF TypeOK, DeliverGap
  <2>2. expected' \in SeqNums
    BY <1>4, <2>1, NextSeqType DEF DeliverGap
  <2>3. missing' = [s \in DOMAIN missing \ {expected} |-> missing[s]]
    BY <1>4 DEF DeliverGap, Restrict
  <2>4. /\ DOMAIN missing' = DOMAIN missing \ {expected}
        /\ missing' \in [DOMAIN missing \ {expected} -> Hole]
    BY <2>3 DEF TypeOK
  <2>5. out' \in [seq : SeqNums \cup {None}, data : Nat \cup {None}]
    BY <1>4, <2>1 DEF TypeOK, DeliverGap
  <2>6. pos' \in Nat /\ UNCHANGED <<buf, highest_seen, pc, due>>
    BY <1>4 DEF TypeOK, DeliverGap
  <2> QED
    BY <2>2, <2>4, <2>5, <2>6 DEF TypeOK
<1>5. CASE DeliverStop
  BY <1>5 DEF TypeOK, DeliverStop
<1>6. CASE DueNacks
  <2>1. \A s \in DOMAIN missing :
           [age     |-> missing[s].age,
            retries |-> IF NackDue(s) THEN missing[s].retries + 1
                                      ELSE missing[s].retries] \in Hole
    BY RetryAssumption DEF TypeOK, Hole, NackDue
  <2>2. /\ DOMAIN missing' = DOMAIN missing
        /\ missing' \in [DOMAIN missing -> Hole]
    BY <1>6, <2>1 DEF DueNacks
  <2>3. /\ pc' = "recv" /\ due' \in SUBSET SeqNums
        /\ UNCHANGED <<expected, buf, highest_seen, out, pos>>
    BY <1>6 DEF TypeOK, DueNacks
  <2> QED
    BY <2>2, <2>3 DEF TypeOK
<1>7. CASE Tick
  <2>1. \A s \in DOMAIN missing :
           [age     |-> IF missing[s].age < MaxAge
                        THEN missing[s].age + 1 ELSE MaxAge,
            retries |-> missing[s].retries] \in Hole
    BY MaxAgeType DEF TypeOK, Hole
  <2>2. /\ DOMAIN missing' = DOMAIN missing
        /\ missing' \in [DOMAIN missing -> Hole]
    BY <1>7, <2>1 DEF Tick
  <2>3. UNCHANGED <<expected, buf, highest_seen, pc, due, out, pos>>
    BY <1>7 DEF Tick
  <2> QED
    BY <2>2, <2>3 DEF TypeOK
<1>8. CASE Exit
  BY <1>8 DEF TypeOK, Exit
<1>9. CASE UNCHANGED vars
  BY <1>9 DEF TypeOK, vars
<1>10. CASE Terminated
  BY <1>9, <1>10 DEF Terminated
<1> QED
  BY <1>1, <1>2, <1>3, <1>4, <1>5, <1>6, <1>7, <1>8, <1>9, <1>10 DEF Next

\* Every variable of the receiver keeps its type (TypeOK).
THEOREM ReceiverType == Spec => []TypeOK
  BY InitType, StepType, PTL DEF Spec

-----------------------------------------------------------------------------
\* The window with the index h of highest_seen in hand: the numbers of the
\* packets pos .. h are the held ones and the holes, and packet h is held.
WindowTo(h) ==
  /\ h >= pos - 1
  /\ h < pos + Horizon
  /\ highest_seen = WireSeq(h)
  /\ DOMAIN buf \cap DOMAIN missing = {}
  /\ DOMAIN buf \cup DOMAIN missing = {WireSeq(i) : i \in pos .. h}
  /\ h >= pos => highest_seen \in DOMAIN buf

Window == expected # None => \E h \in Int : WindowTo(h)

\* The inductive invariant: WindowCovered and HighestHeld are about wire
\* numbers only and do not say which lap highest_seen belongs to; Window
\* does, and the step of each action is arithmetic on indexes.
IndInv ==
  /\ TypeOK
  /\ Baseline
  /\ HeldInWindow
  /\ Window
  /\ DeliveredRight
  /\ RetryPacing

\* Taking the first packet off the window.
LEMMA DropFirst ==
  ASSUME NEW p \in Int, NEW h \in Int, p <= h, h < p + Horizon
  PROVE  {WireSeq(i) : i \in p .. h} \ {WireSeq(p)}
           = {WireSeq(i) : i \in p + 1 .. h}
<1>1. ASSUME NEW i \in p + 1 .. h
      PROVE  WireSeq(i) # WireSeq(p)
  BY WireSeqInjective, HorizonFacts
<1>2. ASSUME NEW i \in p .. h, WireSeq(i) # WireSeq(p)
      PROVE  i \in p + 1 .. h
  BY <1>2
<1> QED
  BY <1>1, <1>2

\* on_packet() when a packet has been received before.
LEMMA OnPacketWindow ==
  ASSUME IndInv, NEW i \in Nat, OnPacket(i), expected # None,
         i >= pos - Horizon, i < pos + Horizon
  PROVE  /\ expected' = expected
         /\ pos' = pos
         /\ i < pos => UNCHANGED <<buf, missing, highest_seen>>
         /\ i >= pos =>
              /\ buf' = [s \in DOMAIN buf \cup {WireSeq(i)} |->
                           IF s = WireSeq(i) THEN i ELSE buf[s]]
              /\ \E holes : missing' =
                   [s \in holes |-> IF s \in DOMAIN missing
                                     THEN missing[s] ELSE NewHole]
         /\ Window'
<1> DEFINE seq   == WireSeq(i)
           held  == DOMAIN buf \cup {seq}
           newer == IF SeqGt(seq, expected)
                    THEN SeqsBetween(expected, seq) ELSE {}
           holes == (DOMAIN missing \cup newer) \ held
<1>1. expected' = expected /\ pos' = pos /\ highest_seen' = Highest(seq)
  BY DEF OnPacket
<1>2. pos \in Nat /\ expected = WireSeq(pos)
  BY DEF IndInv, TypeOK, Baseline
<1>3. PICK h \in Int : WindowTo(h)
  BY DEF IndInv, Window
<1>4. SeqLt(seq, expected) <=> i < pos
  BY <1>2, WireSeqGt, HorizonFacts DEF SeqLt
<1>5. SeqGt(seq, expected) <=> i > pos
  BY <1>2, WireSeqGt, HorizonFacts
<1>6. SeqGt(seq, highest_seen) <=> i > h
  BY <1>2, <1>3, WireSeqGt, HorizonFacts DEF WindowTo
<1>7. highest_seen # None
  BY DEF IndInv, Baseline
<1>8. highest_seen' = IF i > h THEN seq ELSE highest_seen
  BY <1>1, <1>6, <1>7 DEF Highest
<1>9. CASE i < pos
  <2>1. UNCHANGED <<buf, missing>>
    BY <1>4, <1>9 DEF OnPacket
  <2>2. highest_seen' = highest_seen
    BY <1>2, <1>3, <1>8, <1>9 DEF WindowTo
  <2>3. Window'
    BY <1>1, <1>3, <2>1, <2>2 DEF Window, WindowTo
  <2> QED
    BY <1>1, <1>2, <1>9, <2>1, <2>2, <2>3
<1>10. CASE i >= pos
  <2>1. /\ buf' = [s \in held |-> IF s = seq THEN i ELSE buf[s]]
        /\ missing' = [s \in holes |-> IF s \in DOMAIN missing
                                       THEN missing[s] ELSE NewHole]
    BY <1>2, <1>4, <1>10 DEF OnPacket
  <2>2. newer = {WireSeq(j) : j \in pos .. i - 1}
    <3>1. CASE i = pos
      <4>1. newer = {}
        BY <1>2, <1>5, <3>1
      <4>2. pos .. i - 1 = {}
        BY <1>2, <3>1
      <4> QED
        BY <4>1, <4>2
    <3>2. CASE i > pos
      <4>1. newer = {s \in SeqNums : SeqDiff(s, WireSeq(pos)) < SeqDiff(seq, WireSeq(pos))}
        BY <1>2, <1>5, <3>2 DEF SeqsBetween
      <4>2. SeqDiff(seq, WireSeq(pos)) = i - pos
        BY <1>2, <3>2, WireSeqDiff, HorizonFacts
      <4>3. i - pos \in 0 .. SeqModulus - 1 /\ pos + (i - pos) - 1 = i - 1
        BY <1>2, <3>2, HorizonFacts
      <4>4. newer = {WireSeq(j) : j \in pos .. pos + (i - pos) - 1}
        BY <1>2, <4>1, <4>2, <4>3, WireWindow, SMTT(30)
      <4> QED
        BY <4>3, <4>4
    <3> QED
      BY <1>2, <1>10, <3>1, <3>2
  <2> DEFINE g == IF i > h THEN i ELSE h
  <2>3. g \in Int /\ g >= pos - 1 /\ g < pos + Horizon /\ g >= i /\ g >= h
    BY <1>2, <1>3, HorizonFacts DEF WindowTo
  <2>4. highest_seen' = WireSeq(g)
    BY <1>3, <1>8 DEF WindowTo
  <2>5. {WireSeq(j) : j \in pos .. h} \cup {WireSeq(j) : j \in pos .. i - 1} \cup {seq}
          = {WireSeq(j) : j \in pos .. g}
    <3>1. pos .. h \subseteq pos .. g /\ pos .. i - 1 \subseteq pos .. g /\ i \in pos .. g
      BY <1>2, <1>10, <2>3
    <3>2. \A j \in pos .. g : j \in pos .. h \/ j \in pos .. i - 1 \/ j = i
      BY <1>2
    <3> QED
      BY <3>1, <3>2
  <2>6. DOMAIN buf' = held /\ DOMAIN missing' = holes
    BY <2>1
  <2>7. held \cup holes = {WireSeq(j) : j \in pos .. g}
    <3>1. held \cup holes = DOMAIN buf \cup DOMAIN missing \cup newer \cup {seq}
      OBVIOUS
    <3> QED
      BY <1>3, <2>2, <2>5, <3>1 DEF WindowTo
  <2>8. held \cap holes = {}
    OBVIOUS
  <2>9. highest_seen' \in held
    <3>1. CASE i > h
      BY <1>8, <3>1
    <3>2. CASE ~(i > h)
      BY <1>2, <1>3, <1>8, <1>10, <3>2 DEF WindowTo
    <3> QED
      BY <3>1, <3>2
  <2>10. WindowTo(g)'
    BY <1>1, <2>3, <2>4, <2>6, <2>7, <2>8, <2>9 DEF WindowTo
  <2>11. Window'
    BY <2>3, <2>10 DEF Window
  <2> QED
    BY <1>1, <1>2, <1>10, <2>1, <2>11
<1> QED
  BY <1>2, <1>9, <1>10

-----------------------------------------------------------------------------
\* What a held payload's index says about its number.
LEMMA HeldIndex ==
  ASSUME IndInv, expected # None, NEW s \in DOMAIN buf
  PROVE  /\ buf[s] \in Nat /\ buf[s] >= pos /\ buf[s] < pos + Horizon
         /\ s = WireSeq(buf[s])
         /\ s = expected <=> buf[s] = pos
<1>1. /\ buf[s] \in Nat /\ buf[s] >= pos /\ buf[s] < pos + Horizon
      /\ s = WireSeq(buf[s])
      /\ pos \in Nat /\ expected = WireSeq(pos)
  BY DEF IndInv, TypeOK, HeldInWindow, Baseline
<1>2. ASSUME WireSeq(buf[s]) = WireSeq(pos) PROVE buf[s] = pos
  BY <1>1, <1>2, WireSeqInjective, HorizonFacts
<1> QED
  BY <1>1, <1>2

\* Advancing expected past packet pos, which is either held or a hole.
LEMMA AdvanceWindow ==
  ASSUME IndInv, expected # None,
         expected \in DOMAIN buf \cup DOMAIN missing,
         expected' = NextSeq(expected), pos' = pos + 1,
         highest_seen' = highest_seen,
         DOMAIN buf' = DOMAIN buf \ {expected},
         DOMAIN missing' = DOMAIN missing \ {expected}
  PROVE  /\ expected' = WireSeq(pos')
         /\ Window'
<1>1. pos \in Nat /\ expected = WireSeq(pos)
  BY DEF IndInv, TypeOK, Baseline
<1>2. PICK h \in Int : WindowTo(h)
  BY DEF IndInv, Window
<1>3. expected' = WireSeq(pos')
  BY <1>1, WireSeqNext
<1>4. pos <= h /\ h < pos + Horizon
  <2>1. CASE h < pos
    <3>1. pos .. h = {}
      BY <1>1, <2>1
    <3>2. DOMAIN buf \cup DOMAIN missing = {}
      BY <1>2, <3>1 DEF WindowTo
    <3> QED
      BY <3>2
  <2> QED
    BY <1>1, <1>2, <2>1 DEF WindowTo
<1>5. DOMAIN buf' \cup DOMAIN missing' = {WireSeq(i) : i \in pos' .. h}
  <2>1. {WireSeq(i) : i \in pos .. h} \ {WireSeq(pos)}
          = {WireSeq(i) : i \in pos + 1 .. h}
    BY <1>1, <1>4, DropFirst
  <2>2. DOMAIN buf' \cup DOMAIN missing'
          = (DOMAIN buf \cup DOMAIN missing) \ {expected}
    OBVIOUS
  <2> QED
    BY <1>1, <1>2, <2>1, <2>2 DEF WindowTo
<1>6. h >= pos' => highest_seen' \in DOMAIN buf'
  <2> SUFFICES ASSUME h >= pos + 1
               PROVE  highest_seen \in DOMAIN buf \ {expected}
    OBVIOUS
  <2>1. WireSeq(h) # WireSeq(pos)
    BY <1>1, <1>4, WireSeqInjective, HorizonFacts
  <2> QED
    BY <1>1, <1>2, <2>1 DEF WindowTo
<1>7. DOMAIN buf' \cap DOMAIN missing' = {}
  BY <1>2 DEF WindowTo
<1>8. h >= pos' - 1 /\ h < pos' + Horizon
  BY <1>1, <1>4, HorizonFacts
<1>9. WindowTo(h)'
  BY <1>2, <1>5, <1>6, <1>7, <1>8 DEF WindowTo
<1> QED
  BY <1>3, <1>9 DEF Window

\* on_packet() for the very first packet.
LEMMA FirstPacket ==
  ASSUME IndInv, NEW i \in Nat, OnPacket(i), expected = None
  PROVE  /\ expected' = WireSeq(i)
         /\ pos' = i
         /\ buf' = [s \in {WireSeq(i)} |-> i]
         /\ DOMAIN missing' = {}
         /\ Window'
<1> DEFINE seq == WireSeq(i)
<1>1. DOMAIN buf = {} /\ DOMAIN missing = {} /\ highest_seen = None
  BY DEF IndInv, Baseline
<1>2. expected' = seq /\ pos' = i
  BY DEF OnPacket
<1>3. highest_seen' = seq
  BY <1>1 DEF OnPacket, Highest
<1>4. ~SeqLt(seq, seq) /\ ~SeqGt(seq, seq)
  BY DEF SeqLt, SeqGt
<1>5. /\ buf' = [s \in DOMAIN buf \cup {seq} |-> IF s = seq THEN i ELSE buf[s]]
      /\ missing' = [s \in (DOMAIN missing \cup {}) \ (DOMAIN buf \cup {seq}) |->
                       IF s \in DOMAIN missing THEN missing[s] ELSE NewHole]
  BY <1>4 DEF OnPacket
<1>6. DOMAIN missing' = {} /\ buf' = [s \in {seq} |-> i]
  BY <1>1, <1>5
<1>7. i .. i = {i} /\ i \in Int
  OBVIOUS
<1>8. {WireSeq(j) : j \in i .. i} = {seq}
  BY <1>7
<1>9. DOMAIN buf' = {seq}
  BY <1>6
<1>10. WindowTo(i)'
  BY <1>2, <1>3, <1>6, <1>8, <1>9, HorizonFacts DEF WindowTo
<1> QED
  BY <1>2, <1>6, <1>7, <1>10 DEF Window

\* The invariant holds initially.
LEMMA InitInv == Init => IndInv
<1> SUFFICES ASSUME Init PROVE IndInv
  OBVIOUS
<1>1. DOMAIN buf = {} /\ DOMAIN missing = {}
  BY DEF Init
<1> QED
  BY <1>1, InitType
  DEF Init, IndInv, Baseline, HeldInWindow, Window, DeliveredRight, RetryPacing

\* Every step keeps the invariant.
LEMMA StepInv == IndInv /\ [Next]_vars => IndInv'
<1> SUFFICES ASSUME IndInv, [Next]_vars
             PROVE  IndInv'
  OBVIOUS
<1>1. TypeOK /\ TypeOK'
  BY StepType DEF IndInv
<1>2. None \notin SeqNums /\ None \notin Nat
  BY ModulusType DEF None, SeqNums
<1>3. ASSUME NEW i \in 0 .. MaxIndex, RecvPacket(i)
      PROVE  IndInv'
  <2>1. i \in Nat /\ OnPacket(i) /\ out' = out /\ InHorizon(i)
    BY <1>3, MaxIndexAssumption DEF RecvPacket
  <2>2. highest_seen' \in SeqNums /\ expected' \in SeqNums
    BY <1>1, <2>1, OnPacketType
  <2>3. CASE expected = None
    <3>1. /\ expected' = WireSeq(i) /\ pos' = i
          /\ buf' = [s \in {WireSeq(i)} |-> i]
          /\ DOMAIN missing' = {}
          /\ Window'
      BY <2>1, <2>3, FirstPacket
    <3>2. Baseline'
      BY <1>2, <2>2, <3>1 DEF Baseline
    <3>3. HeldInWindow'
      BY <2>1, <3>1, HorizonFacts DEF HeldInWindow
    <3>4. DeliveredRight'
      BY <2>1, <2>3 DEF DeliveredRight, IndInv, Baseline
    <3>5. RetryPacing'
      BY <3>1 DEF RetryPacing
    <3> QED
      BY <1>1, <3>1, <3>2, <3>3, <3>4, <3>5 DEF IndInv
  <2>4. CASE expected # None
    <3>1. i >= pos - Horizon /\ i < pos + Horizon
      BY <2>1, <2>4 DEF InHorizon
    <3>2. /\ expected' = expected /\ pos' = pos
          /\ i < pos => UNCHANGED <<buf, missing, highest_seen>>
          /\ i >= pos =>
               /\ buf' = [s \in DOMAIN buf \cup {WireSeq(i)} |->
                            IF s = WireSeq(i) THEN i ELSE buf[s]]
               /\ \E holes : missing' =
                    [s \in holes |-> IF s \in DOMAIN missing
                                      THEN missing[s] ELSE NewHole]
          /\ Window'
      BY <2>1, <2>4, <3>1, OnPacketWindow
    <3>3. Baseline'
      BY <1>2, <2>2, <2>4, <3>2 DEF Baseline, IndInv
    <3>4. DeliveredRight'
      BY <2>1, <3>2 DEF DeliveredRight, IndInv
    <3>5. pos \in Nat
      BY <1>1 DEF TypeOK
    <3>6. HeldInWindow'
      BY <2>1, <3>1, <3>2, <3>5 DEF HeldInWindow, IndInv
    <3>7. RetryPacing'
      <4>1. CASE i < pos
        BY <3>2, <4>1 DEF RetryPacing, IndInv
      <4>2. CASE i >= pos
        <5>1. PICK holes : missing' =
                 [s \in holes |-> IF s \in DOMAIN missing
                                   THEN missing[s] ELSE NewHole]
          BY <3>2, <4>2
        <5>2. NewHole.retries * RetryAfter <= NewHole.age
          BY RetryAssumption DEF NewHole
        <5> QED
          BY <5>1, <5>2 DEF RetryPacing, IndInv
      <4> QED
        BY <2>1, <3>5, <4>1, <4>2
    <3> QED
      BY <1>1, <3>2, <3>3, <3>4, <3>6, <3>7 DEF IndInv
  <2> QED
    BY <2>3, <2>4
<1>4. CASE DeliverPacket
  <2>1. /\ expected # None /\ expected \in DOMAIN buf
        /\ out' = [seq |-> expected, data |-> buf[expected]]
        /\ expected' = NextSeq(expected) /\ pos' = pos + 1
        /\ UNCHANGED <<missing, highest_seen>>
    BY <1>4 DEF DeliverPacket
  <2>2. buf' = [s \in DOMAIN buf \ {expected} |-> buf[s]]
    BY <1>4 DEF DeliverPacket, Restrict
  <2>3. PICK h \in Int : WindowTo(h)
    BY <2>1 DEF IndInv, Window
  <2>4. DOMAIN buf' = DOMAIN buf \ {expected} /\ DOMAIN missing' = DOMAIN missing \ {expected}
    BY <2>1, <2>2, <2>3 DEF WindowTo
  <2>5. expected' = WireSeq(pos') /\ Window'
    BY <2>1, <2>4, AdvanceWindow
  <2>6. buf[expected] = pos /\ expected = WireSeq(pos) /\ pos \in Nat
    BY <1>1, <2>1, HeldIndex DEF IndInv, Baseline, TypeOK
  <2>7. Baseline'
    <3>1. expected' \in SeqNums
      BY <1>1, <2>1, NextSeqType DEF TypeOK
    <3>2. highest_seen' # None
      BY <2>1 DEF IndInv, Baseline
    <3> QED
      BY <1>2, <2>5, <3>1, <3>2 DEF Baseline
  <2>8. HeldInWindow'
    <3> SUFFICES ASSUME NEW s \in DOMAIN buf \ {expected}
                 PROVE  buf[s] >= pos + 1 /\ buf[s] < pos + 1 + Horizon /\ WireSeq(buf[s]) = s
      BY <2>1, <2>2, <2>4 DEF HeldInWindow
    <3> QED
      BY <2>1, <2>6, HeldIndex, HorizonFacts
  <2>9. DeliveredRight'
    BY <2>1, <2>6 DEF DeliveredRight
  <2>10. RetryPacing'
    BY <2>1 DEF RetryPacing, IndInv
  <2> QED
    BY <1>1, <2>5, <2>7, <2>8, <2>9, <2>10 DEF IndInv
<1>5. CASE DeliverGap
  <2>1. /\ expected # None /\ expected \notin DOMAIN buf /\ expected \in DOMAIN missing
        /\ out' = [seq |-> expected, data |-> None]
        /\ expected' = NextSeq(expected) /\ pos' = pos + 1
        /\ UNCHANGED <<buf, highest_seen>>
    BY <1>5 DEF DeliverGap
  <2>2. missing' = [s \in DOMAIN missing \ {expected} |-> missing[s]]
    BY <1>5 DEF DeliverGap, Restrict
  <2>3. DOMAIN buf' = DOMAIN buf \ {expected} /\ DOMAIN missing' = DOMAIN missing \ {expected}
    BY <2>1, <2>2
  <2>4. expected' = WireSeq(pos') /\ Window'
    BY <2>1, <2>3, AdvanceWindow
  <2>5. expected = WireSeq(pos) /\ pos \in Nat
    BY <1>1, <2>1 DEF IndInv, Baseline, TypeOK
  <2>6. Baseline'
    <3>1. expected' \in SeqNums
      BY <1>1, <2>1, NextSeqType DEF TypeOK
    <3>2. highest_seen' # None
      BY <2>1 DEF IndInv, Baseline
    <3> QED
      BY <1>2, <2>4, <3>1, <3>2 DEF Baseline
  <2>7. HeldInWindow'
    <3> SUFFICES ASSUME NEW s \in DOMAIN buf
                 PROVE  buf[s] >= pos + 1 /\ buf[s] < pos + 1 + Horizon /\ WireSeq(buf[s]) = s
      BY <2>1 DEF HeldInWindow
    <3> QED
      BY <2>1, <2>5, HeldIndex, HorizonFacts
  <2>8. DeliveredRight'
    BY <2>1, <2>5 DEF DeliveredRight
  <2>9. RetryPacing'
    BY <2>2 DEF RetryPacing, IndInv
  <2> QED
    BY <1>1, <2>4, <2>6, <2>7, <2>8, <2>9 DEF IndInv
<1>6. CASE DueNacks
  <2>1. /\ UNCHANGED <<expected, buf, highest_seen, out, pos>>
        /\ missing' = [s \in DOMAIN missing |->
                         [age     |-> missing[s].age,
                          retries |-> IF NackDue(s) THEN missing[s].retries + 1
                                                    ELSE missing[s].retries]]
    BY <1>6 DEF DueNacks
  <2>2. DOMAIN missing' = DOMAIN missing
    BY <2>1
  <2>3. RetryPacing'
    <3> SUFFICES ASSUME NEW s \in DOMAIN missing
                 PROVE  missing'[s].retries * RetryAfter <= missing'[s].age
      BY <2>2 DEF RetryPacing
    <3>1. missing[s] \in Hole /\ missing[s].retries * RetryAfter <= missing[s].age
      BY <1>1 DEF TypeOK, IndInv, RetryPacing
    <3>2. CASE NackDue(s)
      <4>1. missing[s].age >= RetryAfter * (missing[s].retries + 1)
        BY <3>2 DEF NackDue
      <4>2. RetryAfter * (missing[s].retries + 1) = (missing[s].retries + 1) * RetryAfter
        BY <3>1, RetryAssumption DEF Hole
      <4>3. missing'[s].age = missing[s].age /\ missing'[s].retries = missing[s].retries + 1
        BY <2>1, <3>2
      <4> QED
        BY <4>1, <4>2, <4>3, <3>1, RetryAssumption DEF Hole
    <3>3. CASE ~NackDue(s)
      BY <2>1, <3>1, <3>3
    <3> QED
      BY <3>2, <3>3
  <2> QED
    BY <1>1, <2>1, <2>2, <2>3
    DEF IndInv, Baseline, HeldInWindow, Window, WindowTo, DeliveredRight
<1>7. CASE Tick
  <2>1. /\ UNCHANGED <<expected, buf, highest_seen, out, pos>>
        /\ missing' = [s \in DOMAIN missing |->
                         [age     |-> IF missing[s].age < MaxAge
                                      THEN missing[s].age + 1 ELSE MaxAge,
                          retries |-> missing[s].retries]]
    BY <1>7 DEF Tick
  <2>2. DOMAIN missing' = DOMAIN missing
    BY <2>1
  <2>3. RetryPacing'
    <3> SUFFICES ASSUME NEW s \in DOMAIN missing
                 PROVE  missing'[s].retries * RetryAfter <= missing'[s].age
      BY <2>2 DEF RetryPacing
    <3>1. missing[s] \in Hole /\ missing[s].retries * RetryAfter <= missing[s].age
      BY <1>1 DEF TypeOK, IndInv, RetryPacing
    <3>2. missing'[s].retries = missing[s].retries /\ missing'[s].age >= missing[s].age
      BY <2>1, <3>1, MaxAgeType DEF Hole
    <3>3. /\ missing'[s].age \in Nat /\ missing[s].age \in Nat
          /\ missing[s].retries * RetryAfter \in Nat
      BY <2>1, <3>1, MaxAgeType, RetryAssumption DEF Hole
    <3> QED
      BY <3>1, <3>2, <3>3
  <2> QED
    BY <1>1, <2>1, <2>2, <2>3
    DEF IndInv, Baseline, HeldInWindow, Window, WindowTo, DeliveredRight
<1>8. CASE UNCHANGED <<expected, buf, missing, highest_seen, out, pos>>
  BY <1>1, <1>8
  DEF IndInv, Baseline, HeldInWindow, Window, WindowTo, DeliveredRight, RetryPacing
<1>9. CASE RecvNothing \/ DeliverStop \/ Exit \/ Terminated \/ UNCHANGED vars
  BY <1>8, <1>9 DEF RecvNothing, DeliverStop, Exit, Terminated, vars
<1> QED
  BY <1>3, <1>4, <1>5, <1>6, <1>7, <1>9 DEF Next

-----------------------------------------------------------------------------
\* The invariant holds throughout.
LEMMA InvAlways == Spec => []IndInv
  BY InitInv, StepInv, PTL DEF Spec

\* Window, restated on wire numbers.
LEMMA WindowNumbers == IndInv => WindowCovered /\ HighestHeld
<1> SUFFICES ASSUME IndInv PROVE WindowCovered /\ HighestHeld
  OBVIOUS
<1>1. CASE expected = None
  BY <1>1 DEF IndInv, Baseline, WindowCovered, HighestHeld
<1>2. CASE expected # None
  <2>1. pos \in Nat /\ expected = WireSeq(pos)
    BY <1>2 DEF IndInv, TypeOK, Baseline
  <2>2. PICK h \in Int : WindowTo(h)
    BY <1>2 DEF IndInv, Window
  <2> DEFINE k == h + 1 - pos
  <2>3. k \in 0 .. SeqModulus - 1 /\ h + 1 \in Int /\ pos + k - 1 = h
    BY <2>1, <2>2, HorizonFacts DEF WindowTo
  <2>4. SeqDiff(NextSeq(highest_seen), expected) = k
    <3>1. NextSeq(highest_seen) = WireSeq(h + 1)
      BY <2>2, WireSeqNext DEF WindowTo
    <3> QED
      BY <2>1, <2>3, <3>1, WireSeqDiff, ModulusType
  <2>5. {s \in SeqNums : SeqDiff(s, WireSeq(pos)) < k}
          = {WireSeq(i) : i \in pos .. h}
    BY <2>1, <2>3, WireWindow
  <2>6. WindowCovered
    BY <2>1, <2>2, <2>4, <2>5 DEF WindowCovered, WindowTo
  <2>7. HighestHeld
    <3> SUFFICES ASSUME DOMAIN missing # {} PROVE highest_seen \in DOMAIN buf
      BY DEF HighestHeld
    <3>1. h >= pos
      <4>1. CASE h < pos
        <5>1. pos .. h = {}
          BY <2>1, <4>1
        <5> QED
          BY <2>2, <5>1 DEF WindowTo
      <4> QED
        BY <2>1, <4>1
    <3> QED
      BY <2>2, <3>1 DEF WindowTo
  <2> QED
    BY <2>6, <2>7
<1> QED
  BY <1>1, <1>2

\* nack_rx.py never holds a packet under the number of another one: across
\* any number of wraps, what buf has under s is the packet of the current
\* window whose number is s.
THEOREM ReceiverHeldInWindow == Spec => []HeldInWindow
<1>1. IndInv => HeldInWindow
  BY DEF IndInv
<1> QED
  BY <1>1, InvAlways, PTL

\* nack_rx.py forgets no hole: every number from expected to highest_seen is
\* in exactly one of buf and missing.
THEOREM ReceiverWindowCovered == Spec => [](WindowCovered /\ HighestHeld)
  BY WindowNumbers, InvAlways, PTL

\* deliver() yields each packet's own payload, or the mark of a hole, at its
\* own place.
THEOREM ReceiverDeliveredRight == Spec => []DeliveredRight
<1>1. IndInv => DeliveredRight
  BY DEF IndInv
<1> QED
  BY <1>1, InvAlways, PTL

\* The three window facts together, whatever the width of the sequence number, the
\* horizon and the retry budget (on_packet, due_nacks and deliver of nack_rx.py).
THEOREM ReceiverWindowRight == Spec => []WindowRight
<1>1. HeldInWindow /\ (WindowCovered /\ HighestHeld) /\ DeliveredRight => WindowRight
  BY DEF WindowRight
<1> QED
  BY <1>1, ReceiverHeldInWindow, ReceiverWindowCovered, ReceiverDeliveredRight, PTL

\* A hole is declared only after all its retries were made and the whole
\* retry time has passed.
THEOREM ReceiverGapAfterBudget == Spec => GapAfterBudget
<1>1. IndInv /\ [Next]_vars =>
        [ (expected # None /\ pos' = pos + 1 /\ out'.data = None) =>
            /\ expected \in DOMAIN missing \ DOMAIN buf
            /\ missing[expected].age >= MaxRetries * RetryAfter
            /\ missing[expected].retries = MaxRetries ]_vars
  <2> SUFFICES ASSUME IndInv, Next, expected # None, pos' = pos + 1,
                      out'.data = None
               PROVE  /\ expected \in DOMAIN missing \ DOMAIN buf
                      /\ missing[expected].age >= MaxRetries * RetryAfter
                      /\ missing[expected].retries = MaxRetries
    OBVIOUS
  <2>1. pos \in Nat
    BY DEF IndInv, TypeOK
  <2>2. DeliverPacket \/ DeliverGap
    <3>1. ASSUME NEW i \in 0 .. MaxIndex, RecvPacket(i) PROVE FALSE
      BY <2>1, <3>1 DEF RecvPacket, OnPacket
    <3>2. CASE pos' = pos
      BY <2>1, <3>2
    <3> QED
      BY <3>1, <3>2
      DEF Next, RecvNothing, DeliverStop, DueNacks, Tick, Exit, Terminated, vars
  <2>3. ~DeliverPacket
    <3> SUFFICES ASSUME DeliverPacket PROVE FALSE
      OBVIOUS
    <3>1. expected \in DOMAIN buf /\ out'.data = buf[expected]
      BY DEF DeliverPacket
    <3> QED
      BY <3>1 DEF IndInv, TypeOK, None
  <2>4. /\ expected \in DOMAIN missing \ DOMAIN buf
        /\ missing[expected].retries >= MaxRetries
    BY <2>2, <2>3 DEF DeliverGap
  <2>5. /\ missing[expected] \in Hole
        /\ missing[expected].retries * RetryAfter <= missing[expected].age
    BY <2>4 DEF IndInv, TypeOK, RetryPacing
  <2>6. missing[expected].retries = MaxRetries
    BY <2>4, <2>5, RetryAssumption DEF Hole
  <2> QED
    BY <2>4, <2>5, <2>6
<1> QED
  BY <1>1, InvAlways, PTL DEF Spec, GapAfterBudget

-----------------------------------------------------------------------------
Held == {buf[s] : s \in DOMAIN buf}

\* A packet that arrives joins the held ones, or is late and changes nothing.
LEMMA RecvRefines ==
  ASSUME IndInv, NEW i \in 0 .. MaxIndex, RecvPacket(i)
  PROVE  Gap!GapNext \/ UNCHANGED Gap!gapVars
<1>1. i \in Nat /\ OnPacket(i) /\ out' = out /\ InHorizon(i)
  BY MaxIndexAssumption DEF RecvPacket
<1>2. expected' # None
  BY <1>1, OnPacketType, ModulusType DEF IndInv, None, SeqNums
<1>3. CASE expected = None
  <2>1. pos' = i /\ buf' = [s \in {WireSeq(i)} |-> i]
    BY <1>1, <1>3, FirstPacket
  <2>2. Held' = {i}
    BY <2>1 DEF Held
  <2>3. Gap!First(i)
    BY <1>1, <1>2, <1>3, <2>1, <2>2 DEF Gap!First, Held
  <2> QED
    BY <2>3 DEF Gap!GapNext
<1>4. CASE expected # None
  <2>1. i >= pos - Horizon /\ i < pos + Horizon
    BY <1>1, <1>4 DEF InHorizon
  <2>2. /\ pos' = pos
        /\ i < pos => UNCHANGED <<buf, missing, highest_seen>>
        /\ i >= pos => buf' = [s \in DOMAIN buf \cup {WireSeq(i)} |->
                                 IF s = WireSeq(i) THEN i ELSE buf[s]]
    BY <1>1, <1>4, <2>1, OnPacketWindow
  <2>3. pos \in Nat
    BY DEF IndInv, TypeOK
  <2>4. CASE i < pos
    <3>1. UNCHANGED <<buf, pos, out>>
      BY <1>1, <2>2, <2>4
    <3> QED
      BY <1>2, <1>4, <3>1 DEF Gap!gapVars
  <2>5. CASE i >= pos
    <3>1. \A s \in DOMAIN buf : s = WireSeq(i) => buf[s] = i
      <4> SUFFICES ASSUME NEW s \in DOMAIN buf, s = WireSeq(i)
                   PROVE  buf[s] = i
        OBVIOUS
      <4>1. /\ buf[s] \in Nat /\ buf[s] >= pos /\ buf[s] < pos + Horizon
            /\ WireSeq(buf[s]) = WireSeq(i)
        BY <1>4, HeldIndex
      <4> QED
        BY <1>1, <2>1, <2>3, <2>5, <4>1, WireSeqInjective, HorizonFacts
    <3>2. buf' = [s \in DOMAIN buf \cup {WireSeq(i)} |->
                    IF s = WireSeq(i) THEN i ELSE buf[s]]
      BY <2>2, <2>5
    <3>3. /\ DOMAIN buf' = DOMAIN buf \cup {WireSeq(i)}
          /\ buf'[WireSeq(i)] = i
          /\ \A s \in DOMAIN buf : buf'[s] = buf[s]
      BY <3>1, <3>2
    <3>4. Held' = Held \cup {i}
      BY <3>3 DEF Held
    <3>5. Gap!Arrive(i)
      BY <1>1, <1>2, <1>4, <2>2, <2>5, <3>4 DEF Gap!Arrive, Held
    <3> QED
      BY <3>5 DEF Gap!GapNext
  <2> QED
    BY <1>1, <2>3, <2>4, <2>5
<1> QED
  BY <1>3, <1>4

\* Delivering the expected packet takes exactly it from the held ones.
LEMMA DeliverPacketRefines ==
  ASSUME IndInv, DeliverPacket
  PROVE  Gap!Emit
<1>1. /\ expected # None /\ expected \in DOMAIN buf
      /\ out' = [seq |-> expected, data |-> buf[expected]]
      /\ expected' = NextSeq(expected) /\ pos' = pos + 1
  BY DEF DeliverPacket
<1>2. buf' = [s \in DOMAIN buf \ {expected} |-> buf[s]]
  BY DEF DeliverPacket, Restrict
<1>3. buf[expected] = pos
  BY <1>1, HeldIndex
<1>4. \A s \in DOMAIN buf : buf[s] = pos => s = expected
  BY <1>1, HeldIndex
<1>5. Held' = Held \ {pos}
  BY <1>2, <1>3, <1>4 DEF Held
<1>6. expected' # None
  BY <1>1, NextSeqType, ModulusType DEF IndInv, TypeOK, None, SeqNums
<1>7. pos \in Held
  BY <1>1, <1>3 DEF Held
<1> QED
  BY <1>1, <1>3, <1>5, <1>6, <1>7 DEF Gap!Emit, Held

\* A gap is declared for a packet that is not held, before one that is.
LEMMA DeliverGapRefines ==
  ASSUME IndInv, DeliverGap
  PROVE  Gap!Skip
<1>1. /\ expected # None /\ expected \notin DOMAIN buf /\ expected \in DOMAIN missing
      /\ out' = [seq |-> expected, data |-> None]
      /\ expected' = NextSeq(expected) /\ pos' = pos + 1 /\ buf' = buf
  BY DEF DeliverGap
<1>2. expected' # None
  BY <1>1, NextSeqType, ModulusType DEF IndInv, TypeOK, None, SeqNums
<1>3. \A s \in DOMAIN buf : buf[s] \in Nat /\ buf[s] > pos
  BY <1>1, HeldIndex DEF IndInv, TypeOK
<1>4. highest_seen \in DOMAIN buf
  BY <1>1, WindowNumbers DEF HighestHeld
<1>5. pos \notin Held /\ \E i \in Held : i > pos
  BY <1>3, <1>4 DEF Held, IndInv, TypeOK
<1> QED
  BY <1>1, <1>2, <1>5 DEF Gap!Skip, Gap!NoData, None, Held

\* The receiver implements the gap stream.
THEOREM ReceiverImplementsGapStream == Spec => GapStreamSpec
<1>1. Init => Gap!GapInit
  <2> SUFFICES ASSUME Init PROVE Gap!GapInit
    OBVIOUS
  <2>1. DOMAIN buf = {}
    BY DEF Init
  <2> QED
    BY <2>1 DEF Init, Gap!GapInit, Gap!NoData, None
<1>2. IndInv /\ [Next]_vars => [Gap!GapNext]_(Gap!gapVars)
  <2> SUFFICES ASSUME IndInv, [Next]_vars
               PROVE  Gap!GapNext \/ UNCHANGED Gap!gapVars
    OBVIOUS
  <2>1. ASSUME NEW i \in 0 .. MaxIndex, RecvPacket(i)
        PROVE  Gap!GapNext \/ UNCHANGED Gap!gapVars
    BY <2>1, RecvRefines
  <2>2. CASE DeliverPacket
    BY <2>2, DeliverPacketRefines DEF Gap!GapNext
  <2>3. CASE DeliverGap
    BY <2>3, DeliverGapRefines DEF Gap!GapNext
  <2>4. CASE UNCHANGED <<expected, buf, out, pos>>
    BY <2>4 DEF Gap!gapVars
  <2>5. CASE \/ RecvNothing \/ DeliverStop \/ DueNacks \/ Tick
             \/ Exit \/ Terminated \/ UNCHANGED vars
    BY <2>4, <2>5
    DEF RecvNothing, DeliverStop, DueNacks, Tick, Exit, Terminated, vars
  <2> QED
    BY <2>1, <2>2, <2>3, <2>5 DEF Next
<1> QED
  BY <1>1, <1>2, InvAlways, PTL DEF Spec, GapStreamSpec, Gap!GapSpec
=============================================================================
